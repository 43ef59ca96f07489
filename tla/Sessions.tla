------------------------------- MODULE Sessions -------------------------------
(***************************************************************************)
(* The life of a WhatsApp connection: the dashboard's requests on it, the  *)
(* session the provider keeps under the same name, and the callbacks with  *)
(* which the provider reports its status.                                  *)
(*                                                                         *)
(* A request is a sequence of round trips, to the database and to the      *)
(* provider, and one action is one of them; between two, anything else may *)
(* happen.  A question to the provider may not arrive, or be obeyed and    *)
(* its answer lost, and a handler may die; callbacks overtake one another  *)
(* and get lost.  The provider is the one in tools/waha-stub, which stands *)
(* in for WAHA, and may besides drop a connection or forget a session.     *)
(*                                                                         *)
(* lastError, pushName and the times of the row are left out: nothing      *)
(* reads them.  The pause and the pacing slot are in module Connection.    *)
(*                                                                         *)
(* A definition that stands just before the one it resembles, and that     *)
(* nothing uses, is a mistake that one could have.                         *)
(***************************************************************************)
EXTENDS Tables

CONSTANTS
    Caller,         \* handlers of the dashboard's requests
    MaxQrAttempts,  \* MAXIMUM_QR_ATTEMPTS
    MaxCalls,       \* bound: requests other than looking at a connection
    MaxMishaps      \* bound: lost answers and callbacks, deaths, drops, wipes

ASSUME SessionsAssumption ==
    /\ MaxQrAttempts \in Nat \ {0}
    /\ MaxCalls \in Nat
    /\ MaxMishaps \in Nat

VARIABLES
    remote,         \* the provider's sessions: None where it has none
    callbacks,      \* session.status callbacks on their way, the inbox included
    call,           \* what each caller is doing
    calls, mishaps  \* how often the bounded things happened

sessionVars == <<remote, callbacks, call, calls, mishaps>>

Operation == {"create", "get", "start", "stop", "logout", "delete"}

AtProvider == {"asking", "stopping first", "starting again", "recreating"}
Stage == AtProvider \cup {"counting notifications", "rereading", "recording", "removing"}

(* Besides its state, whether the code it has now is on somebody's screen.  *)
RemoteSession ==
    [status : Status, account : Account \cup {None}, attempt : 0 .. MaxQrAttempts,
     shown : BOOLEAN]
Callback      == [session : Session, status : Status, account : Account \cup {None}]

(* A call remembers the record it read or is to write, and for a deletion   *)
(* whether notifications were there when it arrived, which no step of it    *)
(* reads.                                                                   *)
Call == [op : Operation, session : Session, stage : Stage, seen : Row \cup {None}, old : BOOLEAN]

SessionsInit ==
    /\ remote = [s \in Session |-> None]
    /\ callbacks = {}
    /\ call = [h \in Caller |-> None]
    /\ calls = 0
    /\ mishaps = 0

Busy(h, stage) == call[h] # None /\ call[h].stage = stage

Begin(h, op, s, stage, seen) ==
    /\ call[h] = None
    /\ call' = [call EXCEPT ![h] =
           [op |-> op, session |-> s, stage |-> stage, seen |-> seen,
            old |-> op = "delete" /\ History(s)]]

Proceed(h, stage, seen) == call' = [call EXCEPT ![h].stage = stage, ![h].seen = seen]

Finish(h) == call' = [call EXCEPT ![h] = None]

-----------------------------------------------------------------------------
(* The provider's session store, and its routes.                           *)

Started(r) ==
    IF r.account # None
    THEN [r EXCEPT !.status = "WORKING"]
    ELSE [r EXCEPT !.status = "SCAN_QR_CODE", !.attempt = 1, !.shown = FALSE]

NextCodeOnceMore(r) ==
    IF r.attempt > MaxQrAttempts
    THEN [r EXCEPT !.status = "FAILED", !.shown = FALSE]
    ELSE [r EXCEPT !.attempt = @ + 1, !.shown = FALSE]

NextCode(r) ==
    IF r.attempt >= MaxQrAttempts
    THEN [r EXCEPT !.status = "FAILED", !.shown = FALSE]
    ELSE [r EXCEPT !.attempt = @ + 1, !.shown = FALSE]

Scanned(r, a) == [r EXCEPT !.status = "WORKING", !.account = a, !.shown = FALSE]

NewRemote == [status |-> "STOPPED", account |-> None, attempt |-> 0, shown |-> FALSE]

LoggedOut(r) == NewRemote

(* The session is r from now on, and its webhook is told; who is paired is  *)
(* only said when a scan completes.                                         *)
Announce(s, r, a) ==
    /\ remote' = [remote EXCEPT ![s] = r]
    /\ callbacks' = callbacks \cup {[session |-> s, status |-> r.status, account |-> a]}

Unmoved == UNCHANGED <<remote, callbacks>>

(* POST /api/sessions refuses a name that is taken.                        *)
RouteCreate(s) ==
    IF remote[s] = None THEN Announce(s, Started(NewRemote), None) ELSE Unmoved

(* POST start answers a session whose codes ran out, and changes nothing.   *)
RouteStart(s) ==
    IF remote[s] = None THEN Unmoved
    ELSE Announce(s, IF remote[s].status = "FAILED" THEN remote[s] ELSE Started(remote[s]), None)

RouteStop(s) ==
    IF remote[s] = None THEN Unmoved
    ELSE Announce(s, [remote[s] EXCEPT !.status = "STOPPED", !.shown = FALSE], None)

RouteLogout(s) ==
    IF remote[s] = None THEN Unmoved ELSE Announce(s, LoggedOut(remote[s]), None)

(* DELETE says nothing, to the webhook either.                             *)
RouteDelete(s) == remote' = [remote EXCEPT ![s] = None] /\ UNCHANGED callbacks

(* What the question a caller has on its way does at the provider.         *)
Effect(h) ==
    LET s     == call[h].session
        op    == call[h].op
        stage == call[h].stage
    IN  CASE stage = "recreating"                    -> RouteCreate(s)
          [] stage = "stopping first"                -> RouteStop(s)
          [] stage = "starting again"                -> RouteStart(s)
          [] stage = "asking" /\ op = "create"       -> RouteCreate(s)
          [] stage = "asking" /\ op = "start"        -> RouteStart(s)
          [] stage = "asking" /\ op = "stop"         -> RouteStop(s)
          [] stage = "asking" /\ op = "logout"       -> RouteLogout(s)
          [] stage = "asking" /\ op = "delete"       -> RouteDelete(s)
          [] stage = "asking" /\ op = "get"          -> Unmoved

Scannable(s) == remote[s] # None /\ remote[s].status = "SCAN_QR_CODE"

(* getQrCode, once it has refreshed the record as get does: the provider is *)
(* only asked where the record says there is a code.                        *)
ShowCode(s) ==
    /\ Listed(s) /\ row[s].status = "SCAN_QR_CODE"
    /\ Scannable(s)
    /\ remote' = [remote EXCEPT ![s].shown = TRUE]
    /\ UNCHANGED <<tables, callbacks, call, calls, mishaps>>

(* A person scans the code on the screen; the code expires; the phone loses *)
(* the connection; the provider loses its volume.                           *)
Scan(s) ==
    /\ Scannable(s) /\ remote[s].shown
    /\ \E a \in Account : Announce(s, Scanned(remote[s], a), a)
    /\ UNCHANGED <<tables, call, calls, mishaps>>

ExpireCode(s) ==
    /\ Scannable(s)
    /\ Announce(s, NextCode(remote[s]), None)
    /\ UNCHANGED <<tables, call, calls, mishaps>>

Mishap == mishaps < MaxMishaps /\ mishaps' = mishaps + 1

Drop(s) ==
    /\ remote[s] # None /\ remote[s].status = "WORKING"
    /\ Mishap
    /\ Announce(s, [remote[s] EXCEPT !.status = "FAILED"], remote[s].account)
    /\ UNCHANGED <<tables, call, calls>>

Forget(s) ==
    /\ remote[s] # None
    /\ Mishap
    /\ remote' = [remote EXCEPT ![s] = None]
    /\ UNCHANGED <<tables, callbacks, call, calls>>

-----------------------------------------------------------------------------
(* The dashboard's requests.                                               *)

View(r) == [status |-> r.status, account |-> r.account]

(* create: the row comes first, and its number is the provider's name.     *)
Insert(h) ==
    /\ created < MaxSessions
    /\ calls < MaxCalls /\ calls' = calls + 1
    /\ created' = created + 1
    /\ row' = [row EXCEPT ![created + 1] = [status |-> "STOPPED", account |-> None]]
    /\ Begin(h, "create", created + 1, "asking", None)
    /\ UNCHANGED <<notification, job, key, pin, remote, callbacks, mishaps>>

(* get: the page asks again and again, for the record or for the code.     *)
Look(h, s) ==
    /\ Listed(s)
    /\ Begin(h, "get", s, "asking", row[s])
    /\ UNCHANGED <<tables, remote, callbacks, calls, mishaps>>

(* start, stop, logout and delete begin with getOrFail.                    *)
Request(h, op, s, stage, seen) ==
    /\ Listed(s)
    /\ calls < MaxCalls /\ calls' = calls + 1
    /\ Begin(h, op, s, stage, seen)
    /\ UNCHANGED <<tables, remote, callbacks, mishaps>>

Start(h, s)  == Request(h, "start", s, "asking", None)
Stop(h, s)   == Request(h, "stop", s, "asking", None)
LogOut(h, s) == Request(h, "logout", s, "asking", row[s])
Delete(h, s) == Request(h, "delete", s, "counting notifications", None)

CountLate(h) ==
    /\ Busy(h, "counting notifications")
    /\ Proceed(h, "asking", None)
    /\ UNCHANGED <<tables, remote, callbacks, calls, mishaps>>

CountNotifications(h) ==
    /\ Busy(h, "counting notifications")
    /\ IF History(call[h].session) THEN Finish(h) ELSE Proceed(h, "asking", None)
    /\ UNCHANGED <<tables, remote, callbacks, calls, mishaps>>

(* A step that puts the question and hears the answer.                     *)
Asking(h, op) ==
    /\ Busy(h, "asking") /\ call[h].op = op
    /\ Effect(h)
    /\ UNCHANGED <<tables, calls, mishaps>>

AskToCreate(h) ==
    /\ Asking(h, "create")
    /\ LET s == call[h].session
       IN  IF remote[s] = None
           THEN Proceed(h, "recording", View(remote'[s]))
           ELSE Proceed(h, "removing", None)

(* refreshStatus: a session the provider no longer has is recorded STOPPED, *)
(* unless the record already said so.                                       *)
Forgotten(seen) == [status |-> "STOPPED", account |-> seen.account]

RefreshKnownOnly(h, r, seen) ==
    IF r = None THEN Finish(h) ELSE Proceed(h, "recording", View(r))

Refresh(h, r, seen) ==
    IF r = None /\ seen.status = "STOPPED"
    THEN Finish(h)
    ELSE Proceed(h, "recording", IF r = None THEN Forgotten(seen) ELSE View(r))

AskForStatus(h) ==
    /\ Asking(h, "get")
    /\ Refresh(h, remote[call[h].session], call[h].seen)

(* recordAndReturn follows, with the status that was answered.             *)
Answered(h) ==
    Proceed(h, "rereading", [status |-> remote'[call[h].session].status, account |-> None])

(* startSession stops a session whose codes ran out before it starts it     *)
(* again, and start recreates one the provider has forgotten.               *)
AskToStart(h) ==
    /\ Asking(h, "start")
    /\ LET s == call[h].session
       IN  IF remote[s] = None THEN Proceed(h, "recreating", None)
           ELSE IF remote[s].status = "FAILED" THEN Proceed(h, "stopping first", None)
           ELSE Answered(h)

StopFirst(h) ==
    /\ Busy(h, "stopping first")
    /\ Effect(h)
    /\ Proceed(h, IF remote[call[h].session] = None THEN "recreating" ELSE "starting again", None)
    /\ UNCHANGED <<tables, calls, mishaps>>

StartAgain(h) ==
    /\ Busy(h, "starting again")
    /\ Effect(h)
    /\ IF remote[call[h].session] = None THEN Proceed(h, "recreating", None) ELSE Answered(h)
    /\ UNCHANGED <<tables, calls, mishaps>>

RecreateAtProvider(h) ==
    /\ Busy(h, "recreating")
    /\ Effect(h)
    /\ LET s == call[h].session
       IN  IF remote[s] = None THEN Proceed(h, "recording", View(remote'[s])) ELSE Finish(h)
    /\ UNCHANGED <<tables, calls, mishaps>>

AskToStop(h) ==
    /\ Asking(h, "stop")
    /\ IF remote[call[h].session] = None THEN Finish(h) ELSE Answered(h)

AskToLogOut(h) ==
    /\ Asking(h, "logout")
    /\ IF remote[call[h].session] = None
       THEN Proceed(h, "recording", Forgotten(call[h].seen))
       ELSE Answered(h)

AskToDelete(h) ==
    /\ Asking(h, "delete")
    /\ Proceed(h, "removing", None)

RereadListed(h) ==
    /\ Busy(h, "rereading")
    /\ LET s == call[h].session
       IN  /\ Listed(s)
           /\ Proceed(h, "recording", [call[h].seen EXCEPT !.account = row[s].account])
    /\ UNCHANGED <<tables, remote, callbacks, calls, mishaps>>

(* recordAndReturn reads the account the row shows, to write it back.      *)
Reread(h) ==
    /\ Busy(h, "rereading")
    /\ LET s == call[h].session
       IN  IF Listed(s)
           THEN Proceed(h, "recording", [call[h].seen EXCEPT !.account = row[s].account])
           ELSE Finish(h)
    /\ UNCHANGED <<tables, remote, callbacks, calls, mishaps>>

(* recordStatus: whatever the row says by now.                             *)
Written(s, r) == row' = [row EXCEPT ![s] = IF Listed(s) THEN r ELSE None]

Record(h) ==
    /\ Busy(h, "recording")
    /\ Written(call[h].session, call[h].seen)
    /\ Finish(h)
    /\ UNCHANGED <<created, notification, job, key, pin, remote, callbacks, calls, mishaps>>

(* The row goes, of a deletion or of a creation the provider refused,       *)
(* unless a notification refers to it: the foreign key restricts, and a     *)
(* reference not yet committed is waited for.                               *)
RemoveRow(h) ==
    /\ Busy(h, "removing")
    /\ LET s == call[h].session
       IN  /\ ~Pinned(s)
           /\ row' = [row EXCEPT ![s] = IF History(s) THEN @ ELSE None]
    /\ Finish(h)
    /\ UNCHANGED <<created, notification, job, key, pin, remote, callbacks, calls, mishaps>>

GiveUpOnDelete(h) ==
    IF call[h].op \in {"create", "delete"} THEN Proceed(h, "removing", None) ELSE Finish(h)

(* The provider does not answer, whether it obeyed or not.                 *)
GiveUp(h) == IF call[h].op = "create" THEN Proceed(h, "removing", None) ELSE Finish(h)

Unanswered(h) ==
    /\ call[h] # None /\ call[h].stage \in AtProvider
    /\ Mishap
    /\ Effect(h) \/ Unmoved
    /\ GiveUp(h)
    /\ UNCHANGED <<tables, calls>>

Die(h) ==
    /\ call[h] # None
    /\ Mishap
    /\ Finish(h)
    /\ UNCHANGED <<tables, remote, callbacks, calls>>

(* applySessionStatus; a callback for a row that has gone finds none.      *)
ApplySessionStatus(c) ==
    /\ callbacks' = callbacks \ {c}
    /\ Written(c.session, [status |-> c.status, account |-> c.account])
    /\ UNCHANGED <<created, notification, job, key, pin, remote, call, calls, mishaps>>

LoseCallback(c) ==
    /\ Mishap
    /\ callbacks' = callbacks \ {c}
    /\ UNCHANGED <<tables, remote, call, calls>>

-----------------------------------------------------------------------------
(* What a handler does by itself, once it has begun.                       *)
CallStep(h) ==
    \/ CountNotifications(h) \/ AskToCreate(h) \/ AskForStatus(h) \/ AskToStart(h)
    \/ StopFirst(h) \/ StartAgain(h) \/ RecreateAtProvider(h) \/ AskToStop(h)
    \/ AskToLogOut(h) \/ AskToDelete(h) \/ Reread(h) \/ Record(h) \/ RemoveRow(h)

SessionsNext ==
    \/ \E h \in Caller :
          \/ Insert(h) \/ CallStep(h) \/ Unanswered(h) \/ Die(h)
          \/ \E s \in Session :
                Look(h, s) \/ Start(h, s) \/ Stop(h, s) \/ LogOut(h, s) \/ Delete(h, s)
    \/ \E s \in Session : ShowCode(s) \/ Scan(s) \/ ExpireCode(s) \/ Drop(s) \/ Forget(s)
    \/ \E c \in callbacks : ApplySessionStatus(c) \/ LoseCallback(c)

SessionsTypeOK ==
    /\ remote \in [Session -> RemoteSession \cup {None}]
    /\ callbacks \subseteq Callback
    /\ call \in [Caller -> Call \cup {None}]
    /\ calls \in 0 .. MaxCalls
    /\ mishaps \in 0 .. MaxMishaps
=============================================================================
