------------------------------- MODULE Lifecycle -------------------------------
(***************************************************************************)
(* Connections come and go while notifications are queued against them:    *)
(* modules Sessions and Creation over the rows they share.                 *)
(***************************************************************************)
EXTENDS Sessions, Creation

CONSTANTS
    MaxOperations,  \* bound: calls, other than looks, and requests together
    MaxBusy,        \* bound: handlers at work at a time
    MaxPending      \* bound: callbacks on their way

ASSUME LifecycleAssumption == {MaxOperations, MaxBusy, MaxPending} \subseteq Nat

lifecycleVars == <<tables, sessionVars, creationVars>>

Init == TablesInit /\ SessionsInit /\ CreationInit

WithinBounds ==
    /\ calls + requests <= MaxOperations
    /\ Cardinality({h \in Caller : call[h] # None}) + Cardinality({c \in Client : draft[c] # None})
          <= MaxBusy
    /\ Cardinality(callbacks) <= MaxPending

Next ==
    /\ \/ SessionsNext /\ UNCHANGED creationVars
       \/ CreationNext /\ UNCHANGED sessionVars
    /\ WithinBounds'

Spec == Init /\ [][Next]_lifecycleVars

(* Every statement, question and transaction ends; the queue hands out the *)
(* callbacks it has.  The page of a connection asks for its status for as  *)
(* long as it is open, and the number of callers is the model's own limit, *)
(* so that asking gets its turn.                                           *)
Fairness ==
    /\ \A h \in Caller :
          WF_lifecycleVars(CallStep(h) /\ UNCHANGED creationVars /\ WithinBounds')
    /\ \A c \in Client : WF_lifecycleVars(RequestStep(c) /\ UNCHANGED sessionVars)
    /\ WF_lifecycleVars((\E c \in callbacks : ApplySessionStatus(c)) /\ UNCHANGED creationVars)
    /\ \A s \in Session :
          SF_lifecycleVars(
              (\E h \in Caller : Look(h, s)) /\ UNCHANGED creationVars /\ WithinBounds')

FairSpec == Spec /\ Fairness

LifecycleTypeOK == TablesTypeOK /\ SessionsTypeOK /\ CreationTypeOK

-----------------------------------------------------------------------------
(* A session the provider has and the platform has not, or is about to     *)
(* have no longer.                                                         *)
Doomed(s) == ~Listed(s) \/ \E h \in Caller : Busy(h, "removing") /\ call[h].session = s
Orphan(s) == remote[s] # None /\ Doomed(s)

(* "The other order would leave a paired WhatsApp account running against   *)
(* a session the platform no longer knows about": no deletion, and nothing  *)
(* else, makes an orphan, but for a step that asks the provider to create   *)
(* a session: one whose answer is lost or that two calls ask for, or of a   *)
(* start that a deletion overtakes.                                         *)
OnlyCreationOrphans ==
    [][\A s \in Session : ~Orphan(s) /\ Orphan(s)' =>
          \E h \in Caller :
              /\ call[h] # None /\ call[h].session = s
              /\ call[h].stage = "recreating" \/ call[h].op = "create"
      ]_lifecycleVars

(* "That is decided before the provider is touched": a deletion that came   *)
(* after a notification was queued against the connection goes no further   *)
(* than to count it.                                                        *)
DeletionSparesHistory ==
    \A h \in Caller :
        call[h] # None /\ call[h].old => call[h].stage = "counting notifications"

(* A record of an earlier answer may overwrite a later one, and callbacks   *)
(* overtake one another; but once the provider's session is left in peace,  *)
(* a row that is looked at comes to say what it says, for good.             *)
Agrees(s) ==
    IF remote[s] = None THEN row[s].status = "STOPPED" ELSE row[s] = View(remote[s])

RowsConverge == <>[](\A s \in Session : Listed(s) => Agrees(s))

(* No call and no request waits for ever, on one another or on the provider.*)
CallsEnd ==
    /\ \A h \in Caller : []<>(call[h] = None)
    /\ \A c \in Client : []<>(draft[c] = None)
=============================================================================
