------------------------------- MODULE Creation -------------------------------
(***************************************************************************)
(* POST /notifications and its batch form: choosing a connection, claiming *)
(* the idempotency key, and writing the notifications, their first events  *)
(* and their dispatch jobs, all in one transaction.                        *)
(*                                                                         *)
(* A client's handler is in one transaction at a time.  What it has        *)
(* written is in its draft until it commits, and nobody else sees it; a    *)
(* second claim of a key waits for the first to end.  The transaction may  *)
(* fail or its process die anywhere before the commit.                     *)
(*                                                                         *)
(* A payload is also its fingerprint: the canonical form tells two         *)
(* payloads apart exactly when they differ.  Recipients and texts matter   *)
(* no further, nor does who maps a key to an application: the keys, like   *)
(* the connections, are those of one.                                      *)
(*                                                                         *)
(* A definition that stands just before the one it resembles, and that     *)
(* nothing uses, is a mistake that one could have.                         *)
(***************************************************************************)
EXTENDS Tables, FiniteSetsExt

VARIABLES
    draft,          \* each client's request, and its transaction's private writes
    requests        \* how many were made

creationVars == <<draft, requests>>

InTransaction == {"resolving", "claiming", "writing", "completing", "committing"}
Draft ==
    [payload : Payload, key : Key \cup {None}, number : 1 .. MaxRequests,
     stage : InTransaction \cup {"replayed", "refused"},
     session : Session \cup {None},
     written : 0 .. 2,
     claim : KeyState \cup {None},
     result : SUBSET Identifier]

CreationInit ==
    /\ draft = [c \in Client |-> None]
    /\ requests = 0

In(c, stage) == draft[c] # None /\ draft[c].stage = stage

(* The answer is given and the transaction over, with nothing written.     *)
Refuse(c) ==
    /\ draft' = [draft EXCEPT ![c].stage = "refused", ![c].written = 0, ![c].claim = None]
    /\ pin' = [pin EXCEPT ![c] = None]

Advance(c, stage) == draft' = [draft EXCEPT ![c].stage = stage]

OwnFirst(c) == {<<draft[c].number, 1>>}

Own(c) == {draft[c].number} \X (1 .. draft[c].payload.size)

-----------------------------------------------------------------------------
(* A request for an instant that has gone by is refused before anything    *)
(* else happens: such a one never gets here.                               *)
Post(c, p, k) ==
    /\ draft[c] = None
    /\ requests < MaxRequests /\ requests' = requests + 1
    /\ draft' = [draft EXCEPT ![c] =
           [payload |-> p, key |-> k, number |-> requests + 1, stage |-> "resolving",
            session |-> None, written |-> 0, claim |-> None, result |-> {}]]
    /\ UNCHANGED tables

CanSessionSend(s)      == row[s].status = "WORKING"
IsSessionConnecting(s) == row[s].status \in {"STARTING", "SCAN_QR_CODE"}

ResolvedConnected(requested) ==
    LET connected == {s \in Session : Listed(s) /\ CanSessionSend(s)}
    IN  IF requested = None /\ connected # {} THEN Min(connected) ELSE None

(* The connection asked for, or else the oldest that can send, the newest   *)
(* being paired, or the newest.                                             *)
Resolved(requested) ==
    LET sessions   == {s \in Session : Listed(s)}
        connected  == {s \in sessions : CanSessionSend(s)}
        connecting == {s \in sessions : IsSessionConnecting(s)}
    IN  IF requested # None THEN IF requested \in sessions THEN requested ELSE None
        ELSE IF connected # {} THEN Min(connected)
        ELSE IF connecting # {} THEN Max(connecting)
        ELSE IF sessions # {} THEN Max(sessions)
        ELSE None

ResolveSession(c) ==
    /\ In(c, "resolving")
    /\ LET s == Resolved(draft[c].payload.session)
       IN  IF s = None
           THEN Refuse(c)
           ELSE /\ draft' = [draft EXCEPT ![c].stage = "claiming", ![c].session = s]
                /\ UNCHANGED pin
    /\ UNCHANGED <<row, created, notification, job, key, requests>>

NeverAwaited(c) == FALSE

(* ON CONFLICT DO NOTHING waits for a transaction that inserted the key.   *)
Awaited(c) ==
    \E d \in Client \ {c} :
        draft[d] # None /\ draft[d].claim # None /\ draft[d].key = draft[c].key
        /\ draft[d].stage \in InTransaction

(* A key is claimed, or decides what an existing claim means; whatever it   *)
(* recorded must still be there to be read back.                            *)
ClaimIdempotencyKey(c) ==
    /\ In(c, "claiming")
    /\ LET k == draft[c].key
       IN  \/ /\ k = None
              /\ Advance(c, "writing")
              /\ UNCHANGED pin
           \/ /\ k # None /\ ~Awaited(c) /\ key[k] = None
              /\ draft' = [draft EXCEPT ![c].stage = "writing", ![c].claim = "IN_FLIGHT"]
              /\ UNCHANGED pin
           \/ /\ k # None /\ ~Awaited(c) /\ key[k] # None
              /\ IF /\ key[k].payload = draft[c].payload
                    /\ key[k].state = "COMPLETED"
                    /\ key[k].resource \subseteq {n.id : n \in notification}
                 THEN /\ draft' = [draft EXCEPT ![c].stage = "replayed",
                                                ![c].result = key[k].resource]
                      /\ UNCHANGED pin
                 ELSE Refuse(c)
    /\ UNCHANGED <<row, created, notification, job, key, requests>>

(* One notification, its first event and its job.  The foreign key refuses  *)
(* a connection that has gone meanwhile, and holds on to one that has not.  *)
WriteNotification(c) ==
    /\ In(c, "writing")
    /\ IF Listed(draft[c].session)
       THEN /\ draft' = [draft EXCEPT
                   ![c].written = @ + 1,
                   ![c].stage = IF draft[c].written + 1 < draft[c].payload.size THEN "writing"
                                ELSE IF draft[c].claim = None THEN "committing"
                                ELSE "completing"]
            /\ pin' = [pin EXCEPT ![c] = draft[c].session]
       ELSE Refuse(c)
    /\ UNCHANGED <<row, created, notification, job, key, requests>>

(* The key records what it made.                                           *)
CompleteNothing(c) ==
    /\ In(c, "completing")
    /\ Advance(c, "committing")
    /\ UNCHANGED <<tables, requests>>

Complete(c) ==
    /\ In(c, "completing")
    /\ draft' = [draft EXCEPT ![c].stage = "committing", ![c].claim = "COMPLETED"]
    /\ UNCHANGED <<tables, requests>>

Commit(c) ==
    /\ In(c, "committing")
    /\ LET d == draft[c]
       IN  /\ notification' = notification \cup
                  [id : {d.number} \X (1 .. d.written), session : {d.session}, key : {d.key},
                   payload : {d.payload}]
           /\ job' = job \cup {d.number} \X (1 .. d.written)
           /\ key' = IF d.claim = None THEN key
                     ELSE [key EXCEPT ![d.key] =
                         [payload |-> d.payload, state |-> d.claim,
                          resource |-> IF d.claim = "COMPLETED" THEN Own(c) ELSE {}]]
    /\ draft' = [draft EXCEPT ![c] = None]
    /\ pin' = [pin EXCEPT ![c] = None]
    /\ UNCHANGED <<row, created, requests>>

(* The transaction fails or its process dies, and the key is free again.   *)
RollBack(c) ==
    /\ draft[c] # None /\ draft[c].stage \in InTransaction
    /\ draft' = [draft EXCEPT ![c] = None]
    /\ pin' = [pin EXCEPT ![c] = None]
    /\ UNCHANGED <<row, created, notification, job, key, requests>>

(* An answer that says nothing new reaches the client, or is lost.         *)
Respond(c) ==
    /\ draft[c] # None /\ draft[c].stage \notin InTransaction
    /\ draft' = [draft EXCEPT ![c] = None]
    /\ UNCHANGED <<tables, requests>>

RequestStep(c) ==
    \/ ResolveSession(c) \/ ClaimIdempotencyKey(c) \/ WriteNotification(c)
    \/ Complete(c) \/ Commit(c) \/ Respond(c)

CreationNext ==
    \E c \in Client :
       \/ \E p \in Payload, k \in Key \cup {None} : Post(c, p, k)
       \/ RequestStep(c) \/ RollBack(c)

CreationTypeOK ==
    /\ draft \in [Client -> Draft \cup {None}]
    /\ requests \in 0 .. MaxRequests

-----------------------------------------------------------------------------
(* "Claiming the idempotency key, writing the notification, recording the  *)
(* first timeline event, enqueuing the job and completing the key all      *)
(* commit or roll back together": a request's notifications are all there, *)
(* each with its job, and under its key as what the key made; nothing else *)
(* has a job, and no key is left in flight.                                *)
Made(number) == {n \in notification : n.id[1] = number}

AllOrNothing ==
    /\ job = {n.id : n \in notification}
    /\ \A n \in notification :
          /\ {m.id : m \in Made(n.id[1])} = {n.id[1]} \X (1 .. n.payload.size)
          /\ n.key # None => key[n.key] # None /\ n.id \in key[n.key].resource
    /\ \A k \in Key : key[k] # None =>
          key[k].state = "COMPLETED" /\ key[k].resource \subseteq job

(* "a retried batch replays every notification it created": the answer to  *)
(* a repeated request is everything made under its key, by one request     *)
(* that asked for the same.                                                *)
ReplayIsWhole ==
    \A c \in Client : In(c, "replayed") =>
        /\ draft[c].result = {n.id : n \in {m \in notification : m.key = draft[c].key}}
        /\ \E number \in 1 .. MaxRequests :
              /\ draft[c].result = {number} \X (1 .. draft[c].payload.size)
              /\ \A n \in Made(number) : n.payload = draft[c].payload

(* resolveSession runs before the key is looked at; still a request whose  *)
(* key is completed is never turned away for want of a connection, because *)
(* the connection its notifications are bound to cannot be deleted.        *)
Repeats(c) ==
    /\ draft[c].key # None /\ key[draft[c].key] # None
    /\ key[draft[c].key].payload = draft[c].payload

ReplayFindsConnection ==
    [][\A c \in Client :
          In(c, "resolving") /\ Repeats(c) => ~(draft'[c] # None /\ draft'[c].stage = "refused")
      ]_<<tables, creationVars>>

Outcome == [k \in Key |-> {n.id : n \in {m \in notification : m.key = k}}]

Contract == INSTANCE Idempotency WITH outcome <- Outcome

(* Under a key notifications appear in one step, once.                     *)
KeepsContract == Contract!ContractSpec
=============================================================================
