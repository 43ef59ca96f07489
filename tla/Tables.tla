-------------------------------- MODULE Tables --------------------------------
(***************************************************************************)
(* The rows of one application that the API's handlers share: the          *)
(* connections in whatsapp_sessions, the committed notifications with      *)
(* their dispatch jobs, and the idempotency keys.                          *)
(*                                                                         *)
(* Connections are numbered in the order they are created in; a number is  *)
(* the row's id and the provider's name for it.  What an open transaction  *)
(* has written is kept by the transaction (module Creation) until it       *)
(* commits; of what it locks, only the connection its notification refers  *)
(* to matters to anyone else.                                              *)
(***************************************************************************)
EXTENDS Integers

CONSTANTS
    MaxSessions,    \* bound: connections ever created
    Account,        \* WhatsApp accounts that may be paired
    Key,            \* idempotency keys
    Client,         \* handlers of POST /notifications, over every API process
    MaxRequests,    \* bound: creation requests ever made
    Payload,        \* what the creation requests ask for
    None            \* null

Session == 1 .. MaxSessions
Status  == {"STOPPED", "STARTING", "SCAN_QR_CODE", "WORKING", "FAILED"}
Row     == [status : Status, account : Account \cup {None}]

(* How many recipients, and through which connection or None for the choice *)
(* to be made.                                                              *)
AnyPayload == [size : {1, 2}, session : Session \cup {None}]

(* A notification is known by the request that made it, its correlation id, *)
(* and its place among that request's recipients.                           *)
Identifier == (1 .. MaxRequests) \X {1, 2}

Notification ==
    [id : Identifier, session : Session, key : Key \cup {None}, payload : Payload]

KeyState  == {"IN_FLIGHT", "COMPLETED"}
KeyRecord == [payload : Payload, state : KeyState, resource : SUBSET Identifier]

ASSUME TablesAssumption ==
    /\ MaxSessions \in Nat
    /\ MaxRequests \in Nat
    /\ Payload \subseteq AnyPayload
    /\ None \notin Row \cup KeyRecord \cup KeyState \cup Account \cup Key \cup Session

VARIABLES
    row,            \* whatsapp_sessions: None where there is no row
    created,        \* how many connections were ever created
    notification,   \* notifications
    job,            \* the notifications a dispatch job was enqueued for
    key,            \* idempotency_keys: None where there is no row
    pin             \* the connection a client's open transaction holds FOR KEY SHARE

tables == <<row, created, notification, job, key, pin>>

TablesInit ==
    /\ row = [s \in Session |-> None]
    /\ created = 0
    /\ notification = {}
    /\ job = {}
    /\ key = [k \in Key |-> None]
    /\ pin = [c \in Client |-> None]

Listed(s)  == row[s] # None

(* existsForSession: a committed notification was queued against it.       *)
History(s) == \E n \in notification : n.session = s

Pinned(s)  == \E c \in Client : pin[c] = s

TablesTypeOK ==
    /\ row \in [Session -> Row \cup {None}]
    /\ created \in 0 .. MaxSessions
    /\ \A s \in Session : s > created => row[s] = None
    /\ notification \subseteq Notification
    /\ job \subseteq Identifier
    /\ key \in [Key -> KeyRecord \cup {None}]
    /\ pin \in [Client -> Session \cup {None}]
=============================================================================
