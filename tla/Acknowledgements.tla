--------------------------- MODULE Acknowledgements ---------------------------
(***************************************************************************)
(* The webhook inbox: delivery receipts that the provider calls back with, *)
(* recorded by IngestWebhookService, and applied to the notification they  *)
(* concern by the workers that run ProcessWebhookService.process.          *)
(*                                                                         *)
(* One action is one database round trip or one transaction.  Two jobs of  *)
(* two receipts for one notification run side by side, and so do two runs  *)
(* of one job once the first outlived its expiry.  What a receipt does to  *)
(* the connection rather than to the notification is not in this module.   *)
(*                                                                         *)
(* A definition that stands just before the one it resembles, and that     *)
(* nothing uses, is a mistake that one could have.                         *)
(***************************************************************************)
EXTENDS Integers, FiniteSets

CONSTANTS
    Notifications,
    Receipts,       \* provider event identifiers
    Workers,        \* handler slots, over every worker process
    RetryLimit,     \* retryLimit of the webhook.process queue
    GraceRetries,   \* the first retry whose backoff outlasts the unmatched grace
    FaultBudget,    \* bound: crashes, errors and stalls in a behaviour
    None

ASSUME AcknowledgementsAssumption ==
    /\ RetryLimit \in Nat /\ GraceRetries \in 0 .. RetryLimit
    /\ FaultBudget \in Nat
    /\ None \notin Notifications /\ None \notin Receipts /\ None \notin Workers

VARIABLES
    \* the row in notifications
    status,     \* PROCESSING stands for every status before the send is recorded
    stored,     \* provider_acknowledgement
    stamps,     \* which of delivered_at, read_at and failed_at are set
    told,       \* its notification.acknowledged events: receipt, from and to
    \* the row in webhook_deliveries
    inbox,      \* "absent", "pending" (processed_at is null) or the outcome
    level,      \* the acknowledgement in the payload
    about,      \* the notification it concerns; None for any other message
    graceOver,  \* it was received longer ago than the unmatched grace
    \* its job in webhook.process
    jobState, retries, runner,
    \* the workers, each between two round trips of one process() call
    pc, job, seen, result,
    faults

row     == <<status, stored, stamps, told>>
receipt == <<inbox, level, about, graceOver>>
jobs    == <<jobState, retries, runner>>
worker  == <<pc, job, seen, result>>
vars    == <<row, receipt, jobs, worker, faults>>

error  == -1
device == 2
read   == 3
Levels == -1 .. 4       \* ERROR, PENDING, SERVER, DEVICE, READ, PLAYED

Statuses == {"PROCESSING", "SENT", "DELIVERED", "FAILED"}
Results  == {"APPLIED", "IGNORED", "UNMATCHED"}
Stages   == {"idle", "claiming", "reading", "recording", "marking", "done"}
Unread   == [status |-> "PROCESSING", stored |-> 0]

(* Every variable keeps to the values its column, queue state or handler    *)
(* stage can have.                                                          *)
TypeOK ==
    /\ status \in [Notifications -> Statuses]
    /\ stored \in [Notifications -> Levels]
    /\ stamps \in [Notifications -> SUBSET {"delivered", "read", "failed"}]
    /\ told \in [Notifications -> SUBSET [receipt : Receipts, from : Statuses, to : Statuses]]
    /\ inbox \in [Receipts -> {"absent", "pending"} \cup Results]
    /\ level \in [Receipts -> Levels]
    /\ about \in [Receipts -> Notifications \cup {None}]
    /\ graceOver \in [Receipts -> BOOLEAN]
    /\ jobState \in [Receipts -> {"none", "waiting", "active", "completed", "failed"}]
    /\ retries \in [Receipts -> 0 .. RetryLimit]
    /\ runner \in [Receipts -> Workers \cup {None}]
    /\ pc \in [Workers -> Stages]
    /\ job \in [Workers -> Receipts \cup {None}]
    /\ seen \in [Workers -> [status : Statuses, stored : Levels]]
    /\ result \in [Workers -> Results \cup {None}]
    /\ faults \in 0 .. FaultBudget

Init ==
    /\ status = [n \in Notifications |-> "PROCESSING"]
    /\ stored = [n \in Notifications |-> 0]
    /\ stamps = [n \in Notifications |-> {}]
    /\ told = [n \in Notifications |-> {}]
    /\ inbox = [r \in Receipts |-> "absent"]
    /\ level = [r \in Receipts |-> 0]
    /\ about = [r \in Receipts |-> None]
    /\ graceOver = [r \in Receipts |-> FALSE]
    /\ jobState = [r \in Receipts |-> "none"]
    /\ retries = [r \in Receipts |-> 0]
    /\ runner = [r \in Receipts |-> None]
    /\ pc = [w \in Workers |-> "idle"]
    /\ job = [w \in Workers |-> None]
    /\ seen = [w \in Workers |-> Unread]
    /\ result = [w \in Workers |-> None]
    /\ faults = 0

-----------------------------------------------------------------------------
(* The dispatcher commits a send, provider message identifier included.    *)
(* Until it does, and it may never do, no receipt finds the notification.   *)
RecordSent(n) ==
    /\ status[n] = "PROCESSING"
    /\ status' = [status EXCEPT ![n] = "SENT"]
    /\ UNCHANGED <<stored, stamps, told, receipt, jobs, worker, faults>>

(* ingest: the delivery and its job commit together.  A callback repeated   *)
(* conflicts on the provider's event identifier and changes nothing.        *)
Ingest(r) ==
    /\ inbox[r] = "absent"
    /\ inbox' = [inbox EXCEPT ![r] = "pending"]
    /\ \E l \in Levels : level' = [level EXCEPT ![r] = l]
    /\ \E n \in Notifications \cup {None} : about' = [about EXCEPT ![r] = n]
    /\ jobState' = [jobState EXCEPT ![r] = "waiting"]
    /\ UNCHANGED <<row, graceOver, retries, runner, worker, faults>>

-----------------------------------------------------------------------------
(* The queue.                                                              *)

(* Backoff: a late retry starts only when the grace is over.                *)
FetchJob(w, r) ==
    /\ pc[w] = "idle" /\ jobState[r] = "waiting"
    /\ retries[r] >= GraceRetries /\ retries[r] > 0 => graceOver[r]
    /\ jobState' = [jobState EXCEPT ![r] = "active"]
    /\ runner' = [runner EXCEPT ![r] = w]
    /\ pc' = [pc EXCEPT ![w] = "claiming"]
    /\ job' = [job EXCEPT ![w] = r]
    /\ UNCHANGED <<row, receipt, retries, seen, result, faults>>

(* An active job that was not completed is retried while retries are left.  *)
GiveBackJobForGood(r) ==
    /\ runner' = [runner EXCEPT ![r] = None]
    /\ jobState' = [jobState EXCEPT ![r] = "failed"]
    /\ UNCHANGED retries
GiveBackJobOneMore(r) ==
    /\ runner' = [runner EXCEPT ![r] = None]
    /\ IF retries[r] <= RetryLimit
         THEN /\ jobState' = [jobState EXCEPT ![r] = "waiting"]
              /\ retries' = [retries EXCEPT ![r] = @ + 1]
         ELSE /\ jobState' = [jobState EXCEPT ![r] = "failed"]
              /\ UNCHANGED retries
GiveBackJob(r) ==
    /\ runner' = [runner EXCEPT ![r] = None]
    /\ IF retries[r] < RetryLimit
         THEN /\ jobState' = [jobState EXCEPT ![r] = "waiting"]
              /\ retries' = [retries EXCEPT ![r] = @ + 1]
         ELSE /\ jobState' = [jobState EXCEPT ![r] = "failed"]
              /\ UNCHANGED retries

LeaveHandler(w) ==
    /\ pc' = [pc EXCEPT ![w] = "idle"]
    /\ job' = [job EXCEPT ![w] = None]
    /\ seen' = [seen EXCEPT ![w] = Unread]
    /\ result' = [result EXCEPT ![w] = None]

(* The handler throws, and settleEach reports the job failed; that counts   *)
(* only while the job is still this handler's.                              *)
Throw(w) ==
    /\ IF runner[job[w]] = w THEN GiveBackJob(job[w]) ELSE UNCHANGED jobs
    /\ LeaveHandler(w)

CompleteJob(w) ==
    /\ pc[w] = "done"
    /\ IF runner[job[w]] = w
         THEN /\ jobState' = [jobState EXCEPT ![job[w]] = "completed"]
              /\ runner' = [runner EXCEPT ![job[w]] = None]
         ELSE UNCHANGED <<jobState, runner>>
    /\ LeaveHandler(w)
    /\ UNCHANGED <<row, receipt, retries, faults>>

-----------------------------------------------------------------------------
(* process().                                                              *)

Goto(w, stage) == pc' = [pc EXCEPT ![w] = stage]

Conclude(w, outcome) ==
    /\ result' = [result EXCEPT ![w] = outcome]
    /\ Goto(w, "marking")

(* claimForProcessing counts the attempt and refuses a delivery already     *)
(* resolved.  It keeps no second handler out of one that is not.            *)
ClaimOnce(w) ==
    /\ pc[w] = "claiming"
    /\ Goto(w, IF inbox[job[w]] = "pending" /\ retries[job[w]] = 0 THEN "reading" ELSE "done")
    /\ UNCHANGED <<row, receipt, jobs, job, seen, result, faults>>
ClaimForProcessing(w) ==
    /\ pc[w] = "claiming"
    /\ Goto(w, IF inbox[job[w]] = "pending" THEN "reading" ELSE "done")
    /\ UNCHANGED <<row, receipt, jobs, job, seen, result, faults>>

(* mergeAcknowledgements: a failure stays, otherwise the higher one wins.   *)
MergeByArrival(current, incoming) == incoming
Merge(current, incoming) ==
    IF error \in {current, incoming} THEN error
    ELSE IF current > incoming THEN current ELSE incoming

(* resolveStatus *)
ResolveStatus(current, merged) ==
    CASE current = "SENT" /\ merged = error   -> "FAILED"
      [] current = "SENT" /\ merged >= device -> "DELIVERED"
      [] OTHER                                -> current

(* applyAcknowledgement up to its write: findByProviderMessageId, and what  *)
(* the row it returned makes of the receipt.  reportUnmatched throws while  *)
(* the send may still be committing.                                        *)
ReadNotification(w) ==
    LET r == job[w]
        n == about[r]
    IN
    /\ pc[w] = "reading"
    /\ \/ /\ n = None
          /\ Conclude(w, "IGNORED")
          /\ UNCHANGED <<jobs, job, seen>>
       \/ /\ n # None /\ status[n] = "PROCESSING" /\ graceOver[r]
          /\ Conclude(w, "UNMATCHED")
          /\ UNCHANGED <<jobs, job, seen>>
       \/ /\ n # None /\ status[n] = "PROCESSING" /\ ~graceOver[r]
          /\ Throw(w)
       \/ /\ n # None /\ status[n] # "PROCESSING"
          /\ IF Merge(stored[n], level[r]) = stored[n]
               THEN Conclude(w, "IGNORED") /\ UNCHANGED seen
               ELSE /\ seen' = [seen EXCEPT ![w] = [status |-> status[n], stored |-> stored[n]]]
                    /\ Goto(w, "recording")
                    /\ UNCHANGED result
          /\ UNCHANGED <<jobs, job>>
    /\ UNCHANGED <<row, receipt, faults>>

(* The columns recordAcknowledgement sets beside the acknowledgement.       *)
Stamps(merged) ==
    {s \in {"delivered", "read", "failed"} :
        \/ s = "delivered" /\ merged >= device
        \/ s = "read" /\ merged >= read
        \/ s = "failed" /\ merged = error}

(* recordAcknowledgement: the row changes only if its status is the one     *)
(* that was read; the event is appended with it either way.                 *)
RecordUnseen(w) ==
    LET n == about[job[w]]
        merged == Merge(seen[w].stored, level[job[w]])
        next == ResolveStatus(seen[w].status, merged)
    IN
    /\ pc[w] = "recording"
    /\ status' = [status EXCEPT ![n] = next]
    /\ stored' = [stored EXCEPT ![n] = merged]
    /\ stamps' = [stamps EXCEPT ![n] = @ \cup Stamps(merged)]
    /\ told' = [told EXCEPT ![n] =
                   @ \cup {[receipt |-> job[w], from |-> seen[w].status, to |-> next]}]
    /\ Conclude(w, "APPLIED")
    /\ UNCHANGED <<receipt, jobs, job, seen, faults>>
RecordAcknowledgement(w) ==
    LET n == about[job[w]]
        merged == Merge(seen[w].stored, level[job[w]])
        next == ResolveStatus(seen[w].status, merged)
    IN
    /\ pc[w] = "recording"
    /\ IF status[n] = seen[w].status
         THEN /\ status' = [status EXCEPT ![n] = next]
              /\ stored' = [stored EXCEPT ![n] = merged]
              /\ stamps' = [stamps EXCEPT ![n] = @ \cup Stamps(merged)]
         ELSE UNCHANGED <<status, stored, stamps>>
    /\ told' = [told EXCEPT ![n] =
                   @ \cup {[receipt |-> job[w], from |-> seen[w].status, to |-> next]}]
    /\ Conclude(w, "APPLIED")
    /\ UNCHANGED <<receipt, jobs, job, seen, faults>>

(* markProcessed is a statement of its own, after the transaction above.    *)
MarkProcessed(w) ==
    /\ pc[w] = "marking"
    /\ inbox' = [inbox EXCEPT ![job[w]] = result[w]]
    /\ Goto(w, "done")
    /\ UNCHANGED <<row, level, about, graceOver, jobs, job, seen, result, faults>>

-----------------------------------------------------------------------------
(* Time and faults.                                                        *)

GracePasses(r) ==
    /\ inbox[r] # "absent" /\ ~graceOver[r]
    /\ graceOver' = [graceOver EXCEPT ![r] = TRUE]
    /\ UNCHANGED <<row, inbox, level, about, jobs, worker, faults>>

Fault == faults < FaultBudget /\ faults' = faults + 1

(* expireInSeconds: by itself for a job whose worker is gone, a fault (the  *)
(* stall) for one whose handler still runs, which nothing stops.            *)
ExpireJob(r) ==
    /\ jobState[r] = "active"
    /\ GiveBackJob(r)
    /\ IF job[runner[r]] = r THEN Fault ELSE UNCHANGED faults
    /\ UNCHANGED <<row, receipt, worker>>

Crash(w) ==
    /\ pc[w] # "idle"
    /\ LeaveHandler(w)
    /\ Fault
    /\ UNCHANGED <<row, receipt, jobs>>

HandlerThrows(w) ==
    /\ pc[w] \notin {"idle", "done"}
    /\ Throw(w)
    /\ Fault
    /\ UNCHANGED <<row, receipt>>

-----------------------------------------------------------------------------
HandlerStep(w) ==
    \/ ClaimForProcessing(w) \/ ReadNotification(w) \/ RecordAcknowledgement(w)
    \/ MarkProcessed(w) \/ CompleteJob(w)

Next ==
    \/ \E n \in Notifications : RecordSent(n)
    \/ \E r \in Receipts : Ingest(r) \/ GracePasses(r) \/ ExpireJob(r)
    \/ \E w \in Workers, r \in Receipts : FetchJob(w, r)
    \/ \E w \in Workers : HandlerStep(w) \/ Crash(w) \/ HandlerThrows(w)

Spec == Init /\ [][Next]_vars

(* Workers poll while any of them runs, a handler in hand goes on, clocks   *)
(* move and a lost worker's job expires.                                    *)
Fairness ==
    /\ \A r \in Receipts :
          /\ WF_vars(\E w \in Workers : FetchJob(w, r))
          /\ WF_vars(GracePasses(r))
          /\ WF_vars(ExpireJob(r))
    /\ \A w \in Workers : WF_vars(HandlerStep(w))

FairSpec == Spec /\ Fairness

-----------------------------------------------------------------------------
(* DELIVERED and FAILED are final, and SENT is left for one of them only:   *)
(* of two receipts that both read SENT, the second to commit moves nothing. *)
FinalStaysFinal ==
    [][\A n \in Notifications :
          status'[n] # status[n] =>
              <<status[n], status'[n]>> \in {<<"PROCESSING", "SENT">>, <<"SENT", "DELIVERED">>,
                                             <<"SENT", "FAILED">>}]_vars

(* The status and the acknowledgement columns tell one story: nothing short *)
(* of a device receipt delivers, a failed notification keeps the failure    *)
(* against every later receipt, and the times agree with both.              *)
StoryAgrees ==
    \A n \in Notifications :
        /\ status[n] = "SENT" => stored[n] \in {0, 1} /\ stamps[n] = {}
        /\ status[n] = "DELIVERED" =>
              /\ "delivered" \in stamps[n]
              /\ stored[n] = error => "failed" \in stamps[n]
              /\ stored[n] # error => stored[n] >= device
        /\ status[n] = "FAILED" => stored[n] = error /\ stamps[n] = {"failed"}

(* "an accepted callback is never lost": whatever stops its handler, a     *)
(* delivery not resolved yet has a job that will run, or has used up every  *)
(* retry; no job is completed over it.                                      *)
AcceptedKeepsJob ==
    \A r \in Receipts :
        inbox[r] = "pending" =>
            \/ jobState[r] \in {"waiting", "active"}
            \/ jobState[r] = "failed" /\ retries[r] = RetryLimit

(* An accepted callback is resolved in the end, also when its notification  *)
(* never appears, as long as there is a retry past the grace for every      *)
(* fault.                                                                   *)
EventuallyResolved ==
    \A r \in Receipts : inbox[r] = "pending" ~> inbox[r] \in Results

-----------------------------------------------------------------------------
(* What the repository says of the program and the program does not do.    *)

(* "the stored value is the highest ever seen rather than the latest        *)
(* received": a receipt marked applied is covered by what is stored.        *)
StoredIsHighestSeen ==
    \A r \in Receipts :
        inbox[r] = "APPLIED" =>
            stored[about[r]] = error \/ (level[r] # error /\ stored[about[r]] >= level[r])

(* "an event written for a transition that did not happen is a permanently  *)
(* uncorrectable entry in the timeline": a notification leaves SENT once,   *)
(* so one event at most says that it did.                                   *)
LeftSent(n) == {e \in told[n] : e.from = "SENT" /\ e.to # "SENT"}

TimelineTellsTransitions == \A n \in Notifications : Cardinality(LeftSent(n)) <= 1
=============================================================================
