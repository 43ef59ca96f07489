------------------------------- MODULE Dispatch -------------------------------
(***************************************************************************)
(* The delivery pipeline: the dispatch queue, the workers that run         *)
(* DispatchNotificationService.dispatch, the send attempt ledger, and the  *)
(* maintenance pass that repairs what a lost worker or a lost job leaves   *)
(* behind.                                                                 *)
(*                                                                         *)
(* One action is one database round trip, one transaction or one call to   *)
(* the provider, because another worker, the reaper, a cancellation or a   *)
(* crash can come between any two of them.  What the connection (status,   *)
(* pause, pacing slot), the recipient lookup and the typing indicator      *)
(* decide is left open here: Prepare may take each way out the code has.   *)
(*                                                                         *)
(* A definition that stands just before the one it resembles, and that      *)
(* nothing uses, is a mistake that one could have: the properties are shown *)
(* to tell the two apart.                                                   *)
(*                                                                         *)
(* Time is reduced to the four comparisons the code makes with it: whether *)
(* a row is due, a job may start, a claim is older than the stuck-claim    *)
(* timeout, and the delivery window has closed.                            *)
(***************************************************************************)
EXTENDS Integers, Sequences, FiniteSets

CONSTANTS
    Notifications,      \* the notification rows
    Workers,            \* handler slots, over every worker process
    MaximumAttempts,    \* notifications.maximum_attempts, the same for all rows
    FaultBudget,        \* bound: crashes, errors, expiries and stalls in a behaviour
    None                \* no worker, no notification

ASSUME DispatchAssumption ==
    /\ MaximumAttempts \in Nat \ {0}
    /\ FaultBudget \in Nat
    /\ None \notin Workers
    /\ None \notin Notifications

VARIABLES
    \* the row in notifications
    status,         \* its lifecycle status
    claimToken,     \* the worker whose claim it carries, or None
    dueAt,          \* scheduled_at or next_attempt_at: "now" or still "later"
    claimStale,     \* claimed_at is older than the stuck-claim timeout
    windowClosed,   \* the delivery window, or the caller's patience, is over
    policy,         \* the application's unknown-outcome policy
    \* notification_send_attempts: the outcome of each attempt, in order.
    \* attempt_count is its length: both change in BeginAttempt's transaction only.
    ledger,
    \* the dispatch queue, at most one job per state for a notification
    waitingJob,     \* state created: "none", or startAfter is "later" or "now"
    retryJob,       \* state retry
    runningJob,     \* state active: the worker it was handed to
    deadLettered,   \* a job of this notification went to the dead letter queue
    \* the workers, each between two round trips of one dispatch() call
    pc, job, attempt, verdict,
    \* the maintenance pass: what a scan found and the pass has not handled yet
    stuckFound, dueFound,
    \* what really happened at WhatsApp, which no worker can read back
    contacted,      \* the attempts whose request was written to the network
    delivered,      \* those of them whose message WhatsApp took
    faults          \* faults so far, up to FaultBudget

row     == <<status, claimToken, dueAt, claimStale, windowClosed, policy>>
jobs    == <<waitingJob, retryJob, runningJob, deadLettered>>
worker  == <<pc, job, attempt, verdict>>
repair  == <<stuckFound, dueFound>>
network == <<contacted, delivered>>
vars    == <<row, ledger, jobs, worker, repair, network, faults>>

Statuses == {"SCHEDULED", "QUEUED", "PROCESSING", "SENT", "RETRYING", "FAILED", "CANCELLED"}
Settled  == {"SENT", "FAILED", "CANCELLED"}
Outcomes == {"open", "SUCCEEDED", "FAILED", "UNKNOWN"}
Stages   == {"idle", "promoting", "claiming", "tooEarly", "refusedClaim", "rescheduling",
             "checking", "preparing", "beginning", "sending", "recording", "refused",
             "unknown", "deciding", "done"}
Verdicts == {"none", "retry", "fail", "defer"}

RowTypeOK ==
    /\ status \in [Notifications -> Statuses]
    /\ claimToken \in [Notifications -> Workers \cup {None}]
    /\ dueAt \in [Notifications -> {"now", "later"}]
    /\ claimStale \in [Notifications -> BOOLEAN]
    /\ windowClosed \in [Notifications -> BOOLEAN]
    /\ policy \in [Notifications -> {"RETRY", "FAIL_CLOSED"}]

JobsTypeOK ==
    /\ waitingJob \in [Notifications -> {"none", "later", "now"}]
    /\ retryJob \in [Notifications -> BOOLEAN]
    /\ runningJob \in [Notifications -> Workers \cup {None}]
    /\ deadLettered \in [Notifications -> BOOLEAN]

WorkersTypeOK ==
    /\ pc \in [Workers -> Stages]
    /\ job \in [Workers -> Notifications \cup {None}]
    /\ attempt \in [Workers -> Nat]
    /\ verdict \in [Workers -> Verdicts]

RecordsTypeOK ==
    /\ ledger \in [Notifications -> Seq(Outcomes)]
    /\ stuckFound \subseteq Notifications
    /\ dueFound \subseteq Notifications
    /\ contacted \in [Notifications -> SUBSET Nat]
    /\ delivered \in [Notifications -> SUBSET Nat]
    /\ faults \in 0 .. FaultBudget

(* Every variable keeps to the values its column, queue state or handler    *)
(* stage can have.                                                          *)
TypeOK == RowTypeOK /\ JobsTypeOK /\ WorkersTypeOK /\ RecordsTypeOK

-----------------------------------------------------------------------------
(* CreateNotificationService.writeNotification commits the row and its job *)
(* together: a scheduled one with startAfter at its time, any other now.   *)
Init ==
    /\ status \in [Notifications -> {"SCHEDULED", "QUEUED"}]
    /\ dueAt = [n \in Notifications |-> IF status[n] = "SCHEDULED" THEN "later" ELSE "now"]
    /\ waitingJob = dueAt
    /\ policy \in [Notifications -> {"RETRY", "FAIL_CLOSED"}]
    /\ claimToken = [n \in Notifications |-> None]
    /\ claimStale = [n \in Notifications |-> FALSE]
    /\ windowClosed = [n \in Notifications |-> FALSE]
    /\ ledger = [n \in Notifications |-> << >>]
    /\ retryJob = [n \in Notifications |-> FALSE]
    /\ runningJob = [n \in Notifications |-> None]
    /\ deadLettered = [n \in Notifications |-> FALSE]
    /\ pc = [w \in Workers |-> "idle"]
    /\ job = [w \in Workers |-> None]
    /\ attempt = [w \in Workers |-> 0]
    /\ verdict = [w \in Workers |-> "none"]
    /\ stuckFound = {}
    /\ dueFound = {}
    /\ contacted = [n \in Notifications |-> {}]
    /\ delivered = [n \in Notifications |-> {}]
    /\ faults = 0

-----------------------------------------------------------------------------
(* The queue, as enqueueInTransaction and the stately policy use it.       *)

(* A second waiting job for the same notification is not accepted. *)
EnqueueExclusively(n, when) ==
    waitingJob' = [waitingJob EXCEPT
                      ![n] = IF @ = "none" /\ runningJob[n] = None THEN when ELSE @]
Enqueue(n, when) ==
    waitingJob' = [waitingJob EXCEPT ![n] = IF @ = "none" THEN when ELSE @]

(* The running job is given back: retried, or dead-lettered when its      *)
(* retries are used up or a job is already waiting to be retried.          *)
GiveBackJob(n) ==
    /\ runningJob' = [runningJob EXCEPT ![n] = None]
    /\ \/ /\ ~retryJob[n]
          /\ retryJob' = [retryJob EXCEPT ![n] = TRUE]
          /\ UNCHANGED deadLettered
       \/ /\ deadLettered' = [deadLettered EXCEPT ![n] = TRUE]
          /\ UNCHANGED retryJob

(* pg-boss hands a worker the waiting job or the job to be retried, and     *)
(* never two of one notification at once.                                   *)
FetchJob(w, n) ==
    /\ pc[w] = "idle"
    /\ runningJob[n] = None
    /\ \/ /\ waitingJob[n] = "now"
          /\ waitingJob' = [waitingJob EXCEPT ![n] = "none"]
          /\ UNCHANGED retryJob
       \/ /\ retryJob[n]
          /\ retryJob' = [retryJob EXCEPT ![n] = FALSE]
          /\ UNCHANGED waitingJob
    /\ runningJob' = [runningJob EXCEPT ![n] = w]
    /\ pc' = [pc EXCEPT ![w] = "promoting"]
    /\ job' = [job EXCEPT ![w] = n]
    /\ UNCHANGED <<row, ledger, deadLettered, attempt, verdict, repair, network, faults>>

(* settleEach reports the job completed.  A job that expired meanwhile is   *)
(* no longer this handler's to complete.                                    *)
CompleteJob(w) ==
    /\ pc[w] = "done"
    /\ runningJob' = [runningJob EXCEPT ![job[w]] = IF @ = w THEN None ELSE @]
    /\ pc' = [pc EXCEPT ![w] = "idle"]
    /\ job' = [job EXCEPT ![w] = None]
    /\ attempt' = [attempt EXCEPT ![w] = 0]
    /\ verdict' = [verdict EXCEPT ![w] = "none"]
    /\ UNCHANGED <<row, ledger, waitingJob, retryJob, deadLettered, repair, network, faults>>

-----------------------------------------------------------------------------
(* Claiming.                                                               *)

Goto(w, stage) == pc' = [pc EXCEPT ![w] = stage]

Decide(w, decision) ==
    /\ verdict' = [verdict EXCEPT ![w] = decision]
    /\ Goto(w, "deciding")

(* promoteScheduled: SCHEDULED becomes QUEUED once its time has come.       *)
PromoteScheduled(w) ==
    LET n == job[w] IN
    /\ pc[w] = "promoting"
    /\ status' = [status EXCEPT ![n] =
                     IF @ = "SCHEDULED" /\ dueAt[n] = "now" THEN "QUEUED" ELSE @]
    /\ Goto(w, "claiming")
    /\ UNCHANGED <<claimToken, dueAt, claimStale, windowClosed, policy, ledger, jobs,
                   job, attempt, verdict, repair, network, faults>>

Claimable(n) ==
    \/ status[n] = "QUEUED"
    \/ status[n] = "RETRYING" /\ dueAt[n] = "now"

(* claimForDispatch: the compare-and-swap that takes ownership.  The token  *)
(* is drawn anew for each dispatch() call.  The worker stands for it here:  *)
(* it runs one call at a time, and a new claim always replaces the token.   *)
(* Where the claim fails, the time it compared with was read before, so a   *)
(* row not due then is explained as not due even if its time comes since.   *)
ClaimForDispatch(w) ==
    LET n == job[w] IN
    /\ pc[w] = "claiming"
    /\ IF Claimable(n)
         THEN /\ status' = [status EXCEPT ![n] = "PROCESSING"]
              /\ claimToken' = [claimToken EXCEPT ![n] = w]
              /\ claimStale' = [claimStale EXCEPT ![n] = FALSE]
              /\ Goto(w, "checking")
         ELSE /\ Goto(w, IF status[n] \in {"SCHEDULED", "RETRYING"} THEN "tooEarly"
                                                                    ELSE "refusedClaim")
              /\ UNCHANGED <<status, claimToken, claimStale>>
    /\ UNCHANGED <<dueAt, windowClosed, policy, ledger, jobs, job, attempt, verdict,
                   repair, network, faults>>

(* explainFailedClaim reads the row again.                                  *)
ExplainFailedClaim(w) ==
    LET n == job[w]
        notDue == /\ status[n] \in {"SCHEDULED", "RETRYING"}
                  /\ dueAt[n] = "later" \/ pc[w] = "tooEarly"
    IN
    /\ pc[w] \in {"tooEarly", "refusedClaim"}
    /\ Goto(w, IF notDue THEN "rescheduling" ELSE "done")
    /\ UNCHANGED <<row, ledger, jobs, job, attempt, verdict, repair, network, faults>>

(* reschedule: a job that arrived early is sent again for when it is due.   *)
Reschedule(w) ==
    /\ pc[w] = "rescheduling"
    /\ Enqueue(job[w], dueAt[job[w]])
    /\ Goto(w, "done")
    /\ UNCHANGED <<row, ledger, retryJob, runningJob, deadLettered, job, attempt, verdict,
                   repair, network, faults>>

-----------------------------------------------------------------------------
(* Deciding and sending.                                                   *)

Unresolved(n) == {k \in DOMAIN ledger[n] : ledger[n][k] = "open"}

(* The first unresolved attempt, as findUnresolved orders them.            *)
FirstUnresolved(n) ==
    CHOOSE k \in Unresolved(n) : \A other \in Unresolved(n) : k <= other

(* hasOutlivedDeliveryWindow, then findUnresolved.                         *)
CheckLedger(w) ==
    LET n == job[w] IN
    /\ pc[w] = "checking"
    /\ IF windowClosed[n]
         THEN /\ Decide(w, "fail")
              /\ UNCHANGED attempt
         ELSE /\ UNCHANGED verdict
              /\ IF Unresolved(n) # {}
                   THEN /\ attempt' = [attempt EXCEPT ![w] = FirstUnresolved(n)]
                        /\ Goto(w, "unknown")
                   ELSE /\ Goto(w, "preparing")
                        /\ UNCHANGED attempt
    /\ UNCHANGED <<row, ledger, jobs, job, repair, network, faults>>

(* The ways out between the ledger and an attempt, where there is no going  *)
(* on.                                                                     *)
WaitForConnection == {"fail", "retry", "defer"}
WaitForPause      == {"fail", "retry", "defer"}
ResolveRecipient  == {"fail", "retry"} \cup WaitForConnection
WaysOut == {"fail", "defer"} \cup WaitForConnection \cup WaitForPause \cup ResolveRecipient

(* From the session lookup to showTyping.  A session gone, a wait that      *)
(* outlasted its limit, a pause longer than it, or a number that is not on  *)
(* WhatsApp fails the notification; a connection that cannot send yet and a *)
(* lookup that failed retry it; a later check of either, the pacing slot    *)
(* and a stopping worker put it back quietly.                               *)
Prepare(w) ==
    /\ pc[w] = "preparing"
    /\ \/ Goto(w, "beginning") /\ UNCHANGED verdict
       \/ \E v \in WaysOut : Decide(w, v)
    /\ UNCHANGED <<row, ledger, jobs, job, attempt, repair, network, faults>>

(* beginAttempt's predicate: the claim must still be this worker's.         *)
OwnsClaimByStatusAlone(w) == status[job[w]] = "PROCESSING"

OwnsClaim(w) ==
    /\ status[job[w]] = "PROCESSING"
    /\ claimToken[job[w]] = w

(* deliver() compares the number it was given with maximum_attempts.       *)
BudgetSpentOneLate(number) == number > MaximumAttempts + 1
BudgetSpent(number) == number > MaximumAttempts

(* beginAttempt commits the increment and the ledger row together; a number *)
(* beyond the budget is not sent.                                           *)
BeginAttempt(w) ==
    LET n == job[w]
        number == Len(ledger[n]) + 1
    IN
    /\ pc[w] = "beginning"
    /\ IF OwnsClaim(w)
         THEN /\ ledger' = [ledger EXCEPT ![n] = Append(@, "open")]
              /\ attempt' = [attempt EXCEPT ![w] = number]
              /\ IF BudgetSpent(number)
                   THEN Decide(w, "fail")
                   ELSE Goto(w, "sending") /\ UNCHANGED verdict
         ELSE /\ Goto(w, "done")
              /\ UNCHANGED <<ledger, attempt, verdict>>
    /\ UNCHANGED <<row, jobs, job, repair, network, faults>>

(* unknownOutcomeCodes: a timeout, a dropped connection, an abort and an    *)
(* unreadable response say nothing of what WhatsApp did.  Any error status  *)
(* is taken for proof that the message was not sent, and so it is here.     *)
AnswersTakingTimeoutsForRefusals(took) ==
    IF took THEN {"recording", "refused"} ELSE {"refused", "unknown"}
AnswersTrustingAnyResponse(took) ==
    IF took THEN {"recording", "unknown"} ELSE {"refused", "unknown", "recording"}
Answers(took) ==
    IF took THEN {"recording", "unknown"} ELSE {"refused", "unknown"}

(* sendTextMessage: WhatsApp takes the message or it does not, and the      *)
(* answer may be lost either way.                                           *)
SendTextMessage(w) ==
    LET n == job[w] IN
    /\ pc[w] = "sending"
    /\ contacted' = [contacted EXCEPT ![n] = @ \cup {attempt[w]}]
    /\ \E took \in BOOLEAN :
          /\ delivered' = IF took THEN [delivered EXCEPT ![n] = @ \cup {attempt[w]}]
                                  ELSE delivered
          /\ \E answer \in Answers(took) : Goto(w, answer)
    /\ UNCHANGED <<row, ledger, jobs, job, attempt, verdict, repair, faults>>

(* resolve: by number alone, whatever the attempt's outcome already is.     *)
ResolveWithStatus(n, number, outcome) == ledger' = [ledger EXCEPT ![n][number] = status[n]]
Resolve(n, number, outcome) == ledger' = [ledger EXCEPT ![n][number] = outcome]

(* applyTransition out of PROCESSING: the claim's columns are cleared.      *)
LeaveProcessing(n, next) ==
    /\ status' = [status EXCEPT ![n] = next]
    /\ claimToken' = [claimToken EXCEPT ![n] = None]
    /\ claimStale' = [claimStale EXCEPT ![n] = FALSE]

(* The SENT row and its ledger entry commit together, or neither does.      *)
RecordSent(w) ==
    LET n == job[w] IN
    /\ pc[w] = "recording"
    /\ IF status[n] = "PROCESSING"
         THEN LeaveProcessing(n, "SENT") /\ Resolve(n, attempt[w], "SUCCEEDED")
         ELSE UNCHANGED <<status, claimToken, claimStale, ledger>>
    /\ Goto(w, "done")
    /\ UNCHANGED <<dueAt, windowClosed, policy, jobs, job, attempt, verdict,
                   repair, network, faults>>

(* handleSendFailure when WhatsApp did answer: a session the provider lost  *)
(* is waited for like any other, a permanent refusal fails, and a passing   *)
(* one is retried while the budget lasts.                                   *)
ResolveRefused(w) ==
    /\ pc[w] = "refused"
    /\ Resolve(job[w], attempt[w], "FAILED")
    /\ \/ \E v \in {"fail", "retry", "defer"} : Decide(w, v)
       \/ Decide(w, "fail")
       \/ Decide(w, IF attempt[w] < MaximumAttempts THEN "retry" ELSE "fail")
    /\ UNCHANGED <<row, jobs, job, attempt, repair, network, faults>>

(* What resolveUnknownOutcome decides, for this send or an earlier one.     *)
UnknownVerdict(n, number) ==
    IF policy[n] = "FAIL_CLOSED" \/ number >= MaximumAttempts THEN "fail" ELSE "retry"

(* resolveUnknownOutcome closes the attempt in a statement of its own; the  *)
(* transition that follows is another transaction.                          *)
ResolveUnknown(w) ==
    /\ pc[w] = "unknown"
    /\ Resolve(job[w], attempt[w], "UNKNOWN")
    /\ Decide(w, UnknownVerdict(job[w], attempt[w]))
    /\ UNCHANGED <<row, jobs, job, attempt, repair, network, faults>>

-----------------------------------------------------------------------------
(* The transitions out of PROCESSING.  Each compares the status alone.     *)

Release(n, when) ==
    /\ LeaveProcessing(n, "RETRYING")
    /\ dueAt' = [dueAt EXCEPT ![n] = when]

(* retry: the RETRYING row and the job that will pick it up, together.      *)
Retry(w) ==
    LET n == job[w] IN
    /\ pc[w] = "deciding"
    /\ verdict[w] = "retry"
    /\ IF status[n] = "PROCESSING"
         THEN Release(n, "later") /\ Enqueue(n, "later")
         ELSE UNCHANGED <<status, claimToken, claimStale, dueAt, waitingJob>>
    /\ Goto(w, "done")
    /\ UNCHANGED <<windowClosed, policy, ledger, retryJob, runningJob,
                   deadLettered, job, attempt, verdict, repair, network, faults>>

Fail(w) ==
    LET n == job[w] IN
    /\ pc[w] = "deciding"
    /\ verdict[w] = "fail"
    /\ IF status[n] = "PROCESSING"
         THEN LeaveProcessing(n, "FAILED")
         ELSE UNCHANGED <<status, claimToken, claimStale>>
    /\ Goto(w, "done")
    /\ UNCHANGED <<dueAt, windowClosed, policy, ledger, jobs, job, attempt,
                   verdict, repair, network, faults>>

(* deferQuietly sends the next job whether or not the row was still held.   *)
DeferQuietly(w) ==
    LET n == job[w] IN
    /\ pc[w] = "deciding"
    /\ verdict[w] = "defer"
    /\ \E until \in {"now", "later"} :
          /\ IF status[n] = "PROCESSING"
               THEN Release(n, until)
               ELSE UNCHANGED <<status, claimToken, claimStale, dueAt>>
          /\ Enqueue(n, until)
    /\ Goto(w, "done")
    /\ UNCHANGED <<windowClosed, policy, ledger, retryJob, runningJob,
                   deadLettered, job, attempt, verdict, repair, network, faults>>

(* NotificationQueryService.cancel and cancelWaiting: a worker's claim and  *)
(* the cancellation compare the same status, so one of them finds no row.   *)
Cancel(n) ==
    /\ status[n] \in {"SCHEDULED", "QUEUED", "RETRYING"}
    /\ status' = [status EXCEPT ![n] = "CANCELLED"]
    /\ UNCHANGED <<claimToken, dueAt, claimStale, windowClosed, policy, ledger, jobs,
                   worker, repair, network, faults>>

-----------------------------------------------------------------------------
(* The maintenance pass: a scan, then one transaction per row it found.    *)
(* Every pass scans for stuck claims and then for due rows.  A scan that    *)
(* finds nothing changes nothing, so it is not a step here, and either scan *)
(* may be the next to find something.                                       *)

AbandonedClaims ==
    {n \in Notifications : status[n] = "PROCESSING" /\ claimStale[n] /\ claimToken[n] = None}
StuckClaims == {n \in Notifications : status[n] = "PROCESSING" /\ claimStale[n]}

DueForDispatch ==
    {n \in Notifications : Claimable(n) \/ (status[n] = "SCHEDULED" /\ dueAt[n] = "now")}

FindStuckClaims ==
    /\ stuckFound = {} /\ dueFound = {}
    /\ StuckClaims # {}
    /\ stuckFound' = StuckClaims
    /\ UNCHANGED <<row, ledger, jobs, worker, dueFound, network, faults>>

(* The row is released on its status alone: neither the claim's age nor its *)
(* token is looked at again.                                                *)
ReleaseClaimUnseen(n) ==
    /\ n \in stuckFound
    /\ Release(n, "now") /\ Enqueue(n, "now")
    /\ stuckFound' = stuckFound \ {n}
    /\ UNCHANGED <<windowClosed, policy, ledger, retryJob, runningJob, deadLettered,
                   worker, dueFound, network, faults>>
ReleaseClaim(n) ==
    /\ n \in stuckFound
    /\ IF status[n] = "PROCESSING"
         THEN Release(n, "now") /\ Enqueue(n, "now")
         ELSE UNCHANGED <<status, claimToken, claimStale, dueAt, waitingJob>>
    /\ stuckFound' = stuckFound \ {n}
    /\ UNCHANGED <<windowClosed, policy, ledger, retryJob, runningJob, deadLettered,
                   worker, dueFound, network, faults>>

FindDueForDispatch ==
    /\ stuckFound = {} /\ dueFound = {}
    /\ DueForDispatch # {}
    /\ dueFound' = DueForDispatch
    /\ UNCHANGED <<row, ledger, jobs, worker, stuckFound, network, faults>>

RequeueDue(n) ==
    /\ n \in dueFound
    /\ Enqueue(n, "now")
    /\ dueFound' = dueFound \ {n}
    /\ UNCHANGED <<row, ledger, retryJob, runningJob, deadLettered, worker, stuckFound,
                   network, faults>>

-----------------------------------------------------------------------------
(* Time.                                                                   *)

RowComesDue(n) ==
    /\ dueAt[n] = "later"
    /\ dueAt' = [dueAt EXCEPT ![n] = "now"]
    /\ UNCHANGED <<status, claimToken, claimStale, windowClosed, policy, ledger, jobs,
                   worker, repair, network, faults>>

JobComesDue(n) ==
    /\ waitingJob[n] = "later"
    /\ waitingJob' = [waitingJob EXCEPT ![n] = "now"]
    /\ UNCHANGED <<row, ledger, retryJob, runningJob, deadLettered, worker, repair,
                   network, faults>>

(* The window opens when a scheduled row falls due.                         *)
WindowCloses(n) ==
    /\ ~windowClosed[n] /\ status[n] \notin Settled
    /\ status[n] = "SCHEDULED" => dueAt[n] = "now"
    /\ windowClosed' = [windowClosed EXCEPT ![n] = TRUE]
    /\ UNCHANGED <<status, claimToken, dueAt, claimStale, policy, ledger, jobs, worker,
                   repair, network, faults>>

(* A fault is free where `healed` holds: time alone brings it about.        *)
Fault(healed) ==
    \/ healed /\ UNCHANGED faults
    \/ ~healed /\ faults < FaultBudget /\ faults' = faults + 1

(* The claim of a lost worker goes stale by itself; the claim of a live one *)
(* only if that worker stalls past the timeout, which nothing rules out:    *)
(* the timeout is configured apart from every deadline inside dispatch().   *)
ClaimGoesStale(n) ==
    /\ status[n] = "PROCESSING" /\ ~claimStale[n]
    /\ claimStale' = [claimStale EXCEPT ![n] = TRUE]
    /\ Fault(\A w \in Workers : job[w] = n => claimToken[n] # w)
    /\ UNCHANGED <<status, claimToken, dueAt, windowClosed, policy, ledger, jobs, worker,
                   repair, network>>

(* The job's expireInSeconds pass.  A handler still running is not stopped: *)
(* its abort signal is raised, and it goes on to its next round trip.       *)
ExpireJob(n) ==
    /\ runningJob[n] # None
    /\ GiveBackJob(n)
    /\ Fault(\A w \in Workers : runningJob[n] = w => job[w] # n)
    /\ UNCHANGED <<row, ledger, waitingJob, worker, repair, network>>

-----------------------------------------------------------------------------
(* Faults.                                                                 *)

LoseHandler(w) ==
    /\ Goto(w, "idle")
    /\ job' = [job EXCEPT ![w] = None]
    /\ attempt' = [attempt EXCEPT ![w] = 0]
    /\ verdict' = [verdict EXCEPT ![w] = "none"]

(* The worker process is killed; its job stays active until it expires.     *)
Crash(w) ==
    /\ pc[w] # "idle"
    /\ LoseHandler(w)
    /\ Fault(FALSE)
    /\ UNCHANGED <<row, ledger, jobs, repair, network>>

(* A round trip fails: the handler throws and settleEach reports the job    *)
(* failed, which is heeded only while the job is still this handler's.      *)
HandlerThrows(w) ==
    /\ pc[w] \notin {"idle", "done"}
    /\ IF runningJob[job[w]] = w THEN GiveBackJob(job[w])
                                 ELSE UNCHANGED <<retryJob, runningJob, deadLettered>>
    /\ LoseHandler(w)
    /\ Fault(FALSE)
    /\ UNCHANGED <<row, ledger, waitingJob, repair, network>>

(* The maintenance job dies between two rows; the next minute starts anew.  *)
MaintenanceDies ==
    /\ stuckFound # {} \/ dueFound # {}
    /\ stuckFound' = {}
    /\ dueFound' = {}
    /\ Fault(FALSE)
    /\ UNCHANGED <<row, ledger, jobs, worker, network>>

-----------------------------------------------------------------------------
HandlerStep(w) ==
    \/ PromoteScheduled(w) \/ ClaimForDispatch(w)
    \/ ExplainFailedClaim(w) \/ Reschedule(w)
    \/ CheckLedger(w) \/ Prepare(w) \/ BeginAttempt(w) \/ SendTextMessage(w)
    \/ RecordSent(w) \/ ResolveRefused(w) \/ ResolveUnknown(w)
    \/ Retry(w) \/ Fail(w) \/ DeferQuietly(w)
    \/ CompleteJob(w)

RepairStep ==
    \/ FindStuckClaims \/ FindDueForDispatch
    \/ \E n \in Notifications : ReleaseClaim(n) \/ RequeueDue(n)

TimeStep(n) == RowComesDue(n) \/ JobComesDue(n) \/ WindowCloses(n) \/ ClaimGoesStale(n)

Next ==
    \/ \E w \in Workers, n \in Notifications : FetchJob(w, n)
    \/ \E w \in Workers : HandlerStep(w) \/ Crash(w) \/ HandlerThrows(w)
    \/ \E n \in Notifications : Cancel(n) \/ TimeStep(n) \/ ExpireJob(n)
    \/ RepairStep
    \/ MaintenanceDies

Spec == Init /\ [][Next]_vars

(* pg-boss polls for as long as any worker process runs, a handler in hand  *)
(* goes on to its next step, the cron starts the maintenance pass, and      *)
(* clocks move.  Cancelling and failing are nobody's duty.                  *)
Fairness ==
    /\ \A n \in Notifications :
          /\ WF_vars(\E w \in Workers : FetchJob(w, n))
          /\ WF_vars(RowComesDue(n))
          /\ WF_vars(JobComesDue(n))
          /\ WF_vars(WindowCloses(n))
          /\ WF_vars(ClaimGoesStale(n))
          /\ WF_vars(ExpireJob(n))
    /\ \A w \in Workers : WF_vars(HandlerStep(w))
    /\ WF_vars(RepairStep)
    /\ SF_vars(FindStuckClaims)

FairSpec == Spec /\ Fairness

-----------------------------------------------------------------------------
(* Safety.                                                                 *)

(* The budget: WhatsApp is contacted at most MaximumAttempts times for a    *)
(* notification, because every contact uses up an attempt number of its own *)
(* within the budget: one beginAttempt handed out and nobody has used yet.  *)
BudgetKept ==
    /\ \A n \in Notifications : contacted[n] \subseteq 1 .. MaximumAttempts
    /\ \A w \in Workers : pc[w] = "sending" => attempt[w] \notin contacted[job[w]]

(* The ledger is ahead of the network: what WhatsApp saw is in it, written  *)
(* before, and a new attempt is never begun over one still unresolved.      *)
LedgerAhead ==
    \A n \in Notifications :
        /\ contacted[n] \subseteq DOMAIN ledger[n]
        /\ \A k \in DOMAIN ledger[n] : k < Len(ledger[n]) => ledger[n][k] # "open"

(* A message WhatsApp took is sent again only where the ledger says that    *)
(* its outcome was unknown at the time (or, told late by the worker that    *)
(* sent it, that it succeeded): never over a recorded refusal.              *)
ResendOnRecord ==
    \A n \in Notifications : \A k \in delivered[n] :
        Len(ledger[n]) > k => ledger[n][k] \in {"UNKNOWN", "SUCCEEDED"}

(* "a notification can never be left in RETRYING with nothing scheduled to  *)
(* pick it up": whatever released the row sent a job with it or found one   *)
(* waiting, and no job that finds the row early is used up on it.  Only a   *)
(* job lost to the dead letter queue leaves the row to the maintenance pass. *)
RetryingHasJob ==
    \A n \in Notifications :
        status[n] = "RETRYING" /\ ~deadLettered[n] =>
            waitingJob[n] # "none" \/ retryJob[n] \/ runningJob[n] # None

(* The status moves only along the domain's transition table, so the        *)
(* database trigger that enforces the same table never raises.              *)
Transitions ==
    {<<"SCHEDULED", "QUEUED">>, <<"SCHEDULED", "CANCELLED">>,
     <<"QUEUED", "PROCESSING">>, <<"QUEUED", "CANCELLED">>,
     <<"PROCESSING", "SENT">>, <<"PROCESSING", "RETRYING">>, <<"PROCESSING", "FAILED">>,
     <<"RETRYING", "PROCESSING">>, <<"RETRYING", "CANCELLED">>, <<"RETRYING", "FAILED">>}

TransitionsLegal ==
    [][\A n \in Notifications :
          status'[n] # status[n] => <<status[n], status'[n]>> \in Transitions]_vars

(* Delivery keeps its contract: see DeliveryContract.                       *)
Outcome(n) ==
    CASE status[n] = "SENT"      -> "sent"
      [] status[n] = "FAILED"    -> "failed"
      [] status[n] = "CANCELLED" -> "cancelled"
      [] OTHER                   -> "pending"

Contract == INSTANCE DeliveryContract
              WITH outcome <- [n \in Notifications |-> Outcome(n)],
                   tried <- contacted,
                   taken <- delivered

KeepsContract == Contract!Spec

(* Every notification is settled in the end, whatever is lost on the way,   *)
(* once the faults stop: none stays PROCESSING, none waits forever.         *)
EventuallySettled == \A n \in Notifications : <>(status[n] \in Settled)

-----------------------------------------------------------------------------
(* What the repository says of the program and the program does not do.    *)

(* "Zero rows: the claim was reaped while this worker was still deciding,   *)
(* and the notification belongs to someone else now. Nothing happened to it *)
(* here": a worker whose claim is not the row's moves the row nowhere.      *)
LostClaimMovesNothing ==
    [][\A w \in Workers :
          /\ pc[w] \in {"deciding", "recording"} /\ pc'[w] = "done"
          /\ claimToken[job[w]] # w
          => status'[job[w]] = status[job[w]]]_vars

(* FAIL_CLOSED is "for tenants who would rather miss a message than send it *)
(* twice": WhatsApp takes at most one copy of theirs.                       *)
FailClosedSendsOnce ==
    \A n \in Notifications :
        policy[n] = "FAIL_CLOSED" => \A j, k \in delivered[n] : j = k
=============================================================================
