---------------------------- MODULE DispatchProofs ----------------------------
(***************************************************************************)
(* What the dispatch pipeline guarantees for every number of               *)
(* notifications, workers, attempts and faults.                            *)
(***************************************************************************)
EXTENDS Dispatch, SequenceTheorems, TLAPS

(* Whichever way out is taken, the job fails, is tried again or is put off. *)
LEMMA WaysOutAre == WaysOut = {"fail", "retry", "defer"}
BY DEF WaysOut, WaitForConnection, WaitForPause, ResolveRecipient

(***************************************************************************)
(* The inductive invariant.                                                *)
(***************************************************************************)

(* A handler past its first step has a notification in hand. *)
HandlerHasJob == \A w \in Workers : pc[w] # "idle" => job[w] \in Notifications

(* A worker that still holds its claim after reading the ledger is looking  *)
(* at a ledger with nothing unresolved in it: only the holder of the claim  *)
(* could have begun an attempt since.                                       *)
HolderSawClosedLedger ==
    \A w \in Workers :
        pc[w] \in {"preparing", "beginning"} /\ claimToken[job[w]] = w =>
            \A k \in DOMAIN ledger[job[w]] : ledger[job[w]][k] # "open"

(* The attempt a handler is about to send, record or resolve is in the      *)
(* ledger, and the one it is about to send is within the budget.            *)
AttemptInLedger ==
    \A w \in Workers :
        /\ pc[w] \in {"sending", "recording", "refused", "unknown"} =>
              attempt[w] \in DOMAIN ledger[job[w]]
        /\ pc[w] = "sending" => attempt[w] \in 1 .. MaximumAttempts

(* The worker that began an attempt is the only one to send it, or to hold  *)
(* WhatsApp's answer to it.                                                 *)
AttemptHasOneSender ==
    \A w, v \in Workers :
        /\ pc[w] \in {"sending", "recording", "refused"}
        /\ pc[v] \in {"sending", "recording", "refused"}
        /\ job[w] = job[v]
        /\ attempt[w] = attempt[v]
        => w = v

(* What WhatsApp took was sent, and what a handler knows of it is so: an    *)
(* attempt it holds an acceptance of was taken, one it holds a refusal of   *)
(* was not, and the ledger calls no attempt refused that was taken.         *)
AnswersAreHonest ==
    /\ \A n \in Notifications :
          /\ delivered[n] \subseteq contacted[n]
          /\ \A k \in delivered[n] : ledger[n][k] # "FAILED"
    /\ \A w \in Workers :
          /\ pc[w] = "sending" => ledger[job[w]][attempt[w]] # "FAILED"
          /\ pc[w] = "recording" => attempt[w] \in delivered[job[w]]
          /\ pc[w] = "refused" => attempt[w] \notin delivered[job[w]]

(* A running job that is going to complete without sending another leaves   *)
(* no RETRYING row behind without one.                                      *)
RunnerLeavesJob ==
    \A w \in Workers :
        /\ pc[w] \notin {"idle", "promoting", "claiming", "tooEarly", "rescheduling"}
        /\ runningJob[job[w]] = w
        /\ status[job[w]] = "RETRYING"
        /\ ~deadLettered[job[w]]
        => waitingJob[job[w]] # "none" \/ retryJob[job[w]]

IInv ==
    /\ TypeOK
    /\ HandlerHasJob
    /\ HolderSawClosedLedger
    /\ AttemptInLedger
    /\ AttemptHasOneSender
    /\ BudgetKept
    /\ LedgerAhead
    /\ AnswersAreHonest
    /\ RunnerLeavesJob
    /\ RetryingHasJob

(***************************************************************************)
(* The ledger.                                                             *)
(***************************************************************************)

(* Only the last attempt can be unresolved, so there is a first one.        *)
LEMMA FirstUnresolvedIsOpen ==
    ASSUME RecordsTypeOK, LedgerAhead, NEW n \in Notifications, Unresolved(n) # {}
    PROVE  /\ FirstUnresolved(n) \in DOMAIN ledger[n]
           /\ FirstUnresolved(n) \in Nat
           /\ ledger[n][FirstUnresolved(n)] = "open"
<1>1. Len(ledger[n]) \in Nat /\ DOMAIN ledger[n] = 1 .. Len(ledger[n])
  BY LenProperties DEF RecordsTypeOK
<1>2. \A k \in Unresolved(n) : k = Len(ledger[n]) /\ k \in Nat
  BY <1>1 DEF Unresolved, LedgerAhead
<1>3. \E k \in Unresolved(n) : \A other \in Unresolved(n) : k <= other
  BY <1>2
<1>4. FirstUnresolved(n) \in Unresolved(n)
  BY <1>3 DEF FirstUnresolved
<1>5. QED
  BY <1>2, <1>4 DEF Unresolved

(* Closing an attempt that is in the ledger changes that entry alone. *)
LEMMA ResolveLedger ==
    ASSUME RecordsTypeOK, NEW n \in Notifications, NEW k \in DOMAIN ledger[n],
           NEW o \in Outcomes, Resolve(n, k, o)
    PROVE  /\ ledger' \in [Notifications -> Seq(Outcomes)]
           /\ \A m \in Notifications : Len(ledger'[m]) = Len(ledger[m])
           /\ \A m \in Notifications : DOMAIN ledger'[m] = DOMAIN ledger[m]
           /\ \A m \in Notifications : m # n => ledger'[m] = ledger[m]
           /\ \A j \in DOMAIN ledger[n] :
                 ledger'[n][j] = IF j = k THEN o ELSE ledger[n][j]
<1>1. ledger \in [Notifications -> Seq(Outcomes)]
  BY DEF RecordsTypeOK
<1>2. ledger' = [ledger EXCEPT ![n] = [ledger[n] EXCEPT ![k] = o]]
  BY <1>1 DEF Resolve
<1>3. k \in 1 .. Len(ledger[n]) /\ DOMAIN ledger[n] = 1 .. Len(ledger[n])
  BY <1>1, LenProperties
<1> DEFINE s == [ledger[n] EXCEPT ![k] = o]
<1>4. /\ s \in Seq(Outcomes) /\ Len(s) = Len(ledger[n])
      /\ \A j \in 1 .. Len(ledger[n]) : s[j] = IF j = k THEN o ELSE ledger[n][j]
  BY <1>1, <1>3, ExceptSeq
<1>5. DOMAIN s = DOMAIN ledger[n]
  OBVIOUS
<1> HIDE DEF s
<1>6. ledger'[n] = s /\ \A m \in Notifications : m # n => ledger'[m] = ledger[m]
  BY <1>1, <1>2 DEF s
<1>7. ledger' \in [Notifications -> Seq(Outcomes)]
  BY <1>1, <1>2, <1>4 DEF s
<1>8. QED
  BY <1>3, <1>4, <1>5, <1>6, <1>7

(* Beginning an attempt adds one entry, open, and keeps the others. *)
LEMMA BeginLedger ==
    ASSUME RecordsTypeOK, NEW n \in Notifications,
           ledger' = [ledger EXCEPT ![n] = Append(@, "open")]
    PROVE  /\ ledger' \in [Notifications -> Seq(Outcomes)]
           /\ Len(ledger[n]) \in Nat
           /\ DOMAIN ledger[n] = 1 .. Len(ledger[n])
           /\ Len(ledger'[n]) = Len(ledger[n]) + 1
           /\ DOMAIN ledger'[n] = 1 .. Len(ledger[n]) + 1
           /\ \A m \in Notifications : m # n => ledger'[m] = ledger[m]
           /\ \A j \in DOMAIN ledger[n] : ledger'[n][j] = ledger[n][j]
           /\ ledger'[n][Len(ledger[n]) + 1] = "open"
<1>1. ledger \in [Notifications -> Seq(Outcomes)] /\ "open" \in Outcomes
  BY DEF RecordsTypeOK, Outcomes
<1>2. ledger[n] \in Seq(Outcomes) /\ ledger'[n] = Append(ledger[n], "open")
  BY <1>1
<1>3. /\ ledger'[n] \in Seq(Outcomes)
      /\ Len(ledger'[n]) = Len(ledger[n]) + 1
      /\ \A j \in 1 .. Len(ledger[n]) : ledger'[n][j] = ledger[n][j]
      /\ ledger'[n][Len(ledger[n]) + 1] = "open"
  BY <1>1, <1>2, AppendProperties
<1>4. /\ Len(ledger[n]) \in Nat /\ DOMAIN ledger[n] = 1 .. Len(ledger[n])
      /\ DOMAIN ledger'[n] = 1 .. Len(ledger[n]) + 1
  BY <1>2, <1>3, LenProperties
<1>5. \A m \in Notifications : m # n => ledger'[m] = ledger[m]
  BY <1>1
<1>6. ledger' \in [Notifications -> Seq(Outcomes)]
  BY <1>1, <1>2, <1>3
<1>7. QED
  BY <1>3, <1>4, <1>5, <1>6

(* No step takes a variable out of its type or a handler off its job.       *)
LEMMA TypeStep ==
    ASSUME IInv, [Next]_vars
    PROVE  TypeOK' /\ HandlerHasJob'
<1> USE DispatchAssumption DEF row, jobs, worker, repair, network
<1> DEFINE Goal == TypeOK' /\ HandlerHasJob'
<1>0. TypeOK /\ HandlerHasJob /\ AttemptInLedger /\ LedgerAhead
  BY DEF IInv
<1>1. ASSUME NEW w \in Workers, ClaimForDispatch(w)
      PROVE  Goal
  <2>1. job[w] \in Notifications
    BY <1>0, <1>1 DEF HandlerHasJob, ClaimForDispatch
  <2>2. HandlerHasJob'
    BY <1>0, <1>1, <2>1 DEF HandlerHasJob, TypeOK, WorkersTypeOK, Stages,
         ClaimForDispatch, Goto, Claimable
  <2>3. RowTypeOK'
    BY <1>0, <1>1, <2>1, ZenonT(60) DEF TypeOK, RowTypeOK, Statuses, ClaimForDispatch,
         Goto, Claimable
  <2>4. JobsTypeOK'
    BY <1>0, <1>1, <2>1 DEF TypeOK, JobsTypeOK, ClaimForDispatch
  <2>5. WorkersTypeOK'
    BY <1>0, <1>1, <2>1 DEF TypeOK, WorkersTypeOK, Stages, Verdicts,
         ClaimForDispatch, Goto, Claimable
  <2>6. RecordsTypeOK'
    BY <1>0, <1>1, <2>1 DEF TypeOK, RecordsTypeOK, ClaimForDispatch
  <2>7. QED
    BY <2>2, <2>3, <2>4, <2>5, <2>6 DEF TypeOK
<1>2. ASSUME NEW w \in Workers, CheckLedger(w)
      PROVE  Goal
  <2>1. job[w] \in Notifications
    BY <1>0, <1>2 DEF HandlerHasJob, CheckLedger
  <2>2. Unresolved(job[w]) # {} => FirstUnresolved(job[w]) \in Nat
    BY <1>0, <1>2, <2>1, FirstUnresolvedIsOpen DEF TypeOK
  <2>3. HandlerHasJob'
    BY <1>0, <1>2, <2>1 DEF HandlerHasJob, TypeOK, WorkersTypeOK, Stages,
         CheckLedger, Goto, Decide
  <2>4. RowTypeOK'
    BY <1>0, <1>2, <2>1 DEF TypeOK, RowTypeOK, CheckLedger
  <2>5. JobsTypeOK'
    BY <1>0, <1>2, <2>1 DEF TypeOK, JobsTypeOK, CheckLedger
  <2>6. WorkersTypeOK'
    BY <1>0, <1>2, <2>1, <2>2 DEF TypeOK, WorkersTypeOK, Stages, Verdicts,
         CheckLedger, Goto, Decide
  <2>7. RecordsTypeOK'
    BY <1>0, <1>2, <2>1 DEF TypeOK, RecordsTypeOK, CheckLedger
  <2>8. QED
    BY <2>3, <2>4, <2>5, <2>6, <2>7 DEF TypeOK
<1>3. ASSUME NEW w \in Workers, Prepare(w)
      PROVE  Goal
  <2>1. job[w] \in Notifications
    BY WaysOutAre, <1>0, <1>3 DEF HandlerHasJob, Prepare
  <2>2. HandlerHasJob'
    BY WaysOutAre, <1>0, <1>3, <2>1 DEF HandlerHasJob, TypeOK, WorkersTypeOK, Stages,
         Prepare, Goto, Decide
  <2>3. RowTypeOK'
    BY WaysOutAre, <1>0, <1>3, <2>1 DEF TypeOK, RowTypeOK, Prepare
  <2>4. JobsTypeOK'
    BY WaysOutAre, <1>0, <1>3, <2>1 DEF TypeOK, JobsTypeOK, Prepare
  <2>5. WorkersTypeOK'
    BY WaysOutAre, <1>0, <1>3, <2>1 DEF TypeOK, WorkersTypeOK, Stages, Verdicts, Prepare,
         Goto, Decide
  <2>6. RecordsTypeOK'
    BY WaysOutAre, <1>0, <1>3, <2>1 DEF TypeOK, RecordsTypeOK, Prepare
  <2>7. QED
    BY <2>2, <2>3, <2>4, <2>5, <2>6 DEF TypeOK
<1>4. ASSUME NEW w \in Workers, BeginAttempt(w)
      PROVE  Goal
  <2>1. job[w] \in Notifications
    BY <1>0, <1>4 DEF HandlerHasJob, BeginAttempt
  <2>2. ledger' \in [Notifications -> Seq(Outcomes)] /\ Len(ledger[job[w]]) \in Nat
    BY <1>0, <1>4, <2>1, BeginLedger, LenProperties DEF TypeOK, RecordsTypeOK,
         BeginAttempt
  <2>3. HandlerHasJob'
    BY <1>0, <1>4, <2>1 DEF HandlerHasJob, TypeOK, WorkersTypeOK, Stages,
         BeginAttempt, Goto, Decide, OwnsClaim
  <2>4. RowTypeOK'
    BY <1>0, <1>4, <2>1 DEF TypeOK, RowTypeOK, BeginAttempt
  <2>5. JobsTypeOK'
    BY <1>0, <1>4, <2>1 DEF TypeOK, JobsTypeOK, BeginAttempt
  <2>6. WorkersTypeOK'
    <3>1. attempt' \in {attempt, [attempt EXCEPT ![w] = Len(ledger[job[w]]) + 1]}
      BY <1>4 DEF BeginAttempt
    <3>2. attempt' \in [Workers -> Nat]
      <4>1. Len(ledger[job[w]]) + 1 \in Nat
        BY <2>2
      <4>2. QED
        BY <1>0, <3>1, <4>1 DEF TypeOK, WorkersTypeOK
    <3>3. QED
      BY <1>0, <1>4, <2>1, <3>2 DEF TypeOK, WorkersTypeOK, Stages, Verdicts,
           BeginAttempt, Goto, Decide, OwnsClaim
  <2>7. RecordsTypeOK'
    BY <1>0, <1>4, <2>1, <2>2 DEF TypeOK, RecordsTypeOK, Outcomes,
         BeginAttempt, Goto, Decide, OwnsClaim
  <2>8. QED
    BY <2>3, <2>4, <2>5, <2>6, <2>7 DEF TypeOK
<1>5. ASSUME NEW w \in Workers, SendTextMessage(w)
      PROVE  Goal
  <2>1. job[w] \in Notifications
    BY <1>0, <1>5 DEF HandlerHasJob, SendTextMessage
  <2>2. HandlerHasJob'
    BY <1>0, <1>5, <2>1 DEF HandlerHasJob, TypeOK, WorkersTypeOK, Stages,
         SendTextMessage, Answers, Goto
  <2>3. RowTypeOK'
    BY <1>0, <1>5, <2>1 DEF TypeOK, RowTypeOK, SendTextMessage
  <2>4. JobsTypeOK'
    BY <1>0, <1>5, <2>1 DEF TypeOK, JobsTypeOK, SendTextMessage
  <2>5. WorkersTypeOK'
    BY <1>0, <1>5, <2>1 DEF TypeOK, WorkersTypeOK, Stages, Verdicts,
         SendTextMessage, Answers, Goto
  <2>6. RecordsTypeOK'
    <3>1. attempt[w] \in Nat
      BY <1>0 DEF TypeOK, WorkersTypeOK
    <3>2. contacted' \in [Notifications -> SUBSET Nat]
      BY <1>0, <1>5, <2>1, <3>1 DEF TypeOK, RecordsTypeOK, SendTextMessage
    <3>3. delivered' \in {delivered, [delivered EXCEPT ![job[w]] = @ \cup {attempt[w]}]}
      BY <1>5 DEF SendTextMessage
    <3>4. delivered' \in [Notifications -> SUBSET Nat]
      <4>1. delivered \in [Notifications -> SUBSET Nat]
        BY <1>0 DEF TypeOK, RecordsTypeOK
      <4>2. delivered[job[w]] \cup {attempt[w]} \in SUBSET Nat
        BY <2>1, <3>1, <4>1
      <4>3. [delivered EXCEPT ![job[w]] = @ \cup {attempt[w]}] \in [Notifications -> SUBSET Nat]
        BY <4>1, <4>2
      <4>4. QED
        BY <3>3, <4>1, <4>3
    <3>5. QED
      BY <1>0, <1>5, <3>2, <3>4 DEF TypeOK, RecordsTypeOK, SendTextMessage
  <2>7. QED
    BY <2>2, <2>3, <2>4, <2>5, <2>6 DEF TypeOK
<1>6. ASSUME NEW w \in Workers, RecordSent(w)
      PROVE  Goal
  <2>1. job[w] \in Notifications
    BY <1>0, <1>6 DEF HandlerHasJob, RecordSent
  <2>2. ledger' \in [Notifications -> Seq(Outcomes)]
    BY <1>0, <1>6, <2>1, ResolveLedger DEF TypeOK, RecordsTypeOK,
         AttemptInLedger, Outcomes, RecordSent
  <2>3. HandlerHasJob'
    BY <1>0, <1>6, <2>1 DEF HandlerHasJob, TypeOK, WorkersTypeOK, Stages,
         RecordSent, Goto, LeaveProcessing, Resolve
  <2>4. RowTypeOK'
    BY <1>0, <1>6, <2>1 DEF TypeOK, RowTypeOK, Statuses, RecordSent, Goto,
         LeaveProcessing, Resolve
  <2>5. JobsTypeOK'
    BY <1>0, <1>6, <2>1 DEF TypeOK, JobsTypeOK, RecordSent
  <2>6. WorkersTypeOK'
    BY <1>0, <1>6, <2>1 DEF TypeOK, WorkersTypeOK, Stages, Verdicts,
         RecordSent, Goto, LeaveProcessing, Resolve
  <2>7. RecordsTypeOK'
    BY <1>0, <1>6, <2>1, <2>2 DEF TypeOK, RecordsTypeOK, Outcomes,
         RecordSent, Goto, LeaveProcessing, Resolve
  <2>8. QED
    BY <2>3, <2>4, <2>5, <2>6, <2>7 DEF TypeOK
<1>7. ASSUME NEW w \in Workers, ResolveRefused(w)
      PROVE  Goal
  <2>1. job[w] \in Notifications
    BY <1>0, <1>7 DEF HandlerHasJob, ResolveRefused
  <2>2. ledger' \in [Notifications -> Seq(Outcomes)]
    BY <1>0, <1>7, <2>1, ResolveLedger DEF TypeOK, RecordsTypeOK,
         AttemptInLedger, Outcomes, ResolveRefused
  <2>3. HandlerHasJob'
    BY <1>0, <1>7, <2>1 DEF HandlerHasJob, TypeOK, WorkersTypeOK, Stages,
         ResolveRefused, Goto, Decide, Resolve
  <2>4. RowTypeOK'
    BY <1>0, <1>7, <2>1 DEF TypeOK, RowTypeOK, ResolveRefused
  <2>5. JobsTypeOK'
    BY <1>0, <1>7, <2>1 DEF TypeOK, JobsTypeOK, ResolveRefused
  <2>6. WorkersTypeOK'
    BY <1>0, <1>7, <2>1 DEF TypeOK, WorkersTypeOK, Stages, Verdicts,
         ResolveRefused, Goto, Decide, Resolve
  <2>7. RecordsTypeOK'
    BY <1>0, <1>7, <2>1, <2>2 DEF TypeOK, RecordsTypeOK, Outcomes,
         ResolveRefused, Goto, Decide, Resolve
  <2>8. QED
    BY <2>3, <2>4, <2>5, <2>6, <2>7 DEF TypeOK
<1>8. ASSUME NEW w \in Workers, ResolveUnknown(w)
      PROVE  Goal
  <2>1. job[w] \in Notifications
    BY <1>0, <1>8 DEF HandlerHasJob, ResolveUnknown
  <2>2. ledger' \in [Notifications -> Seq(Outcomes)]
    BY <1>0, <1>8, <2>1, ResolveLedger DEF TypeOK, RecordsTypeOK,
         AttemptInLedger, Outcomes, ResolveUnknown
  <2>3. HandlerHasJob'
    BY <1>0, <1>8, <2>1 DEF HandlerHasJob, TypeOK, WorkersTypeOK, Stages,
         ResolveUnknown, Goto, Decide, Resolve, UnknownVerdict
  <2>4. RowTypeOK'
    BY <1>0, <1>8, <2>1 DEF TypeOK, RowTypeOK, ResolveUnknown
  <2>5. JobsTypeOK'
    BY <1>0, <1>8, <2>1 DEF TypeOK, JobsTypeOK, ResolveUnknown
  <2>6. WorkersTypeOK'
    BY <1>0, <1>8, <2>1 DEF TypeOK, WorkersTypeOK, Stages, Verdicts,
         ResolveUnknown, Goto, Decide, Resolve, UnknownVerdict
  <2>7. RecordsTypeOK'
    BY <1>0, <1>8, <2>1, <2>2 DEF TypeOK, RecordsTypeOK, Outcomes,
         ResolveUnknown, Goto, Decide, Resolve, UnknownVerdict
  <2>8. QED
    BY <2>3, <2>4, <2>5, <2>6, <2>7 DEF TypeOK
<1>9. ASSUME NEW w \in Workers, Retry(w)
      PROVE  Goal
  <2>1. job[w] \in Notifications
    BY <1>0, <1>9 DEF HandlerHasJob, Retry
  <2>2. HandlerHasJob'
    BY <1>0, <1>9, <2>1 DEF HandlerHasJob, TypeOK, WorkersTypeOK, Stages,
         Retry, Goto, Release, LeaveProcessing, Enqueue
  <2>3. RowTypeOK'
    <3>1. CASE UNCHANGED <<status, claimToken, claimStale, dueAt>>
      BY <1>0, <1>9, <3>1 DEF TypeOK, RowTypeOK, Retry
    <3>2. CASE Release(job[w], "later")
      BY <1>0, <1>9, <2>1, <3>2 DEF TypeOK, RowTypeOK, Statuses, Retry, Release, LeaveProcessing
    <3>3. QED
      BY <1>9, <3>1, <3>2 DEF Retry
  <2>4. JobsTypeOK'
    BY <1>0, <1>9, <2>1 DEF TypeOK, JobsTypeOK, Retry, Goto, Release,
         LeaveProcessing, Enqueue
  <2>5. WorkersTypeOK'
    BY <1>0, <1>9, <2>1 DEF TypeOK, WorkersTypeOK, Stages, Verdicts, Retry,
         Goto, Release, LeaveProcessing, Enqueue
  <2>6. RecordsTypeOK'
    BY <1>0, <1>9, <2>1 DEF TypeOK, RecordsTypeOK, Retry
  <2>7. QED
    BY <2>2, <2>3, <2>4, <2>5, <2>6 DEF TypeOK
<1>10. ASSUME NEW w \in Workers, Fail(w)
      PROVE  Goal
  <2>1. job[w] \in Notifications
    BY <1>0, <1>10 DEF HandlerHasJob, Fail
  <2>2. HandlerHasJob'
    BY <1>0, <1>10, <2>1 DEF HandlerHasJob, TypeOK, WorkersTypeOK, Stages,
         Fail, Goto, LeaveProcessing
  <2>3. RowTypeOK'
    BY <1>0, <1>10, <2>1 DEF TypeOK, RowTypeOK, Statuses, Fail, Goto,
         LeaveProcessing
  <2>4. JobsTypeOK'
    BY <1>0, <1>10, <2>1 DEF TypeOK, JobsTypeOK, Fail
  <2>5. WorkersTypeOK'
    BY <1>0, <1>10, <2>1 DEF TypeOK, WorkersTypeOK, Stages, Verdicts, Fail,
         Goto, LeaveProcessing
  <2>6. RecordsTypeOK'
    BY <1>0, <1>10, <2>1 DEF TypeOK, RecordsTypeOK, Fail
  <2>7. QED
    BY <2>2, <2>3, <2>4, <2>5, <2>6 DEF TypeOK
<1>11. ASSUME NEW w \in Workers, DeferQuietly(w)
      PROVE  Goal
  <2>1. job[w] \in Notifications
    BY <1>0, <1>11 DEF HandlerHasJob, DeferQuietly
  <2>2. HandlerHasJob'
    BY <1>0, <1>11, <2>1 DEF HandlerHasJob, TypeOK, WorkersTypeOK, Stages,
         DeferQuietly, Goto, Release, LeaveProcessing, Enqueue
  <2>3. RowTypeOK'
    BY <1>0, <1>11, <2>1, ZenonT(60) DEF TypeOK, RowTypeOK, Statuses, DeferQuietly, Goto,
         Release, LeaveProcessing, Enqueue
  <2>4. JobsTypeOK'
    BY <1>0, <1>11, <2>1 DEF TypeOK, JobsTypeOK, DeferQuietly, Goto, Release,
         LeaveProcessing, Enqueue
  <2>5. WorkersTypeOK'
    BY <1>0, <1>11, <2>1 DEF TypeOK, WorkersTypeOK, Stages, Verdicts,
         DeferQuietly, Goto, Release, LeaveProcessing, Enqueue
  <2>6. RecordsTypeOK'
    BY <1>0, <1>11, <2>1 DEF TypeOK, RecordsTypeOK, DeferQuietly
  <2>7. QED
    BY <2>2, <2>3, <2>4, <2>5, <2>6 DEF TypeOK
<1>12. ASSUME NEW w \in Workers, HandlerThrows(w)
      PROVE  Goal
  <2>1. job[w] \in Notifications
    BY <1>0, <1>12 DEF HandlerHasJob, HandlerThrows
  <2>2. HandlerHasJob'
    BY <1>0, <1>12, <2>1 DEF HandlerHasJob, TypeOK, WorkersTypeOK, Stages,
         HandlerThrows, LoseHandler, Goto, Fault, GiveBackJob
  <2>3. RowTypeOK'
    BY <1>0, <1>12, <2>1 DEF TypeOK, RowTypeOK, HandlerThrows
  <2>4. JobsTypeOK'
    BY <1>0, <1>12, <2>1 DEF TypeOK, JobsTypeOK, HandlerThrows, LoseHandler,
         Goto, Fault, GiveBackJob
  <2>5. WorkersTypeOK'
    BY <1>0, <1>12, <2>1 DEF TypeOK, WorkersTypeOK, Stages, Verdicts,
         HandlerThrows, LoseHandler, Goto, Fault, GiveBackJob
  <2>6. RecordsTypeOK'
    BY <1>0, <1>12, <2>1 DEF TypeOK, RecordsTypeOK, Outcomes, HandlerThrows,
         LoseHandler, Goto, Fault, GiveBackJob
  <2>7. QED
    BY <2>2, <2>3, <2>4, <2>5, <2>6 DEF TypeOK
<1>13. ASSUME NEW n \in Notifications, ExpireJob(n)
      PROVE  Goal
  <2>1. HandlerHasJob'
    BY <1>0, <1>13 DEF HandlerHasJob, ExpireJob
  <2>2. RowTypeOK'
    BY <1>0, <1>13 DEF TypeOK, RowTypeOK, ExpireJob
  <2>3. JobsTypeOK'
    BY <1>0, <1>13 DEF TypeOK, JobsTypeOK, ExpireJob, GiveBackJob, Fault
  <2>4. WorkersTypeOK'
    BY <1>0, <1>13 DEF TypeOK, WorkersTypeOK, ExpireJob
  <2>5. RecordsTypeOK'
    BY <1>0, <1>13 DEF TypeOK, RecordsTypeOK, Outcomes, ExpireJob,
         GiveBackJob, Fault
  <2>6. QED
    BY <2>1, <2>2, <2>3, <2>4, <2>5 DEF TypeOK
<1>14. ASSUME NEW n \in Notifications, ReleaseClaim(n)
      PROVE  Goal
  <2>1. HandlerHasJob'
    BY <1>0, <1>14 DEF HandlerHasJob, ReleaseClaim
  <2>2. RowTypeOK'
    BY <1>0, <1>14 DEF TypeOK, RowTypeOK, Statuses, ReleaseClaim, Release,
         LeaveProcessing, Enqueue
  <2>3. JobsTypeOK'
    BY <1>0, <1>14 DEF TypeOK, JobsTypeOK, ReleaseClaim, Release,
         LeaveProcessing, Enqueue
  <2>4. WorkersTypeOK'
    BY <1>0, <1>14 DEF TypeOK, WorkersTypeOK, ReleaseClaim
  <2>5. RecordsTypeOK'
    BY <1>0, <1>14 DEF TypeOK, RecordsTypeOK, Outcomes, ReleaseClaim, Release,
         LeaveProcessing, Enqueue
  <2>6. QED
    BY <2>1, <2>2, <2>3, <2>4, <2>5 DEF TypeOK
<1> USE <1>0 DEF TypeOK, RowTypeOK, JobsTypeOK, WorkersTypeOK, RecordsTypeOK,
     HandlerHasJob
<1>15. ASSUME NEW w \in Workers, NEW n \in Notifications, FetchJob(w, n)
      PROVE  Goal
  BY <1>15 DEF Statuses, Stages, Verdicts, FetchJob
<1>16. ASSUME NEW w \in Workers, PromoteScheduled(w)
      PROVE  Goal
  BY <1>16 DEF Statuses, Stages, Verdicts, PromoteScheduled, Goto
<1>17. ASSUME NEW w \in Workers, ExplainFailedClaim(w)
      PROVE  Goal
  BY <1>17 DEF Statuses, Stages, Verdicts, ExplainFailedClaim, Goto
<1>18. ASSUME NEW w \in Workers, Reschedule(w)
      PROVE  Goal
  BY <1>18 DEF Statuses, Stages, Verdicts, Reschedule, Goto, Enqueue
<1>19. ASSUME NEW w \in Workers, CompleteJob(w)
      PROVE  Goal
  BY <1>19 DEF Statuses, Stages, Verdicts, CompleteJob
<1>20. ASSUME NEW w \in Workers, Crash(w)
      PROVE  Goal
  BY <1>20 DEF Statuses, Stages, Verdicts, Crash, LoseHandler, Goto, Fault
<1>21. ASSUME NEW n \in Notifications, Cancel(n)
      PROVE  Goal
  BY <1>21 DEF Statuses, Stages, Verdicts, Cancel
<1>22. ASSUME NEW n \in Notifications, RowComesDue(n)
      PROVE  Goal
  BY <1>22 DEF Statuses, Stages, Verdicts, RowComesDue
<1>23. ASSUME NEW n \in Notifications, JobComesDue(n)
      PROVE  Goal
  BY <1>23 DEF Statuses, Stages, Verdicts, JobComesDue
<1>24. ASSUME NEW n \in Notifications, WindowCloses(n)
      PROVE  Goal
  BY <1>24 DEF Statuses, Stages, Verdicts, WindowCloses
<1>25. ASSUME NEW n \in Notifications, ClaimGoesStale(n)
      PROVE  Goal
  BY <1>25 DEF Statuses, Stages, Verdicts, ClaimGoesStale, Fault
<1>26. ASSUME NEW n \in Notifications, RequeueDue(n)
      PROVE  Goal
  BY <1>26 DEF Statuses, Stages, Verdicts, RequeueDue, Enqueue
<1>27. ASSUME FindStuckClaims
      PROVE  Goal
  BY <1>27 DEF Statuses, Stages, Verdicts, FindStuckClaims, StuckClaims
<1>28. ASSUME FindDueForDispatch
      PROVE  Goal
  BY <1>28 DEF Statuses, Stages, Verdicts, FindDueForDispatch, DueForDispatch
<1>29. ASSUME MaintenanceDies
      PROVE  Goal
  BY <1>29 DEF Statuses, Stages, Verdicts, MaintenanceDies, Fault
<1>30. CASE UNCHANGED vars
  BY <1>30 DEF vars
<1>31. QED
  BY <1>1, <1>2, <1>3, <1>4, <1>5, <1>6, <1>7, <1>8, <1>9, <1>10, <1>11,
       <1>12, <1>13, <1>14, <1>15, <1>16, <1>17, <1>18, <1>19, <1>20, <1>21,
       <1>22, <1>23, <1>24, <1>25, <1>26, <1>27, <1>28, <1>29, <1>30 DEF Next,
       HandlerStep, RepairStep, TimeStep

(* The ledger stays ahead of the network, and the attempt a handler works   *)
(* on stays in it.                                                          *)
LEMMA LedgerStep ==
    ASSUME IInv, WorkersTypeOK', RecordsTypeOK', HandlerHasJob', [Next]_vars
    PROVE  LedgerAhead' /\ AttemptInLedger' /\ HolderSawClosedLedger'
<1> USE DispatchAssumption DEF row, jobs, worker, repair, network
<1> DEFINE Goal == LedgerAhead' /\ AttemptInLedger' /\ HolderSawClosedLedger'
<1>0. /\ TypeOK /\ HandlerHasJob /\ LedgerAhead /\ AttemptInLedger
      /\ HolderSawClosedLedger
  BY DEF IInv
<1>1. ASSUME NEW w \in Workers, ClaimForDispatch(w)
      PROVE  Goal
  <2>1. job[w] \in Notifications
    BY <1>0, <1>1 DEF HandlerHasJob, ClaimForDispatch
  <2>2. LedgerAhead'
    BY <1>0, <1>1, <2>1 DEF TypeOK, WorkersTypeOK, RecordsTypeOK, Stages,
         LedgerAhead, ClaimForDispatch, Goto
  <2>3. AttemptInLedger'
    BY <1>0, <1>1, <2>1 DEF TypeOK, WorkersTypeOK, RecordsTypeOK, Stages,
         AttemptInLedger, HandlerHasJob, ClaimForDispatch, Goto
  <2>4. HolderSawClosedLedger'
    <3> SUFFICES ASSUME NEW u \in Workers, pc'[u] \in {"preparing", "beginning"},
                        claimToken'[job'[u]] = u, NEW k \in DOMAIN ledger'[job'[u]]
                 PROVE  ledger'[job'[u]][k] # "open"
      BY DEF HolderSawClosedLedger
    <3>1. pc[u] = pc'[u] /\ job[u] = job'[u] /\ job[u] \in Notifications
      BY <1>0, <1>1, <2>1 DEF TypeOK, WorkersTypeOK, HandlerHasJob, ClaimForDispatch, Goto
    <3>2. claimToken[job[u]] = u
      BY <1>0, <1>1, <2>1, <3>1 DEF TypeOK, RowTypeOK, ClaimForDispatch, Goto
    <3>3. QED
      BY <1>0, <1>1, <3>1, <3>2 DEF HolderSawClosedLedger, ClaimForDispatch
  <2>5. QED
    BY <2>2, <2>3, <2>4
<1>2. ASSUME NEW w \in Workers, CheckLedger(w)
      PROVE  Goal
  <2>1. job[w] \in Notifications
    BY <1>0, <1>2 DEF HandlerHasJob, CheckLedger
  <2>2. LedgerAhead'
    BY <1>0, <1>2, <2>1 DEF TypeOK, WorkersTypeOK, RecordsTypeOK, Stages,
         LedgerAhead, CheckLedger, Goto, Decide, Unresolved
  <2>3. AttemptInLedger'
    BY <1>0, <1>2, <2>1, FirstUnresolvedIsOpen DEF TypeOK, WorkersTypeOK,
         Stages, AttemptInLedger, HandlerHasJob, CheckLedger, Goto, Decide
  <2>4. HolderSawClosedLedger'
    <3> SUFFICES ASSUME NEW u \in Workers, pc'[u] \in {"preparing", "beginning"},
                        claimToken'[job'[u]] = u, NEW k \in DOMAIN ledger'[job'[u]]
                 PROVE  ledger'[job'[u]][k] # "open"
      BY DEF HolderSawClosedLedger
    <3>1. CASE u = w
      BY <1>0, <1>2, <2>1, <3>1 DEF TypeOK, WorkersTypeOK, CheckLedger, Goto, Decide,
           Unresolved
    <3>2. CASE u # w
      BY <1>0, <1>2, <2>1, <3>2 DEF TypeOK, WorkersTypeOK, HolderSawClosedLedger,
           CheckLedger, Goto, Decide
    <3>3. QED
      BY <3>1, <3>2
  <2>5. QED
    BY <2>2, <2>3, <2>4
<1>3. ASSUME NEW w \in Workers, Prepare(w)
      PROVE  Goal
  <2>1. job[w] \in Notifications
    BY WaysOutAre, <1>0, <1>3 DEF HandlerHasJob, Prepare
  <2>2. LedgerAhead'
    BY WaysOutAre, <1>0, <1>3, <2>1 DEF TypeOK, WorkersTypeOK, RecordsTypeOK, Stages,
         LedgerAhead, Prepare, Goto, Decide
  <2>3. AttemptInLedger'
    BY WaysOutAre, <1>0, <1>3, <2>1 DEF TypeOK, WorkersTypeOK, RecordsTypeOK, Stages,
         AttemptInLedger, HandlerHasJob, Prepare, Goto, Decide
  <2>4. HolderSawClosedLedger'
    BY WaysOutAre, <1>0, <1>3, <2>1 DEF TypeOK, WorkersTypeOK, RecordsTypeOK, Stages,
         RowTypeOK, HolderSawClosedLedger, HandlerHasJob, Prepare, Goto,
         Decide
  <2>5. QED
    BY <2>2, <2>3, <2>4
<1>4. ASSUME NEW w \in Workers, BeginAttempt(w)
      PROVE  Goal
  <2>1. job[w] \in Notifications
    BY <1>0, <1>4 DEF HandlerHasJob, BeginAttempt
  <2>2. CASE ~OwnsClaim(w)
    BY <1>0, <1>4, <2>1, <2>2 DEF TypeOK, WorkersTypeOK, RecordsTypeOK, Stages,
         LedgerAhead, AttemptInLedger, HolderSawClosedLedger, HandlerHasJob,
         BeginAttempt, Goto
  <2>3. CASE OwnsClaim(w)
    <3>1. ledger' = [ledger EXCEPT ![job[w]] = Append(@, "open")]
      BY <1>4, <2>3 DEF BeginAttempt
    <3> DEFINE n == job[w]
               last == Len(ledger[n]) + 1
    <3>2. /\ Len(ledger[n]) \in Nat /\ DOMAIN ledger[n] = 1 .. Len(ledger[n])
          /\ Len(ledger'[n]) = last /\ DOMAIN ledger'[n] = 1 .. last
          /\ \A m \in Notifications : m # n => ledger'[m] = ledger[m]
          /\ \A j \in DOMAIN ledger[n] : ledger'[n][j] = ledger[n][j]
      BY <1>0, <2>1, <3>1, BeginLedger DEF TypeOK
    <3>3. \A k \in DOMAIN ledger[n] : ledger[n][k] # "open"
      BY <1>0, <1>4, <2>1, <2>3 DEF HolderSawClosedLedger, BeginAttempt, OwnsClaim
    <3>4. /\ attempt' = [attempt EXCEPT ![w] = last]
          /\ pc' = [pc EXCEPT ![w] = IF last > MaximumAttempts THEN "deciding"
                                                               ELSE "sending"]
          /\ UNCHANGED <<job, contacted, claimToken>>
      BY <1>4, <2>3 DEF BeginAttempt, BudgetSpent, Decide, Goto
    <3>5. LedgerAhead'
      <4> SUFFICES ASSUME NEW m \in Notifications
                   PROVE  /\ contacted[m] \subseteq DOMAIN ledger'[m]
                          /\ \A k \in DOMAIN ledger'[m] :
                                k < Len(ledger'[m]) => ledger'[m][k] # "open"
        BY <3>4 DEF LedgerAhead
      <4>1. CASE m = n
        <5>1. contacted[n] \subseteq 1 .. last
          BY <1>0, <2>1, <3>2 DEF LedgerAhead
        <5>2. \A k \in 1 .. last : k < last => ledger'[n][k] # "open"
          BY <3>2, <3>3
        <5>3. QED
          BY <3>2, <4>1, <5>1, <5>2
      <4>2. CASE m # n
        BY <1>0, <3>2, <4>2 DEF LedgerAhead
      <4>3. QED
        BY <4>1, <4>2
    <3>6. AttemptInLedger'
      <4> SUFFICES ASSUME NEW u \in Workers,
                          pc'[u] \in {"sending", "recording", "refused", "unknown"}
                   PROVE  /\ attempt'[u] \in DOMAIN ledger'[job'[u]]
                          /\ pc'[u] = "sending" => attempt'[u] \in 1 .. MaximumAttempts
        BY DEF AttemptInLedger
      <4>1. CASE u = w
        BY <1>0, <2>1, <3>2, <3>4, <4>1 DEF TypeOK, WorkersTypeOK
      <4>2. CASE u # w
        <5>1. pc[u] = pc'[u] /\ attempt[u] = attempt'[u] /\ job[u] = job'[u]
          BY <1>0, <3>4, <4>2 DEF TypeOK, WorkersTypeOK
        <5>2. job[u] \in Notifications /\ attempt[u] \in DOMAIN ledger[job[u]]
          BY <1>0, <5>1 DEF HandlerHasJob, AttemptInLedger
        <5>3. attempt[u] \in DOMAIN ledger'[job[u]]
          BY <3>2, <5>2
        <5>4. QED
          BY <1>0, <5>1, <5>3 DEF AttemptInLedger
      <4>3. QED
        BY <4>1, <4>2
    <3>7. HolderSawClosedLedger'
      <4> SUFFICES ASSUME NEW u \in Workers, pc'[u] \in {"preparing", "beginning"},
                          claimToken'[job'[u]] = u
                   PROVE  \A k \in DOMAIN ledger'[job'[u]] : ledger'[job'[u]][k] # "open"
        BY DEF HolderSawClosedLedger
      <4>1. u # w /\ pc[u] = pc'[u] /\ job[u] = job'[u] /\ claimToken[job[u]] = u
        BY <1>0, <3>4 DEF TypeOK, WorkersTypeOK
      <4>2. job[u] \in Notifications /\ job[u] # n
        BY <1>0, <2>3, <4>1 DEF OwnsClaim, HandlerHasJob
      <4>3. QED
        BY <1>0, <3>2, <4>1, <4>2 DEF HolderSawClosedLedger
    <3>8. QED
      BY <3>5, <3>6, <3>7
  <2>4. QED
    BY <2>2, <2>3
<1>5. ASSUME NEW w \in Workers, SendTextMessage(w)
      PROVE  Goal
  <2>1. job[w] \in Notifications
    BY <1>0, <1>5 DEF HandlerHasJob, SendTextMessage
  <2>2. LedgerAhead'
    BY <1>0, <1>5, <2>1 DEF TypeOK, RecordsTypeOK, LedgerAhead,
         AttemptInLedger, SendTextMessage
  <2>3. AttemptInLedger'
    BY <1>0, <1>5, <2>1 DEF TypeOK, WorkersTypeOK, RecordsTypeOK, Stages,
         AttemptInLedger, HandlerHasJob, SendTextMessage, Answers, Goto
  <2>4. HolderSawClosedLedger'
    <3> SUFFICES ASSUME NEW u \in Workers, pc'[u] \in {"preparing", "beginning"},
                        claimToken'[job'[u]] = u, NEW k \in DOMAIN ledger'[job'[u]]
                 PROVE  ledger'[job'[u]][k] # "open"
      BY DEF HolderSawClosedLedger
    <3>1. pc[u] = pc'[u] /\ job[u] = job'[u] /\ job[u] \in Notifications
      BY <1>0, <1>5, <2>1 DEF TypeOK, WorkersTypeOK, HandlerHasJob, SendTextMessage, Answers, Goto
    <3>2. claimToken[job[u]] = u
      BY <1>0, <1>5, <2>1, <3>1 DEF TypeOK, RowTypeOK, SendTextMessage, Answers, Goto
    <3>3. QED
      BY <1>0, <1>5, <3>1, <3>2 DEF HolderSawClosedLedger, SendTextMessage
  <2>5. QED
    BY <2>2, <2>3, <2>4
<1>6. ASSUME NEW w \in Workers, RecordSent(w)
      PROVE  Goal
  <2>1. job[w] \in Notifications
    BY <1>0, <1>6 DEF HandlerHasJob, RecordSent
  <2>2. LedgerAhead'
    BY <1>0, <1>6, <2>1, ResolveLedger DEF TypeOK, RecordsTypeOK,
         LedgerAhead, AttemptInLedger, Outcomes, RecordSent
  <2>3. AttemptInLedger'
    BY <1>0, <1>6, <2>1, ResolveLedger DEF TypeOK, WorkersTypeOK,
         RecordsTypeOK, Stages, HandlerHasJob, AttemptInLedger, Outcomes,
         RecordSent, Goto
  <2>4. HolderSawClosedLedger'
    BY <1>0, <1>6, <2>1, ResolveLedger DEF TypeOK, RowTypeOK, WorkersTypeOK,
         RecordsTypeOK, Stages, HandlerHasJob, AttemptInLedger,
         HolderSawClosedLedger, Outcomes, RecordSent, Goto, LeaveProcessing
  <2>5. QED
    BY <2>2, <2>3, <2>4
<1>7. ASSUME NEW w \in Workers, DeferQuietly(w)
      PROVE  Goal
  <2>1. job[w] \in Notifications
    BY <1>0, <1>7 DEF HandlerHasJob, DeferQuietly
  <2>2. LedgerAhead'
    BY <1>0, <1>7, <2>1 DEF TypeOK, WorkersTypeOK, RecordsTypeOK, Stages,
         LedgerAhead, DeferQuietly, Goto, Release, LeaveProcessing
  <2>3. AttemptInLedger'
    BY <1>0, <1>7, <2>1 DEF TypeOK, WorkersTypeOK, RecordsTypeOK, Stages,
         AttemptInLedger, HandlerHasJob, DeferQuietly, Goto, Release,
         LeaveProcessing
  <2>4. HolderSawClosedLedger'
    <3> SUFFICES ASSUME NEW u \in Workers, pc'[u] \in {"preparing", "beginning"},
                        claimToken'[job'[u]] = u, NEW k \in DOMAIN ledger'[job'[u]]
                 PROVE  ledger'[job'[u]][k] # "open"
      BY DEF HolderSawClosedLedger
    <3>1. pc[u] = pc'[u] /\ job[u] = job'[u] /\ job[u] \in Notifications
      BY <1>0, <1>7, <2>1 DEF TypeOK, WorkersTypeOK, HandlerHasJob, DeferQuietly, Goto, Release,
                         LeaveProcessing
    <3>2. claimToken[job[u]] = u
      BY <1>0, <1>7, <2>1, <3>1 DEF TypeOK, RowTypeOK, DeferQuietly, Goto, Release, LeaveProcessing
    <3>3. QED
      BY <1>0, <1>7, <3>1, <3>2 DEF HolderSawClosedLedger, DeferQuietly
  <2>5. QED
    BY <2>2, <2>3, <2>4
<1>8. ASSUME NEW n \in Notifications, ReleaseClaim(n)
      PROVE  Goal
  <2>1. LedgerAhead'
    BY <1>0, <1>8 DEF TypeOK, WorkersTypeOK, RecordsTypeOK, Stages,
         LedgerAhead, ReleaseClaim, Release, LeaveProcessing
  <2>2. AttemptInLedger'
    BY <1>0, <1>8 DEF TypeOK, WorkersTypeOK, RecordsTypeOK, Stages,
         AttemptInLedger, HandlerHasJob, ReleaseClaim, Release,
         LeaveProcessing
  <2>3. HolderSawClosedLedger'
    <3> SUFFICES ASSUME NEW u \in Workers, pc'[u] \in {"preparing", "beginning"},
                        claimToken'[job'[u]] = u, NEW k \in DOMAIN ledger'[job'[u]]
                 PROVE  ledger'[job'[u]][k] # "open"
      BY DEF HolderSawClosedLedger
    <3>1. pc[u] = pc'[u] /\ job[u] = job'[u] /\ job[u] \in Notifications
      BY <1>0, <1>8 DEF TypeOK, WorkersTypeOK, HandlerHasJob, ReleaseClaim, Release, LeaveProcessing
    <3>2. claimToken[job[u]] = u
      BY <1>0, <1>8, <3>1 DEF TypeOK, RowTypeOK, ReleaseClaim, Release, LeaveProcessing
    <3>3. QED
      BY <1>0, <1>8, <3>1, <3>2 DEF HolderSawClosedLedger, ReleaseClaim
  <2>4. QED
    BY <2>1, <2>2, <2>3
<1> USE <1>0 DEF TypeOK, RowTypeOK, WorkersTypeOK, RecordsTypeOK, LedgerAhead,
     AttemptInLedger, HolderSawClosedLedger, HandlerHasJob, Stages
<1>9. ASSUME NEW w \in Workers, NEW n \in Notifications, FetchJob(w, n)
      PROVE  Goal
  BY <1>9 DEF FetchJob
<1>10. ASSUME NEW w \in Workers, PromoteScheduled(w)
      PROVE  Goal
  BY <1>10 DEF PromoteScheduled, Goto
<1>11. ASSUME NEW w \in Workers, ExplainFailedClaim(w)
      PROVE  Goal
  BY <1>11 DEF ExplainFailedClaim, Goto
<1>12. ASSUME NEW w \in Workers, Reschedule(w)
      PROVE  Goal
  BY <1>12 DEF Reschedule, Goto, Enqueue
<1>13. ASSUME NEW w \in Workers, ResolveRefused(w)
      PROVE  Goal
  BY <1>13, ResolveLedger DEF ResolveRefused, Goto, Decide, Resolve
<1>14. ASSUME NEW w \in Workers, ResolveUnknown(w)
      PROVE  Goal
  BY <1>14, ResolveLedger DEF ResolveUnknown, Goto, Decide, Resolve,
       UnknownVerdict
<1>15. ASSUME NEW w \in Workers, Retry(w)
      PROVE  Goal
  <2>1. job[w] \in Notifications
    BY <1>15 DEF Retry
  <2>2. QED
    BY <1>15, <2>1 DEF Retry, Goto, Release, LeaveProcessing, Enqueue
<1>16. ASSUME NEW w \in Workers, Fail(w)
      PROVE  Goal
  <2>1. job[w] \in Notifications
    BY <1>16 DEF Fail
  <2>2. QED
    BY <1>16, <2>1 DEF Fail, Goto, LeaveProcessing
<1>17. ASSUME NEW w \in Workers, CompleteJob(w)
      PROVE  Goal
  BY <1>17 DEF CompleteJob
<1>18. ASSUME NEW w \in Workers, Crash(w)
      PROVE  Goal
  BY <1>18 DEF Crash, LoseHandler, Goto
<1>19. ASSUME NEW w \in Workers, HandlerThrows(w)
      PROVE  Goal
  BY <1>19 DEF HandlerThrows, LoseHandler, Goto, GiveBackJob
<1>20. ASSUME NEW n \in Notifications, Cancel(n)
      PROVE  Goal
  BY <1>20 DEF Cancel
<1>21. ASSUME NEW n \in Notifications, RowComesDue(n)
      PROVE  Goal
  BY <1>21 DEF RowComesDue
<1>22. ASSUME NEW n \in Notifications, JobComesDue(n)
      PROVE  Goal
  BY <1>22 DEF JobComesDue
<1>23. ASSUME NEW n \in Notifications, WindowCloses(n)
      PROVE  Goal
  BY <1>23 DEF WindowCloses
<1>24. ASSUME NEW n \in Notifications, ClaimGoesStale(n)
      PROVE  Goal
  BY <1>24 DEF ClaimGoesStale
<1>25. ASSUME NEW n \in Notifications, ExpireJob(n)
      PROVE  Goal
  BY <1>25 DEF ExpireJob, GiveBackJob
<1>26. ASSUME NEW n \in Notifications, RequeueDue(n)
      PROVE  Goal
  BY <1>26 DEF RequeueDue, Enqueue
<1>27. ASSUME FindStuckClaims
      PROVE  Goal
  BY <1>27 DEF FindStuckClaims, StuckClaims
<1>28. ASSUME FindDueForDispatch
      PROVE  Goal
  BY <1>28 DEF FindDueForDispatch, DueForDispatch
<1>29. ASSUME MaintenanceDies
      PROVE  Goal
  BY <1>29 DEF MaintenanceDies
<1>30. CASE UNCHANGED vars
  BY <1>30 DEF vars
<1>31. QED
  BY <1>1, <1>2, <1>3, <1>4, <1>5, <1>6, <1>7, <1>8, <1>9, <1>10, <1>11,
       <1>12, <1>13, <1>14, <1>15, <1>16, <1>17, <1>18, <1>19, <1>20, <1>21,
       <1>22, <1>23, <1>24, <1>25, <1>26, <1>27, <1>28, <1>29, <1>30 DEF Next,
       HandlerStep, RepairStep, TimeStep

(* An attempt is handed to one sender, who uses it once.                    *)
LEMMA BudgetStep ==
    ASSUME IInv, [Next]_vars
    PROVE  BudgetKept' /\ AttemptHasOneSender'
<1> USE DispatchAssumption DEF row, jobs, worker, repair, network
<1> DEFINE Goal == BudgetKept' /\ AttemptHasOneSender'
<1>0. /\ TypeOK /\ HandlerHasJob /\ LedgerAhead /\ AttemptInLedger
      /\ BudgetKept /\ AttemptHasOneSender
  BY DEF IInv
<1>1. ASSUME NEW w \in Workers, CheckLedger(w)
      PROVE  Goal
  <2>1. job[w] \in Notifications
    BY <1>0, <1>1 DEF HandlerHasJob, CheckLedger
  <2>2. /\ pc'[w] \notin {"sending", "recording", "refused"}
        /\ \A u \in Workers : u # w =>
              pc'[u] = pc[u] /\ attempt'[u] = attempt[u]
        /\ UNCHANGED <<job, contacted>>
    BY <1>0, <1>1 DEF TypeOK, WorkersTypeOK, CheckLedger, Goto, Decide
  <2>3. BudgetKept'
    BY <1>0, <2>2 DEF BudgetKept
  <2>4. AttemptHasOneSender'
    BY <1>0, <2>2 DEF AttemptHasOneSender
  <2>5. QED
    BY <2>3, <2>4
<1>2. ASSUME NEW w \in Workers, BeginAttempt(w)
      PROVE  Goal
  <2>1. job[w] \in Notifications
    BY <1>0, <1>2 DEF HandlerHasJob, BeginAttempt
  <2>2. CASE ~OwnsClaim(w)
    <3>1. /\ pc' = [pc EXCEPT ![w] = "done"]
          /\ UNCHANGED <<job, attempt, contacted>>
      BY <1>2, <2>2 DEF BeginAttempt, Goto
    <3>2. QED
      BY <1>0, <3>1 DEF TypeOK, WorkersTypeOK, BudgetKept, AttemptHasOneSender
  <2>3. CASE OwnsClaim(w)
    <3> DEFINE n == job[w]
               last == Len(ledger[n]) + 1
    <3>1. /\ attempt' = [attempt EXCEPT ![w] = last]
          /\ \A u \in Workers : u # w => pc'[u] = pc[u]
          /\ UNCHANGED <<job, contacted>>
      BY <1>0, <1>2, <2>3 DEF TypeOK, WorkersTypeOK, BeginAttempt, Decide, Goto
    <3>2. Len(ledger[n]) \in Nat /\ DOMAIN ledger[n] = 1 .. Len(ledger[n])
      BY <1>0, <2>1, LenProperties DEF TypeOK, RecordsTypeOK
    <3>3. last \notin DOMAIN ledger[n] /\ last \notin contacted[n]
      BY <1>0, <2>1, <3>2 DEF LedgerAhead
    <3> HIDE DEF last
    <3>4. attempt'[w] = last /\ \A u \in Workers : u # w => attempt'[u] = attempt[u]
      BY <1>0, <3>1 DEF TypeOK, WorkersTypeOK
    <3>5. BudgetKept'
      BY <1>0, <3>1, <3>3, <3>4 DEF BudgetKept
    <3>6. \A u \in Workers :
             u # w /\ pc'[u] \in {"sending", "recording", "refused"} /\ job[u] = n
                => attempt'[u] # last
      BY <1>0, <3>1, <3>3, <3>4 DEF AttemptInLedger
    <3>7. AttemptHasOneSender'
      BY <1>0, <3>1, <3>4, <3>6 DEF AttemptHasOneSender
    <3>8. QED
      BY <3>5, <3>7
  <2>4. QED
    BY <2>2, <2>3
<1> USE <1>0 DEF TypeOK, WorkersTypeOK, RecordsTypeOK, BudgetKept,
     AttemptHasOneSender, AttemptInLedger, HandlerHasJob, Stages
<1>3. ASSUME NEW w \in Workers, NEW n \in Notifications, FetchJob(w, n)
      PROVE  Goal
  BY <1>3 DEF FetchJob
<1>4. ASSUME NEW w \in Workers, PromoteScheduled(w)
      PROVE  Goal
  BY <1>4 DEF PromoteScheduled, Goto
<1>5. ASSUME NEW w \in Workers, ClaimForDispatch(w)
      PROVE  Goal
  BY <1>5, ZenonT(60) DEF ClaimForDispatch, Goto, Claimable
<1>6. ASSUME NEW w \in Workers, ExplainFailedClaim(w)
      PROVE  Goal
  BY <1>6 DEF ExplainFailedClaim, Goto
<1>7. ASSUME NEW w \in Workers, Reschedule(w)
      PROVE  Goal
  BY <1>7 DEF Reschedule, Goto, Enqueue
<1>8. ASSUME NEW w \in Workers, Prepare(w)
      PROVE  Goal
  BY WaysOutAre, <1>8, ZenonT(60) DEF Prepare, Goto, Decide
<1>9. ASSUME NEW w \in Workers, SendTextMessage(w)
      PROVE  Goal
  BY <1>9 DEF SendTextMessage, Answers, Goto
<1>10. ASSUME NEW w \in Workers, RecordSent(w)
      PROVE  Goal
  BY <1>10 DEF RecordSent, Goto, LeaveProcessing, Resolve
<1>11. ASSUME NEW w \in Workers, ResolveRefused(w)
      PROVE  Goal
  BY <1>11, ZenonT(60) DEF ResolveRefused, Goto, Decide, Resolve
<1>12. ASSUME NEW w \in Workers, ResolveUnknown(w)
      PROVE  Goal
  BY <1>12 DEF ResolveUnknown, Goto, Decide, Resolve, UnknownVerdict
<1>13. ASSUME NEW w \in Workers, Retry(w)
      PROVE  Goal
  BY <1>13 DEF Retry, Goto, Release, LeaveProcessing, Enqueue
<1>14. ASSUME NEW w \in Workers, Fail(w)
      PROVE  Goal
  BY <1>14 DEF Fail, Goto, LeaveProcessing
<1>15. ASSUME NEW w \in Workers, DeferQuietly(w)
      PROVE  Goal
  BY <1>15 DEF DeferQuietly, Goto, Release, LeaveProcessing, Enqueue
<1>16. ASSUME NEW w \in Workers, CompleteJob(w)
      PROVE  Goal
  BY <1>16 DEF CompleteJob
<1>17. ASSUME NEW w \in Workers, Crash(w)
      PROVE  Goal
  BY <1>17 DEF Crash, LoseHandler, Goto
<1>18. ASSUME NEW w \in Workers, HandlerThrows(w)
      PROVE  Goal
  BY <1>18 DEF HandlerThrows, LoseHandler, Goto, GiveBackJob
<1>19. ASSUME NEW n \in Notifications, Cancel(n)
      PROVE  Goal
  BY <1>19 DEF Cancel
<1>20. ASSUME NEW n \in Notifications, RowComesDue(n)
      PROVE  Goal
  BY <1>20 DEF RowComesDue
<1>21. ASSUME NEW n \in Notifications, JobComesDue(n)
      PROVE  Goal
  BY <1>21 DEF JobComesDue
<1>22. ASSUME NEW n \in Notifications, WindowCloses(n)
      PROVE  Goal
  BY <1>22 DEF WindowCloses
<1>23. ASSUME NEW n \in Notifications, ClaimGoesStale(n)
      PROVE  Goal
  BY <1>23 DEF ClaimGoesStale
<1>24. ASSUME NEW n \in Notifications, ExpireJob(n)
      PROVE  Goal
  BY <1>24 DEF ExpireJob, GiveBackJob
<1>25. ASSUME NEW n \in Notifications, ReleaseClaim(n)
      PROVE  Goal
  BY <1>25 DEF ReleaseClaim, Release, LeaveProcessing, Enqueue
<1>26. ASSUME NEW n \in Notifications, RequeueDue(n)
      PROVE  Goal
  BY <1>26 DEF RequeueDue, Enqueue
<1>27. ASSUME FindStuckClaims
      PROVE  Goal
  BY <1>27 DEF FindStuckClaims, StuckClaims
<1>28. ASSUME FindDueForDispatch
      PROVE  Goal
  BY <1>28 DEF FindDueForDispatch, DueForDispatch
<1>29. ASSUME MaintenanceDies
      PROVE  Goal
  BY <1>29 DEF MaintenanceDies
<1>30. CASE UNCHANGED vars
  BY <1>30 DEF vars
<1>31. QED
  BY <1>1, <1>2, <1>3, <1>4, <1>5, <1>6, <1>7, <1>8, <1>9, <1>10, <1>11,
       <1>12, <1>13, <1>14, <1>15, <1>16, <1>17, <1>18, <1>19, <1>20, <1>21,
       <1>22, <1>23, <1>24, <1>25, <1>26, <1>27, <1>28, <1>29, <1>30 DEF Next,
       HandlerStep, RepairStep, TimeStep

(* No step makes the ledger, or a handler, belie what WhatsApp did.         *)
LEMMA AnswersStep ==
    ASSUME IInv, [Next]_vars
    PROVE  AnswersAreHonest'
<1> USE DispatchAssumption DEF row, jobs, worker, repair, network
<1> DEFINE Goal == AnswersAreHonest'
<1>0. /\ TypeOK /\ HandlerHasJob /\ LedgerAhead /\ AttemptInLedger
      /\ AttemptHasOneSender /\ BudgetKept /\ AnswersAreHonest
  BY DEF IInv
<1>1. ASSUME NEW w \in Workers, BeginAttempt(w)
      PROVE  Goal
  <2>1. job[w] \in Notifications
    BY <1>0, <1>1 DEF HandlerHasJob, BeginAttempt
  <2>2. CASE ~OwnsClaim(w)
    <3>1. /\ pc' = [pc EXCEPT ![w] = "done"]
          /\ UNCHANGED <<job, attempt, contacted, delivered, ledger>>
      BY <1>1, <2>2 DEF BeginAttempt, Goto
    <3>2. QED
      BY <1>0, <3>1 DEF TypeOK, WorkersTypeOK, AnswersAreHonest
  <2>3. CASE OwnsClaim(w)
    <3> DEFINE n == job[w]
               last == Len(ledger[n]) + 1
    <3>1. /\ ledger' = [ledger EXCEPT ![n] = Append(@, "open")]
          /\ attempt' = [attempt EXCEPT ![w] = last]
          /\ pc'[w] \notin {"recording", "refused"}
          /\ \A u \in Workers : u # w => pc'[u] = pc[u]
          /\ UNCHANGED <<job, contacted, delivered>>
      BY <1>0, <1>1, <2>3 DEF TypeOK, WorkersTypeOK, BeginAttempt, Decide, Goto
    <3>2. /\ \A m \in Notifications : \A k \in DOMAIN ledger[m] :
                ledger'[m][k] = ledger[m][k]
          /\ ledger'[n][last] = "open"
      BY <1>0, <2>1, <3>1, BeginLedger DEF TypeOK
    <3> HIDE DEF last
    <3>3. attempt'[w] = last /\ \A u \in Workers : u # w => attempt'[u] = attempt[u]
      BY <1>0, <3>1 DEF TypeOK, WorkersTypeOK
    <3>4. \A m \in Notifications : \A k \in delivered[m] : ledger'[m][k] # "FAILED"
      BY <1>0, <3>2 DEF AnswersAreHonest, LedgerAhead
    <3>5. \A u \in Workers : pc'[u] = "sending" => ledger'[job[u]][attempt'[u]] # "FAILED"
      <4> SUFFICES ASSUME NEW u \in Workers, pc'[u] = "sending"
                   PROVE  ledger'[job[u]][attempt'[u]] # "FAILED"
        OBVIOUS
      <4>1. CASE u = w
        BY <3>2, <3>3, <4>1
      <4>2. CASE u # w
        BY <1>0, <3>1, <3>2, <3>3, <4>2 DEF AnswersAreHonest, AttemptInLedger,
             HandlerHasJob
      <4>3. QED
        BY <4>1, <4>2
    <3>6. QED
      BY <1>0, <3>1, <3>3, <3>4, <3>5 DEF AnswersAreHonest
  <2>4. QED
    BY <2>2, <2>3
<1>2. ASSUME NEW w \in Workers, SendTextMessage(w)
      PROVE  Goal
  <2>1. job[w] \in Notifications
    BY <1>0, <1>2 DEF HandlerHasJob, SendTextMessage
  <2>2. /\ contacted' = [contacted EXCEPT ![job[w]] = @ \cup {attempt[w]}]
        /\ \A u \in Workers : u # w => pc'[u] = pc[u]
        /\ pc'[w] \in {"recording", "refused", "unknown"}
        /\ UNCHANGED <<job, attempt, ledger>>
    BY <1>0, <1>2 DEF TypeOK, WorkersTypeOK, SendTextMessage, Answers, Goto
  <2>3. CASE delivered' = [delivered EXCEPT ![job[w]] = @ \cup {attempt[w]}]
             /\ pc'[w] # "refused"
    <3>1. ledger[job[w]][attempt[w]] # "FAILED"
      BY <1>0, <1>2 DEF AnswersAreHonest, SendTextMessage
    <3>2. \A m \in Notifications :
             /\ delivered'[m] = IF m = job[w] THEN delivered[m] \cup {attempt[w]}
                                              ELSE delivered[m]
             /\ contacted'[m] = IF m = job[w] THEN contacted[m] \cup {attempt[w]}
                                              ELSE contacted[m]
      BY <1>0, <2>2, <2>3 DEF TypeOK, RecordsTypeOK
    <3>3. \A m \in Notifications :
             /\ delivered'[m] \subseteq contacted'[m]
             /\ \A k \in delivered'[m] : ledger'[m][k] # "FAILED"
      <4>1. TAKE m \in Notifications
      <4>2. delivered[m] \subseteq contacted[m]
            /\ \A k \in delivered[m] : ledger[m][k] # "FAILED"
        BY <1>0 DEF AnswersAreHonest
      <4>3. CASE m = job[w]
        <5>1. delivered'[m] = delivered[m] \cup {attempt[w]}
              /\ contacted'[m] = contacted[m] \cup {attempt[w]}
          BY <3>2, <4>3
        <5>2. \A k \in delivered'[m] : ledger[m][k] # "FAILED"
          BY <3>1, <4>2, <4>3, <5>1
        <5>3. ledger' = ledger
          BY <2>2
        <5>4. QED
          BY <4>2, <5>1, <5>2, <5>3
      <4>4. CASE m # job[w]
        BY <2>2, <3>2, <4>2, <4>4
      <4>5. QED
        BY <4>3, <4>4
    <3>4. ASSUME NEW u \in Workers, pc'[u] = "refused"
          PROVE  attempt[u] \notin delivered'[job[u]]
      <4>1. u # w /\ pc[u] = "refused"
        BY <2>2, <2>3, <3>4
      <4>2. job[u] # job[w] \/ attempt[u] # attempt[w]
        BY <1>0, <1>2, <4>1 DEF AttemptHasOneSender, SendTextMessage
      <4>3. QED
        <5>1. job[u] \in Notifications /\ attempt[u] \notin delivered[job[u]]
          BY <1>0, <4>1 DEF AnswersAreHonest, HandlerHasJob
        <5>2. CASE job[u] = job[w]
          BY <3>2, <4>2, <5>1, <5>2
        <5>3. CASE job[u] # job[w]
          BY <3>2, <5>1, <5>3
        <5>4. QED
          BY <5>2, <5>3
    <3>5. ASSUME NEW u \in Workers, pc'[u] = "recording"
          PROVE  attempt[u] \in delivered'[job[u]]
      BY <1>0, <2>1, <2>2, <3>2, <3>5 DEF AnswersAreHonest, HandlerHasJob
    <3>6. \A u \in Workers : pc'[u] = "sending" => ledger'[job[u]][attempt[u]] # "FAILED"
      BY <1>0, <2>2 DEF AnswersAreHonest
    <3>7. QED
      BY <2>2, <3>3, <3>4, <3>5, <3>6 DEF AnswersAreHonest
  <2>4. CASE delivered' = delivered /\ pc'[w] # "recording"
    <3>1. pc'[w] = "refused" => attempt[w] \notin delivered[job[w]]
      BY <1>0, <1>2, <2>1 DEF BudgetKept, AnswersAreHonest, SendTextMessage
    <3>2. QED
      BY <1>0, <1>2, <2>1, <2>2, <2>4, <3>1 DEF TypeOK, RecordsTypeOK,
           AnswersAreHonest, HandlerHasJob
  <2>5. QED
    BY <1>0, <1>2, <2>3, <2>4 DEF TypeOK, WorkersTypeOK, SendTextMessage, Answers, Goto
<1>3. ASSUME NEW w \in Workers, RecordSent(w)
      PROVE  Goal
  <2>1. job[w] \in Notifications
    BY <1>0, <1>3 DEF HandlerHasJob, RecordSent
  <2>2. \A m \in Notifications : \A k \in DOMAIN ledger[m] :
           ledger'[m][k] \in {ledger[m][k], "SUCCEEDED"}
    BY <1>0, <1>3, <2>1, ResolveLedger DEF TypeOK, AttemptInLedger, Outcomes, RecordSent
  <2>3. /\ pc'[w] \notin {"sending", "recording", "refused"}
        /\ \A u \in Workers : u # w => pc'[u] = pc[u]
        /\ UNCHANGED <<job, attempt, contacted, delivered>>
    BY <1>0, <1>3 DEF TypeOK, WorkersTypeOK, RecordSent, Goto
  <2>4. QED
    BY <1>0, <2>2, <2>3 DEF AnswersAreHonest, LedgerAhead, AttemptInLedger, HandlerHasJob
<1>4. ASSUME NEW w \in Workers, ResolveRefused(w)
      PROVE  Goal
  <2>1. job[w] \in Notifications
    BY <1>0, <1>4 DEF HandlerHasJob, ResolveRefused
  <2>2. \A m \in Notifications : \A k \in DOMAIN ledger[m] :
           m # job[w] \/ k # attempt[w] => ledger'[m][k] = ledger[m][k]
    BY <1>0, <1>4, <2>1, ResolveLedger DEF TypeOK, AttemptInLedger, Outcomes,
         ResolveRefused
  <2>3. /\ pc'[w] \notin {"sending", "recording", "refused"}
        /\ \A u \in Workers : u # w => pc'[u] = pc[u]
        /\ UNCHANGED <<job, attempt, contacted, delivered>>
    BY <1>0, <1>4 DEF TypeOK, WorkersTypeOK, ResolveRefused, Goto, Decide
  <2>4. attempt[w] \notin delivered[job[w]]
    BY <1>0, <1>4 DEF AnswersAreHonest, ResolveRefused
  <2>5. \A m \in Notifications : \A k \in delivered[m] : ledger'[m][k] # "FAILED"
    BY <1>0, <2>2, <2>4 DEF AnswersAreHonest, LedgerAhead
  <2>6. ASSUME NEW u \in Workers, pc'[u] = "sending"
        PROVE  ledger'[job[u]][attempt[u]] # "FAILED"
    <3>1. u # w /\ pc[u] = "sending"
      BY <2>3, <2>6
    <3>2. job[u] # job[w] \/ attempt[u] # attempt[w]
      BY <1>0, <1>4, <3>1 DEF AttemptHasOneSender, ResolveRefused
    <3>3. QED
      BY <1>0, <2>2, <3>1, <3>2 DEF AnswersAreHonest, AttemptInLedger, HandlerHasJob
  <2>7. QED
    BY <1>0, <2>3, <2>5, <2>6 DEF AnswersAreHonest
<1> USE <1>0 DEF TypeOK, WorkersTypeOK, RecordsTypeOK, AnswersAreHonest,
     LedgerAhead, AttemptInLedger, HandlerHasJob, Stages
<1>5. ASSUME NEW w \in Workers, NEW n \in Notifications, FetchJob(w, n)
      PROVE  Goal
  BY <1>5 DEF FetchJob
<1>6. ASSUME NEW w \in Workers, PromoteScheduled(w)
      PROVE  Goal
  BY <1>6 DEF PromoteScheduled, Goto
<1>7. ASSUME NEW w \in Workers, ClaimForDispatch(w)
      PROVE  Goal
  BY <1>7 DEF ClaimForDispatch, Goto, Claimable
<1>8. ASSUME NEW w \in Workers, ExplainFailedClaim(w)
      PROVE  Goal
  BY <1>8 DEF ExplainFailedClaim, Goto
<1>9. ASSUME NEW w \in Workers, Reschedule(w)
      PROVE  Goal
  BY <1>9 DEF Reschedule, Goto, Enqueue
<1>10. ASSUME NEW w \in Workers, CheckLedger(w)
      PROVE  Goal
  BY <1>10, ZenonT(60) DEF CheckLedger, Goto, Decide
<1>11. ASSUME NEW w \in Workers, Prepare(w)
      PROVE  Goal
  BY WaysOutAre, <1>11 DEF Prepare, Goto, Decide
<1>12. ASSUME NEW w \in Workers, ResolveUnknown(w)
      PROVE  Goal
  BY <1>12, ResolveLedger DEF ResolveUnknown, Goto, Decide, Resolve,
       UnknownVerdict
<1>13. ASSUME NEW w \in Workers, Retry(w)
      PROVE  Goal
  BY <1>13 DEF Retry, Goto, Release, LeaveProcessing, Enqueue
<1>14. ASSUME NEW w \in Workers, Fail(w)
      PROVE  Goal
  BY <1>14 DEF Fail, Goto, LeaveProcessing
<1>15. ASSUME NEW w \in Workers, DeferQuietly(w)
      PROVE  Goal
  BY <1>15 DEF DeferQuietly, Goto, Release, LeaveProcessing, Enqueue
<1>16. ASSUME NEW w \in Workers, CompleteJob(w)
      PROVE  Goal
  BY <1>16 DEF CompleteJob
<1>17. ASSUME NEW w \in Workers, Crash(w)
      PROVE  Goal
  BY <1>17 DEF Crash, LoseHandler, Goto
<1>18. ASSUME NEW w \in Workers, HandlerThrows(w)
      PROVE  Goal
  BY <1>18 DEF HandlerThrows, LoseHandler, Goto, GiveBackJob
<1>19. ASSUME NEW n \in Notifications, Cancel(n)
      PROVE  Goal
  BY <1>19 DEF Cancel
<1>20. ASSUME NEW n \in Notifications, RowComesDue(n)
      PROVE  Goal
  BY <1>20 DEF RowComesDue
<1>21. ASSUME NEW n \in Notifications, JobComesDue(n)
      PROVE  Goal
  BY <1>21 DEF JobComesDue
<1>22. ASSUME NEW n \in Notifications, WindowCloses(n)
      PROVE  Goal
  BY <1>22 DEF WindowCloses
<1>23. ASSUME NEW n \in Notifications, ClaimGoesStale(n)
      PROVE  Goal
  BY <1>23 DEF ClaimGoesStale
<1>24. ASSUME NEW n \in Notifications, ExpireJob(n)
      PROVE  Goal
  BY <1>24 DEF ExpireJob, GiveBackJob
<1>25. ASSUME NEW n \in Notifications, ReleaseClaim(n)
      PROVE  Goal
  BY <1>25 DEF ReleaseClaim, Release, LeaveProcessing, Enqueue
<1>26. ASSUME NEW n \in Notifications, RequeueDue(n)
      PROVE  Goal
  BY <1>26 DEF RequeueDue, Enqueue
<1>27. ASSUME FindStuckClaims
      PROVE  Goal
  BY <1>27 DEF FindStuckClaims, StuckClaims
<1>28. ASSUME FindDueForDispatch
      PROVE  Goal
  BY <1>28 DEF FindDueForDispatch, DueForDispatch
<1>29. ASSUME MaintenanceDies
      PROVE  Goal
  BY <1>29 DEF MaintenanceDies
<1>30. CASE UNCHANGED vars
  BY <1>30 DEF vars
<1>31. QED
  BY <1>1, <1>2, <1>3, <1>4, <1>5, <1>6, <1>7, <1>8, <1>9, <1>10, <1>11,
       <1>12, <1>13, <1>14, <1>15, <1>16, <1>17, <1>18, <1>19, <1>20, <1>21,
       <1>22, <1>23, <1>24, <1>25, <1>26, <1>27, <1>28, <1>29, <1>30 DEF Next,
       HandlerStep, RepairStep, TimeStep

(* Whoever releases a row leaves a job for it, and no job is used up on a   *)
(* row that is still to be picked up.                                       *)
LEMMA JobsStep ==
    ASSUME IInv, [Next]_vars
    PROVE  RunnerLeavesJob' /\ RetryingHasJob'
<1> USE DispatchAssumption DEF row, jobs, worker, repair, network
<1> DEFINE Goal == RunnerLeavesJob' /\ RetryingHasJob'
<1>0. /\ TypeOK /\ HandlerHasJob /\ RunnerLeavesJob /\ RetryingHasJob
  BY DEF IInv
<1> USE <1>0 DEF TypeOK, RowTypeOK, JobsTypeOK, WorkersTypeOK,
     RunnerLeavesJob, RetryingHasJob, HandlerHasJob, Stages
<1>1. ASSUME NEW w \in Workers, NEW n \in Notifications, FetchJob(w, n)
      PROVE  Goal
  BY <1>1 DEF FetchJob
<1>2. ASSUME NEW w \in Workers, PromoteScheduled(w)
      PROVE  Goal
  BY <1>2 DEF PromoteScheduled, Goto
<1>3. ASSUME NEW w \in Workers, ClaimForDispatch(w)
      PROVE  Goal
  BY <1>3 DEF ClaimForDispatch, Goto, Claimable
<1>4. ASSUME NEW w \in Workers, ExplainFailedClaim(w)
      PROVE  Goal
  BY <1>4 DEF ExplainFailedClaim, Goto
<1>5. ASSUME NEW w \in Workers, Reschedule(w)
      PROVE  Goal
  BY <1>5 DEF Reschedule, Goto, Enqueue
<1>6. ASSUME NEW w \in Workers, CheckLedger(w)
      PROVE  Goal
  BY <1>6 DEF CheckLedger, Goto, Decide
<1>7. ASSUME NEW w \in Workers, Prepare(w)
      PROVE  Goal
  BY WaysOutAre, <1>7 DEF Prepare, Goto, Decide
<1>8. ASSUME NEW w \in Workers, BeginAttempt(w)
      PROVE  Goal
  BY <1>8 DEF BeginAttempt, Goto, Decide, OwnsClaim, BudgetSpent
<1>9. ASSUME NEW w \in Workers, SendTextMessage(w)
      PROVE  Goal
  BY <1>9 DEF SendTextMessage, Answers, Goto
<1>10. ASSUME NEW w \in Workers, RecordSent(w)
      PROVE  Goal
  BY <1>10 DEF RecordSent, Goto, LeaveProcessing, Resolve
<1>11. ASSUME NEW w \in Workers, ResolveRefused(w)
      PROVE  Goal
  BY <1>11 DEF ResolveRefused, Goto, Decide, Resolve
<1>12. ASSUME NEW w \in Workers, ResolveUnknown(w)
      PROVE  Goal
  BY <1>12 DEF ResolveUnknown, Goto, Decide, Resolve, UnknownVerdict
<1>13. ASSUME NEW w \in Workers, Retry(w)
      PROVE  Goal
  BY <1>13 DEF Retry, Goto, Release, LeaveProcessing, Enqueue
<1>14. ASSUME NEW w \in Workers, Fail(w)
      PROVE  Goal
  BY <1>14 DEF Fail, Goto, LeaveProcessing
<1>15. ASSUME NEW w \in Workers, DeferQuietly(w)
      PROVE  Goal
  BY <1>15 DEF DeferQuietly, Goto, Release, LeaveProcessing, Enqueue
<1>16. ASSUME NEW w \in Workers, CompleteJob(w)
      PROVE  Goal
  BY <1>16 DEF CompleteJob
<1>17. ASSUME NEW w \in Workers, Crash(w)
      PROVE  Goal
  BY <1>17 DEF Crash, LoseHandler, Goto
<1>18. ASSUME NEW w \in Workers, HandlerThrows(w)
      PROVE  Goal
  BY <1>18 DEF HandlerThrows, LoseHandler, Goto, GiveBackJob
<1>19. ASSUME NEW n \in Notifications, Cancel(n)
      PROVE  Goal
  BY <1>19 DEF Cancel
<1>20. ASSUME NEW n \in Notifications, RowComesDue(n)
      PROVE  Goal
  BY <1>20 DEF RowComesDue
<1>21. ASSUME NEW n \in Notifications, JobComesDue(n)
      PROVE  Goal
  BY <1>21 DEF JobComesDue
<1>22. ASSUME NEW n \in Notifications, WindowCloses(n)
      PROVE  Goal
  BY <1>22 DEF WindowCloses
<1>23. ASSUME NEW n \in Notifications, ClaimGoesStale(n)
      PROVE  Goal
  BY <1>23 DEF ClaimGoesStale
<1>24. ASSUME NEW n \in Notifications, ExpireJob(n)
      PROVE  Goal
  BY <1>24 DEF ExpireJob, GiveBackJob
<1>25. ASSUME NEW n \in Notifications, ReleaseClaim(n)
      PROVE  Goal
  BY <1>25 DEF ReleaseClaim, Release, LeaveProcessing, Enqueue
<1>26. ASSUME NEW n \in Notifications, RequeueDue(n)
      PROVE  Goal
  BY <1>26 DEF RequeueDue, Enqueue
<1>27. ASSUME FindStuckClaims
      PROVE  Goal
  BY <1>27 DEF FindStuckClaims, StuckClaims
<1>28. ASSUME FindDueForDispatch
      PROVE  Goal
  BY <1>28 DEF FindDueForDispatch, DueForDispatch
<1>29. ASSUME MaintenanceDies
      PROVE  Goal
  BY <1>29 DEF MaintenanceDies
<1>30. CASE UNCHANGED vars
  BY <1>30 DEF vars
<1>31. QED
  BY <1>1, <1>2, <1>3, <1>4, <1>5, <1>6, <1>7, <1>8, <1>9, <1>10, <1>11,
       <1>12, <1>13, <1>14, <1>15, <1>16, <1>17, <1>18, <1>19, <1>20, <1>21,
       <1>22, <1>23, <1>24, <1>25, <1>26, <1>27, <1>28, <1>29, <1>30 DEF Next,
       HandlerStep, RepairStep, TimeStep

(***************************************************************************)
(* The invariant holds.                                                    *)
(***************************************************************************)

LEMMA InitIInv ==
    ASSUME Init
    PROVE  IInv
<1> USE DispatchAssumption
<1>1. \A n \in Notifications : ledger[n] = << >> /\ DOMAIN ledger[n] = {} /\ Len(ledger[n]) = 0
  BY DEF Init
<1>2. TypeOK
  <2>1. status \in [Notifications -> Statuses] /\ RowTypeOK
    BY DEF Init, RowTypeOK, Statuses
  <2>2. JobsTypeOK
    BY DEF Init, JobsTypeOK
  <2>3. WorkersTypeOK
    BY DEF Init, WorkersTypeOK, Stages, Verdicts
  <2>4. ledger \in [Notifications -> Seq(Outcomes)]
    BY EmptySeq DEF Init
  <2>5. RecordsTypeOK
    BY <2>4 DEF Init, RecordsTypeOK
  <2>6. QED
    BY <2>1, <2>2, <2>3, <2>5 DEF TypeOK
<1>3. HandlerHasJob /\ HolderSawClosedLedger /\ AttemptInLedger /\ AttemptHasOneSender
  BY DEF Init, HandlerHasJob, HolderSawClosedLedger, AttemptInLedger, AttemptHasOneSender
<1>4. BudgetKept /\ LedgerAhead /\ AnswersAreHonest
  BY <1>1 DEF Init, BudgetKept, LedgerAhead, AnswersAreHonest
<1>5. RunnerLeavesJob /\ RetryingHasJob
  BY DEF Init, RunnerLeavesJob, RetryingHasJob
<1>6. QED
  BY <1>2, <1>3, <1>4, <1>5 DEF IInv

LEMMA StepIInv ==
    ASSUME IInv, [Next]_vars
    PROVE  IInv'
<1>1. TypeOK' /\ HandlerHasJob'
  BY TypeStep
<1>2. LedgerAhead' /\ AttemptInLedger' /\ HolderSawClosedLedger'
  BY <1>1, LedgerStep DEF TypeOK
<1>3. BudgetKept' /\ AttemptHasOneSender'
  BY BudgetStep
<1>4. AnswersAreHonest'
  BY AnswersStep
<1>5. RunnerLeavesJob' /\ RetryingHasJob'
  BY JobsStep
<1>6. QED
  BY <1>1, <1>2, <1>3, <1>4, <1>5 DEF IInv

(* The inductive invariant holds in every state of the pipeline.            *)
THEOREM Invariance == Spec => []IInv
<1>1. Init => IInv
  BY InitIInv
<1>2. IInv /\ [Next]_vars => IInv'
  BY StepIInv
<1>3. QED
  BY <1>1, <1>2, PTL DEF Spec

(* Rows, jobs, handlers and records keep to their types.                    *)
THEOREM TypeCorrect == Spec => []TypeOK
<1>1. IInv => TypeOK
  BY DEF IInv
<1>2. QED
  BY <1>1, Invariance, PTL

(* deliver() contacts WhatsApp at most MaximumAttempts times for a          *)
(* notification, and once for an attempt number beginAttempt gave out.      *)
THEOREM BudgetTheorem == Spec => []BudgetKept
<1>1. IInv => BudgetKept
  BY DEF IInv
<1>2. QED
  BY <1>1, Invariance, PTL

(* beginAttempt's ledger row is committed before the request it is about,   *)
(* and never over an attempt that is still unresolved.                      *)
THEOREM LedgerTheorem == Spec => []LedgerAhead
<1>1. IInv => LedgerAhead
  BY DEF IInv
<1>2. QED
  BY <1>1, Invariance, PTL

(* deliver() sends again after a message WhatsApp took only where the       *)
(* ledger records that the outcome was unknown, or late that it succeeded.  *)
THEOREM ResendTheorem == Spec => []ResendOnRecord
<1>1. IInv => ResendOnRecord
  <2> SUFFICES ASSUME IInv, NEW n \in Notifications, NEW k \in delivered[n],
                      Len(ledger[n]) > k
               PROVE  ledger[n][k] \in {"UNKNOWN", "SUCCEEDED"}
    BY DEF ResendOnRecord
  <2>1. k \in DOMAIN ledger[n] /\ ledger[n] \in Seq(Outcomes)
    BY DEF IInv, AnswersAreHonest, LedgerAhead, TypeOK, RecordsTypeOK
  <2>2. ledger[n][k] \in Outcomes
    BY <2>1
  <2>3. ledger[n][k] # "FAILED"
    BY DEF IInv, AnswersAreHonest
  <2>4. ledger[n][k] # "open"
    BY <2>1 DEF IInv, LedgerAhead
  <2>5. QED
    BY <2>2, <2>3, <2>4 DEF Outcomes
<1>2. QED
  BY <1>1, Invariance, PTL

(* retry(), deferQuietly() and releaseClaim() never leave a RETRYING row    *)
(* without a job, unless one of its jobs was dead-lettered.                 *)
THEOREM RetryingTheorem == Spec => []RetryingHasJob
<1>1. IInv => RetryingHasJob
  BY DEF IInv
<1>2. QED
  BY <1>1, Invariance, PTL

(***************************************************************************)
(* What a step may do.                                                     *)
(***************************************************************************)

LEMMA TransitionStep ==
    ASSUME IInv, [Next]_vars
    PROVE  \A m \in Notifications :
               status'[m] # status[m] => <<status[m], status'[m]>> \in Transitions
<1> USE DispatchAssumption DEF row, jobs, worker, repair, network
<1> DEFINE Goal == \A m \in Notifications :
               status'[m] # status[m] => <<status[m], status'[m]>> \in Transitions
<1>0. TypeOK /\ HandlerHasJob
  BY DEF IInv
<1> USE <1>0 DEF TypeOK, RowTypeOK, Transitions
<1>1. ASSUME NEW w \in Workers, NEW n \in Notifications, FetchJob(w, n)
      PROVE  Goal
  BY <1>1 DEF FetchJob
<1>2. ASSUME NEW w \in Workers, PromoteScheduled(w)
      PROVE  Goal
  BY <1>2 DEF PromoteScheduled, Goto
<1>3. ASSUME NEW w \in Workers, ClaimForDispatch(w)
      PROVE  Goal
  BY <1>3 DEF ClaimForDispatch, Goto, Claimable
<1>4. ASSUME NEW w \in Workers, ExplainFailedClaim(w)
      PROVE  Goal
  BY <1>4 DEF ExplainFailedClaim, Goto
<1>5. ASSUME NEW w \in Workers, Reschedule(w)
      PROVE  Goal
  BY <1>5 DEF Reschedule, Goto, Enqueue
<1>6. ASSUME NEW w \in Workers, CheckLedger(w)
      PROVE  Goal
  BY <1>6 DEF CheckLedger, Goto, Decide
<1>7. ASSUME NEW w \in Workers, Prepare(w)
      PROVE  Goal
  BY WaysOutAre, <1>7 DEF Prepare, Goto, Decide
<1>8. ASSUME NEW w \in Workers, BeginAttempt(w)
      PROVE  Goal
  BY <1>8 DEF BeginAttempt, Goto, Decide, OwnsClaim
<1>9. ASSUME NEW w \in Workers, SendTextMessage(w)
      PROVE  Goal
  BY <1>9 DEF SendTextMessage, Answers, Goto
<1>10. ASSUME NEW w \in Workers, RecordSent(w)
      PROVE  Goal
  BY <1>10 DEF RecordSent, Goto, LeaveProcessing, Resolve
<1>11. ASSUME NEW w \in Workers, ResolveRefused(w)
      PROVE  Goal
  BY <1>11 DEF ResolveRefused, Goto, Decide, Resolve
<1>12. ASSUME NEW w \in Workers, ResolveUnknown(w)
      PROVE  Goal
  BY <1>12 DEF ResolveUnknown, Goto, Decide, Resolve, UnknownVerdict
<1>13. ASSUME NEW w \in Workers, Retry(w)
      PROVE  Goal
  BY <1>13 DEF Retry, Goto, Release, LeaveProcessing, Enqueue
<1>14. ASSUME NEW w \in Workers, Fail(w)
      PROVE  Goal
  BY <1>14 DEF Fail, Goto, LeaveProcessing
<1>15. ASSUME NEW w \in Workers, DeferQuietly(w)
      PROVE  Goal
  BY <1>15 DEF DeferQuietly, Goto, Release, LeaveProcessing, Enqueue
<1>16. ASSUME NEW w \in Workers, CompleteJob(w)
      PROVE  Goal
  BY <1>16 DEF CompleteJob
<1>17. ASSUME NEW w \in Workers, Crash(w)
      PROVE  Goal
  BY <1>17 DEF Crash, LoseHandler, Goto
<1>18. ASSUME NEW w \in Workers, HandlerThrows(w)
      PROVE  Goal
  BY <1>18 DEF HandlerThrows, LoseHandler, Goto, GiveBackJob
<1>19. ASSUME NEW n \in Notifications, Cancel(n)
      PROVE  Goal
  BY <1>19 DEF Cancel
<1>20. ASSUME NEW n \in Notifications, RowComesDue(n)
      PROVE  Goal
  BY <1>20 DEF RowComesDue
<1>21. ASSUME NEW n \in Notifications, JobComesDue(n)
      PROVE  Goal
  BY <1>21 DEF JobComesDue
<1>22. ASSUME NEW n \in Notifications, WindowCloses(n)
      PROVE  Goal
  BY <1>22 DEF WindowCloses
<1>23. ASSUME NEW n \in Notifications, ClaimGoesStale(n)
      PROVE  Goal
  BY <1>23 DEF ClaimGoesStale
<1>24. ASSUME NEW n \in Notifications, ExpireJob(n)
      PROVE  Goal
  BY <1>24 DEF ExpireJob, GiveBackJob
<1>25. ASSUME NEW n \in Notifications, ReleaseClaim(n)
      PROVE  Goal
  BY <1>25 DEF ReleaseClaim, Release, LeaveProcessing, Enqueue
<1>26. ASSUME NEW n \in Notifications, RequeueDue(n)
      PROVE  Goal
  BY <1>26 DEF RequeueDue, Enqueue
<1>27. ASSUME FindStuckClaims
      PROVE  Goal
  BY <1>27 DEF FindStuckClaims, StuckClaims
<1>28. ASSUME FindDueForDispatch
      PROVE  Goal
  BY <1>28 DEF FindDueForDispatch, DueForDispatch
<1>29. ASSUME MaintenanceDies
      PROVE  Goal
  BY <1>29 DEF MaintenanceDies
<1>30. CASE UNCHANGED vars
  BY <1>30 DEF vars
<1>31. QED
  BY <1>1, <1>2, <1>3, <1>4, <1>5, <1>6, <1>7, <1>8, <1>9, <1>10, <1>11,
       <1>12, <1>13, <1>14, <1>15, <1>16, <1>17, <1>18, <1>19, <1>20, <1>21,
       <1>22, <1>23, <1>24, <1>25, <1>26, <1>27, <1>28, <1>29, <1>30 DEF Next,
       HandlerStep, RepairStep, TimeStep

(* applyTransition and the repository's guarded updates move a status only  *)
(* along the domain's transition table.                                     *)
THEOREM TransitionsTheorem == Spec => TransitionsLegal
<1>1. IInv /\ [Next]_vars =>
         [\A n \in Notifications :
             status'[n] # status[n] => <<status[n], status'[n]>> \in Transitions]_vars
  BY TransitionStep
<1>2. QED
  BY <1>1, Invariance, PTL DEF Spec, TransitionsLegal

(***************************************************************************)
(* The pipeline implements the delivery contract.                          *)
(***************************************************************************)

(* A step that moves no row to or from a settled status, and does not touch *)
(* the network, is a step of the contract that changes nothing.             *)
LEMMA QuietStep ==
    ASSUME UNCHANGED network,
           \A n \in Notifications :
              \/ status'[n] = status[n]
              \/ status[n] \notin Settled /\ status'[n] \notin Settled
    PROVE  UNCHANGED Contract!contract
<1>1. \A n \in Notifications : Outcome(n)' = Outcome(n)
  BY DEF Outcome, Settled
<1>2. QED
  BY <1>1 DEF Contract!contract, network

(* Giving a pending notification its verdict is the contract's Settle.      *)
LEMMA SettleStep ==
    ASSUME RowTypeOK, NEW n \in Notifications, NEW verdictStatus \in Settled,
           status[n] \notin Settled,
           status' = [status EXCEPT ![n] = verdictStatus],
           verdictStatus = "SENT" => delivered[n] # {},
           UNCHANGED network
    PROVE  Contract!Next
<1> DEFINE v == CASE verdictStatus = "SENT"      -> "sent"
                  [] verdictStatus = "FAILED"    -> "failed"
                  [] verdictStatus = "CANCELLED" -> "cancelled"
<1>1. Outcome(n) = "pending" /\ Outcome(n)' = v
  BY DEF Outcome, Settled, RowTypeOK
<1>2. \A m \in Notifications : m # n => Outcome(m)' = Outcome(m)
  BY DEF Outcome, RowTypeOK
<1>3. v \in {"sent", "failed", "cancelled"} /\ (v = "sent" => delivered[n] # {})
  BY DEF Settled
<1> HIDE DEF v
<1>4. [m \in Notifications |-> Outcome(m)']
         = [[m \in Notifications |-> Outcome(m)] EXCEPT ![n] = v]
  BY <1>1, <1>2
<1>5. Contract!Settle(n)
  BY <1>1, <1>3, <1>4 DEF Contract!Settle, network
<1>6. QED
  BY <1>5 DEF Contract!Next

LEMMA ContractStep ==
    ASSUME IInv, [Next]_vars
    PROVE  [Contract!Next]_(Contract!contract)
<1> USE DispatchAssumption DEF row, jobs, worker, repair, network
<1> DEFINE Quiet ==
        /\ UNCHANGED <<contacted, delivered>>
        /\ \A m \in Notifications :
              \/ status'[m] = status[m]
              \/ status[m] \notin Settled /\ status'[m] \notin Settled
<1>0. TypeOK /\ RowTypeOK /\ HandlerHasJob
  BY DEF IInv, TypeOK
<1>1. ASSUME NEW w \in Workers, NEW n \in Notifications, FetchJob(w, n)
      PROVE  Quiet
  BY <1>0, <1>1 DEF RowTypeOK, Settled, FetchJob
<1>2. ASSUME NEW w \in Workers, PromoteScheduled(w)
      PROVE  Quiet
  BY <1>0, <1>2 DEF RowTypeOK, Settled, PromoteScheduled, Goto
<1>3. ASSUME NEW w \in Workers, ClaimForDispatch(w)
      PROVE  Quiet
  BY <1>0, <1>3 DEF RowTypeOK, Settled, ClaimForDispatch, Goto, Claimable
<1>4. ASSUME NEW w \in Workers, ExplainFailedClaim(w)
      PROVE  Quiet
  BY <1>0, <1>4 DEF RowTypeOK, Settled, ExplainFailedClaim, Goto
<1>5. ASSUME NEW w \in Workers, Reschedule(w)
      PROVE  Quiet
  BY <1>0, <1>5 DEF RowTypeOK, Settled, Reschedule, Goto, Enqueue
<1>6. ASSUME NEW w \in Workers, CheckLedger(w)
      PROVE  Quiet
  BY <1>0, <1>6 DEF RowTypeOK, Settled, CheckLedger, Goto, Decide
<1>7. ASSUME NEW w \in Workers, Prepare(w)
      PROVE  Quiet
  BY WaysOutAre, <1>0, <1>7 DEF RowTypeOK, Settled, Prepare, Goto, Decide
<1>8. ASSUME NEW w \in Workers, BeginAttempt(w)
      PROVE  Quiet
  BY <1>0, <1>8 DEF RowTypeOK, Settled, BeginAttempt, Goto, Decide, OwnsClaim
<1>9. ASSUME NEW w \in Workers, ResolveRefused(w)
      PROVE  Quiet
  BY <1>0, <1>9 DEF RowTypeOK, Settled, ResolveRefused, Goto, Decide, Resolve
<1>10. ASSUME NEW w \in Workers, ResolveUnknown(w)
      PROVE  Quiet
  BY <1>0, <1>10 DEF RowTypeOK, Settled, ResolveUnknown, Goto, Decide,
       Resolve, UnknownVerdict
<1>11. ASSUME NEW w \in Workers, Retry(w)
      PROVE  Quiet
  BY <1>0, <1>11 DEF RowTypeOK, Settled, Retry, Goto, Release,
       LeaveProcessing, Enqueue
<1>12. ASSUME NEW w \in Workers, DeferQuietly(w)
      PROVE  Quiet
  BY <1>0, <1>12 DEF RowTypeOK, Settled, DeferQuietly, Goto, Release,
       LeaveProcessing, Enqueue
<1>13. ASSUME NEW w \in Workers, CompleteJob(w)
      PROVE  Quiet
  BY <1>0, <1>13 DEF RowTypeOK, Settled, CompleteJob
<1>14. ASSUME NEW w \in Workers, Crash(w)
      PROVE  Quiet
  BY <1>0, <1>14 DEF RowTypeOK, Settled, Crash, LoseHandler, Goto
<1>15. ASSUME NEW w \in Workers, HandlerThrows(w)
      PROVE  Quiet
  BY <1>0, <1>15 DEF RowTypeOK, Settled, HandlerThrows, LoseHandler, Goto,
       GiveBackJob
<1>16. ASSUME NEW n \in Notifications, RowComesDue(n)
      PROVE  Quiet
  BY <1>0, <1>16 DEF RowTypeOK, Settled, RowComesDue
<1>17. ASSUME NEW n \in Notifications, JobComesDue(n)
      PROVE  Quiet
  BY <1>0, <1>17 DEF RowTypeOK, Settled, JobComesDue
<1>18. ASSUME NEW n \in Notifications, WindowCloses(n)
      PROVE  Quiet
  BY <1>0, <1>18 DEF RowTypeOK, Settled, WindowCloses
<1>19. ASSUME NEW n \in Notifications, ClaimGoesStale(n)
      PROVE  Quiet
  BY <1>0, <1>19 DEF RowTypeOK, Settled, ClaimGoesStale
<1>20. ASSUME NEW n \in Notifications, ExpireJob(n)
      PROVE  Quiet
  BY <1>0, <1>20 DEF RowTypeOK, Settled, ExpireJob, GiveBackJob
<1>21. ASSUME NEW n \in Notifications, ReleaseClaim(n)
      PROVE  Quiet
  BY <1>0, <1>21 DEF RowTypeOK, Settled, ReleaseClaim, Release,
       LeaveProcessing, Enqueue
<1>22. ASSUME NEW n \in Notifications, RequeueDue(n)
      PROVE  Quiet
  BY <1>0, <1>22 DEF RowTypeOK, Settled, RequeueDue, Enqueue
<1>23. ASSUME FindStuckClaims
      PROVE  Quiet
  BY <1>0, <1>23 DEF RowTypeOK, Settled, FindStuckClaims, StuckClaims
<1>24. ASSUME FindDueForDispatch
      PROVE  Quiet
  BY <1>0, <1>24 DEF RowTypeOK, Settled, FindDueForDispatch, DueForDispatch
<1>25. ASSUME MaintenanceDies
      PROVE  Quiet
  BY <1>0, <1>25 DEF RowTypeOK, Settled, MaintenanceDies
<1>26. CASE UNCHANGED vars
  BY <1>26, QuietStep DEF vars
<1>27. ASSUME Quiet
      PROVE  UNCHANGED Contract!contract
  BY <1>27, QuietStep
<1>28. ASSUME NEW w \in Workers, SendTextMessage(w)
      PROVE  Contract!Next
  <2>1. job[w] \in Notifications /\ attempt[w] \in 1 .. MaximumAttempts
    BY <1>0, <1>28 DEF IInv, HandlerHasJob, AttemptInLedger, SendTextMessage
  <2>2. attempt[w] \notin contacted[job[w]]
    BY <1>28 DEF IInv, BudgetKept, SendTextMessage
  <2>3. status' = status
    BY <1>28 DEF SendTextMessage
  <2>4. \A n \in Notifications : Outcome(n)' = Outcome(n)
    BY <2>3 DEF Outcome
  <2>5. Contract!Contact(job[w])
    BY <1>28, <2>1, <2>2, <2>4 DEF Contract!Contact, SendTextMessage
  <2>6. QED
    BY <2>1, <2>5 DEF Contract!Next
<1>29. ASSUME NEW w \in Workers, RecordSent(w)
      PROVE  Quiet \/ Contract!Next
  <2>1. job[w] \in Notifications /\ delivered[job[w]] # {}
    BY <1>0, <1>29 DEF IInv, HandlerHasJob, AnswersAreHonest, RecordSent
  <2>2. CASE status[job[w]] = "PROCESSING"
    BY <1>0, <1>29, <2>1, <2>2, SettleStep DEF RecordSent, LeaveProcessing, Settled
  <2>3. CASE status[job[w]] # "PROCESSING"
    BY <1>29, <2>3 DEF RecordSent
  <2>4. QED
    BY <2>2, <2>3
<1>30. ASSUME NEW w \in Workers, Fail(w)
      PROVE  Quiet \/ Contract!Next
  <2>1. job[w] \in Notifications
    BY <1>0, <1>30 DEF HandlerHasJob, Fail
  <2>2. CASE status[job[w]] = "PROCESSING"
    BY <1>0, <1>30, <2>1, <2>2, SettleStep DEF Fail, LeaveProcessing, Settled
  <2>3. CASE status[job[w]] # "PROCESSING"
    BY <1>30, <2>3 DEF Fail
  <2>4. QED
    BY <2>2, <2>3
<1>31. ASSUME NEW n \in Notifications, Cancel(n)
      PROVE  Contract!Next
  BY <1>0, <1>31, SettleStep DEF Cancel, Settled
<1>32. Next => Quiet \/ Contract!Next
  BY <1>1, <1>2, <1>3, <1>4, <1>5, <1>6, <1>7, <1>8, <1>9, <1>10, <1>11,
       <1>12, <1>13, <1>14, <1>15, <1>16, <1>17, <1>18, <1>19, <1>20, <1>21,
       <1>22, <1>23, <1>24, <1>25, <1>28, <1>29, <1>30, <1>31 DEF Next,
       HandlerStep, RepairStep, TimeStep
<1>33. QED
  BY <1>26, <1>27, <1>32

(* Whatever workers, the reaper, cancellations and faults do, a caller sees *)
(* the contract: one verdict that stays, "sent" only for a message WhatsApp *)
(* took, and no attempt used twice or beyond the allotment.                 *)
THEOREM ContractTheorem == Spec => KeepsContract
<1>1. Init => Contract!Init
  BY DEF Init, Contract!Init, Outcome
<1>2. IInv /\ [Next]_vars => [Contract!Next]_(Contract!contract)
  BY ContractStep
<1>3. QED
  BY <1>1, <1>2, Invariance, PTL DEF Spec, KeepsContract, Contract!Spec

=============================================================================
