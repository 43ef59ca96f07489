------------------------ MODULE AcknowledgementsProofs ------------------------
(***************************************************************************)
(* What the processing of delivery receipts guarantees for every number of *)
(* notifications, receipts, workers, retries and faults.                   *)
(***************************************************************************)
EXTENDS Acknowledgements, TLAPS

(***************************************************************************)
(* The inductive invariant.                                                *)
(***************************************************************************)

(* A handler has an accepted delivery in hand, one that is resolved once it *)
(* is done.  What it is about to record, it read of a row that was SENT or  *)
(* DELIVERED and not failed: every receipt is ignored by a failed row.      *)
ReadAgrees(w) ==
    /\ about[job[w]] \in Notifications
    /\ \/ seen[w].status = "SENT" /\ seen[w].stored \in {0, 1}
       \/ seen[w].status = "DELIVERED" /\ seen[w].stored >= device

HandlerOK(w) ==
    /\ pc[w] # "idle" => job[w] \in Receipts /\ inbox[job[w]] # "absent"
    /\ pc[w] = "recording" => ReadAgrees(w)
    /\ pc[w] = "marking" => result[w] \in Results
    /\ pc[w] = "done" => inbox[job[w]] \in Results

HandlersOK == \A w \in Workers : HandlerOK(w)

(* No receipt reaches a row whose send is not recorded. *)
UnsentIsUntouched ==
    \A n \in Notifications :
        status[n] = "PROCESSING" => stored[n] = 0 /\ stamps[n] = {}

(* A delivery has a job only once it is accepted. *)
WaitingIsAccepted == \A r \in Receipts : inbox[r] = "absent" => jobState[r] = "none"

IInv ==
    /\ TypeOK
    /\ HandlersOK
    /\ WaitingIsAccepted
    /\ UnsentIsUntouched
    /\ StoryAgrees
    /\ AcceptedKeepsJob

(***************************************************************************)
(* Operators.                                                              *)
(***************************************************************************)

(* Merging stays among the levels, and a failure is never merged away. *)
LEMMA MergeLevels ==
    ASSUME NEW a \in Levels, NEW b \in Levels
    PROVE  /\ Merge(a, b) \in Levels
           /\ a = error => Merge(a, b) = error
           /\ Merge(a, b) # error => Merge(a, b) >= a
BY DEF Merge, Levels, error

(* What a receipt does to a row that it read as SENT or DELIVERED. *)
LEMMA RecordedStory ==
    ASSUME NEW s \in {"SENT", "DELIVERED"}, NEW k \in Levels, NEW l \in Levels,
           s = "SENT" => k \in {0, 1},
           s = "DELIVERED" => k >= device
    PROVE  LET m == Merge(k, l)
               next == ResolveStatus(s, m)
           IN /\ next \in {s, "DELIVERED", "FAILED"}
              /\ next = "SENT" => m \in {0, 1} /\ Stamps(m) = {}
              /\ next = "DELIVERED" /\ s = "SENT" => m >= device /\ "delivered" \in Stamps(m)
              /\ s = "DELIVERED" => next = "DELIVERED"
              /\ s = "DELIVERED" /\ m # error => m >= device
              /\ m = error => "failed" \in Stamps(m)
              /\ next = "FAILED" => m = error /\ Stamps(m) = {"failed"}
<1> DEFINE m == Merge(k, l)
<1>1. m \in Levels /\ (m # error => m >= k)
  BY MergeLevels
<1> HIDE DEF m
<1>2. Stamps(m) \subseteq {"delivered", "read", "failed"}
  BY DEF Stamps
<1>3. /\ "delivered" \in Stamps(m) <=> m >= device
      /\ "read" \in Stamps(m) <=> m >= read
      /\ "failed" \in Stamps(m) <=> m = error
  BY DEF Stamps
<1>4. m = error => Stamps(m) = {"failed"}
  BY <1>2, <1>3 DEF error, device, read
<1>5. m \in {0, 1} => Stamps(m) = {}
  BY <1>2, <1>3 DEF error, device, read
<1>6. m \in Levels /\ m # error /\ ~(m >= device) => m \in {0, 1}
  BY DEF Levels, error, device
<1>7. k >= device /\ m # error => m >= device
  BY <1>1 DEF Levels, error, device
<1>8. CASE s = "SENT"
  <2>1. CASE m = error
    BY <1>8, <2>1, <1>3, <1>4 DEF ResolveStatus, m, error, device
  <2>2. CASE m # error /\ m >= device
    BY <1>8, <2>2, <1>1, <1>3 DEF ResolveStatus, m
  <2>3. CASE m # error /\ ~(m >= device)
    BY <1>8, <2>3, <1>1, <1>5, <1>6 DEF ResolveStatus, m
  <2>4. QED
    BY <2>1, <2>2, <2>3
<1>9. CASE s = "DELIVERED"
  BY <1>9, <1>3, <1>7 DEF ResolveStatus, m
<1>10. QED
  BY <1>8, <1>9

(***************************************************************************)
(* The steps.                                                              *)
(***************************************************************************)

(* No step takes a variable out of its type. *)
LEMMA TypeStep ==
    ASSUME IInv, [Next]_vars
    PROVE  TypeOK'
<1> USE AcknowledgementsAssumption DEF IInv, TypeOK
<1>1. ASSUME NEW n \in Notifications, RecordSent(n)
      PROVE  TypeOK'
  BY <1>1 DEF RecordSent, receipt, jobs, worker, Statuses
<1>2. ASSUME NEW r \in Receipts, Ingest(r)
      PROVE  TypeOK'
  BY <1>2 DEF Ingest, row, worker
<1>3. ASSUME NEW r \in Receipts, GracePasses(r)
      PROVE  TypeOK'
  BY <1>3 DEF GracePasses, row, jobs, worker
<1>4. ASSUME NEW r \in Receipts, GiveBackJob(r)
      PROVE  /\ jobState' \in [Receipts -> {"none", "waiting", "active", "completed", "failed"}]
             /\ retries' \in [Receipts -> 0 .. RetryLimit]
             /\ runner' \in [Receipts -> Workers \cup {None}]
  <2>1. runner' \in [Receipts -> Workers \cup {None}]
    BY <1>4 DEF GiveBackJob
  <2>2. CASE retries[r] < RetryLimit
    <3>1. retries[r] + 1 \in 0 .. RetryLimit
      BY <2>2
    <3>2. retries' = [retries EXCEPT ![r] = retries[r] + 1]
          /\ jobState' = [jobState EXCEPT ![r] = "waiting"]
      BY <1>4, <2>2 DEF GiveBackJob
    <3>3. retries' \in [Receipts -> 0 .. RetryLimit]
      BY <3>1, <3>2
    <3>4. QED
      BY <2>1, <3>2, <3>3
  <2>3. CASE ~(retries[r] < RetryLimit)
    BY <1>4, <2>1, <2>3 DEF GiveBackJob
  <2>4. QED
    BY <2>2, <2>3
<1>5. ASSUME NEW w \in Workers, LeaveHandler(w)
      PROVE  /\ pc' \in [Workers -> Stages]
             /\ job' \in [Workers -> Receipts \cup {None}]
             /\ seen' \in [Workers -> [status : Statuses, stored : Levels]]
             /\ result' \in [Workers -> Results \cup {None}]
  BY <1>5 DEF LeaveHandler, Stages, Unread, Statuses, Levels
<1>6. Fault => faults' \in 0 .. FaultBudget
  BY DEF Fault, AcknowledgementsAssumption
<1>7. ASSUME NEW w \in Workers, pc[w] # "idle", Throw(w)
      PROVE  /\ jobState' \in [Receipts -> {"none", "waiting", "active", "completed", "failed"}]
             /\ retries' \in [Receipts -> 0 .. RetryLimit]
             /\ runner' \in [Receipts -> Workers \cup {None}]
             /\ pc' \in [Workers -> Stages]
             /\ job' \in [Workers -> Receipts \cup {None}]
             /\ seen' \in [Workers -> [status : Statuses, stored : Levels]]
             /\ result' \in [Workers -> Results \cup {None}]
  <2>1. job[w] \in Receipts /\ LeaveHandler(w)
    BY <1>7 DEF HandlersOK, HandlerOK, Throw
  <2>2. GiveBackJob(job[w]) \/ UNCHANGED jobs
    BY <1>7 DEF Throw
  <2>3. QED
    BY <2>1, <2>2, <1>4, <1>5 DEF jobs
<1>8. ASSUME NEW r \in Receipts, ExpireJob(r)
      PROVE  TypeOK'
  <2>1. faults' \in 0 .. FaultBudget
    BY <1>6, <1>8 DEF ExpireJob
  <2>2. QED
    BY <1>8, <1>4, <2>1 DEF ExpireJob, row, receipt, worker
<1>9. ASSUME NEW w \in Workers, NEW r \in Receipts, FetchJob(w, r)
      PROVE  TypeOK'
  BY <1>9 DEF FetchJob, row, receipt, Stages
<1>10. ASSUME NEW w \in Workers, ClaimForProcessing(w)
       PROVE  TypeOK'
  BY <1>10 DEF ClaimForProcessing, Goto, row, receipt, jobs, Stages
<1>11. ASSUME NEW w \in Workers, ReadNotification(w)
       PROVE  TypeOK'
  <2>1. job[w] \in Receipts /\ pc[w] # "idle"
    BY <1>11 DEF ReadNotification, HandlersOK, HandlerOK
  <2>2. UNCHANGED <<row, receipt, faults>>
    BY <1>11 DEF ReadNotification
  <2>3. CASE Throw(w)
    BY <1>7, <2>1, <2>2, <2>3 DEF row, receipt
  <2>4. ASSUME NEW o \in Results, Conclude(w, o), UNCHANGED <<jobs, job, seen>>
        PROVE  TypeOK'
    BY <2>2, <2>4 DEF Conclude, Goto, row, receipt, jobs, Stages
  <2>5. ASSUME about[job[w]] \in Notifications,
               seen' = [seen EXCEPT ![w] = [status |-> status[about[job[w]]],
                                            stored |-> stored[about[job[w]]]]],
               Goto(w, "recording"), UNCHANGED result, UNCHANGED <<jobs, job>>
        PROVE  TypeOK'
    <3>1. seen' \in [Workers -> [status : Statuses, stored : Levels]]
      BY <2>5
    <3>2. pc' \in [Workers -> Stages]
      BY <2>5 DEF Goto, Stages
    <3>3. QED
      BY <2>2, <2>5, <3>1, <3>2 DEF row, receipt, jobs
  <2>6. about[job[w]] # None => about[job[w]] \in Notifications
    BY <2>1
  <2>7. QED
    BY <1>11, <2>1, <2>3, <2>4, <2>5, <2>6 DEF ReadNotification, Results
<1>12. ASSUME NEW w \in Workers, RecordAcknowledgement(w)
       PROVE  TypeOK'
  <2> DEFINE n == about[job[w]]
             merged == Merge(seen[w].stored, level[job[w]])
             next == ResolveStatus(seen[w].status, merged)
             event == [receipt |-> job[w], from |-> seen[w].status, to |-> next]
  <2>1. job[w] \in Receipts /\ n \in Notifications /\ pc[w] = "recording"
    BY <1>12 DEF RecordAcknowledgement, HandlersOK, HandlerOK, ReadAgrees
  <2>2. merged \in Levels
    BY <2>1, MergeLevels
  <2>3. next \in Statuses
    BY <2>1 DEF ResolveStatus, Statuses
  <2>4. Stamps(merged) \subseteq {"delivered", "read", "failed"}
    BY DEF Stamps
  <2>5. event \in [receipt : Receipts, from : Statuses, to : Statuses]
    BY <2>1, <2>3
  <2>6. /\ told' = [told EXCEPT ![n] = @ \cup {event}]
        /\ \/ UNCHANGED <<status, stored, stamps>>
           \/ /\ status' = [status EXCEPT ![n] = next]
              /\ stored' = [stored EXCEPT ![n] = merged]
              /\ stamps' = [stamps EXCEPT ![n] = @ \cup Stamps(merged)]
        /\ Conclude(w, "APPLIED")
        /\ UNCHANGED <<receipt, jobs, job, seen, faults>>
    BY <1>12 DEF RecordAcknowledgement
  <2> HIDE DEF n, merged, next, event
  <2>7. /\ status' \in [Notifications -> Statuses]
        /\ stored' \in [Notifications -> Levels]
        /\ stamps' \in [Notifications -> SUBSET {"delivered", "read", "failed"}]
    <3> DEFINE stamped == stamps[n] \cup Stamps(merged)
    <3>1. stamped \in SUBSET {"delivered", "read", "failed"}
      BY <2>1, <2>4
    <3>2. stamps' = stamps \/ stamps' = [stamps EXCEPT ![n] = stamped]
      BY <2>6
    <3> HIDE DEF stamped
    <3>3. stamps' \in [Notifications -> SUBSET {"delivered", "read", "failed"}]
      BY <2>1, <3>1, <3>2
    <3>4. status' \in [Notifications -> Statuses]
      BY <2>1, <2>3, <2>6
    <3>5. stored' \in [Notifications -> Levels]
      BY <2>1, <2>2, <2>6
    <3>6. QED
      BY <3>3, <3>4, <3>5
  <2>8. told' \in [Notifications -> SUBSET [receipt : Receipts, from : Statuses, to : Statuses]]
    BY <2>1, <2>5, <2>6
  <2>9. QED
    BY <2>6, <2>7, <2>8 DEF Conclude, Goto, receipt, jobs, Stages, Results
<1>13. ASSUME NEW w \in Workers, MarkProcessed(w)
       PROVE  TypeOK'
  <2>1. job[w] \in Receipts /\ result[w] \in Results
    BY <1>13 DEF MarkProcessed, HandlersOK, HandlerOK
  <2>2. QED
    BY <1>13, <2>1 DEF MarkProcessed, Goto, row, jobs, Stages
<1>14. ASSUME NEW w \in Workers, CompleteJob(w)
       PROVE  TypeOK'
  BY <1>14, <1>5 DEF CompleteJob, row, receipt
<1>15. ASSUME NEW w \in Workers, Crash(w)
       PROVE  TypeOK'
  BY <1>15, <1>5, <1>6 DEF Crash, row, receipt, jobs
<1>16. ASSUME NEW w \in Workers, HandlerThrows(w)
       PROVE  TypeOK'
  BY <1>16, <1>6, <1>7 DEF HandlerThrows, row, receipt
<1>17. CASE UNCHANGED vars
  BY <1>17 DEF vars, row, receipt, jobs, worker
<1>18. QED
  BY <1>1, <1>2, <1>3, <1>8, <1>9, <1>10, <1>11, <1>12, <1>13, <1>14, <1>15, <1>16, <1>17
     DEF Next, HandlerStep

(* A delivery once accepted stays so, for the same notification, and what is *)
(* resolved stays resolved.                                                 *)
LEMMA AcceptedStays ==
    ASSUME IInv, [Next]_vars, NEW r \in Receipts, inbox[r] # "absent"
    PROVE  /\ inbox'[r] # "absent"
           /\ about'[r] = about[r]
           /\ inbox[r] \in Results => inbox'[r] \in Results
<1> USE DEF IInv, TypeOK
<1>1. ASSUME NEW s \in Receipts, Ingest(s)
      PROVE  inbox'[r] = inbox[r] /\ about'[r] = about[r]
  BY <1>1 DEF Ingest
<1>2. ASSUME NEW w \in Workers, MarkProcessed(w)
      PROVE  about'[r] = about[r] /\ (inbox'[r] = inbox[r] \/ inbox'[r] \in Results)
  BY <1>2 DEF MarkProcessed, HandlersOK, HandlerOK
<1>3. CASE UNCHANGED receipt
  BY <1>3 DEF receipt
<1>4. ASSUME NEW s \in Receipts, GracePasses(s)
      PROVE  inbox'[r] = inbox[r] /\ about'[r] = about[r]
  BY <1>4 DEF GracePasses
<1>5. "absent" \notin Results
  BY DEF Results
<1>6. QED
  BY <1>1, <1>2, <1>3, <1>4, <1>5
     DEF Next, HandlerStep, RecordSent, ExpireJob, FetchJob, ClaimForProcessing, ReadNotification,
         RecordAcknowledgement, CompleteJob, Crash, HandlerThrows, vars

(* What a handler relies on survives every step that is not its own. *)
LEMMA HandlerFrame ==
    ASSUME IInv, [Next]_vars, NEW v \in Workers,
           pc'[v] = pc[v], job'[v] = job[v], seen'[v] = seen[v], result'[v] = result[v]
    PROVE  HandlerOK(v)'
<1>1. HandlerOK(v)
  BY DEF IInv, HandlersOK
<1>2. pc[v] # "idle" =>
         /\ inbox'[job[v]] # "absent"
         /\ about'[job[v]] = about[job[v]]
         /\ inbox[job[v]] \in Results => inbox'[job[v]] \in Results
  BY <1>1, AcceptedStays DEF HandlerOK
<1>3. QED
  BY <1>1, <1>2 DEF HandlerOK, ReadAgrees

(* Every handler keeps to what it has read and resolved. *)
LEMMA HandlersStep ==
    ASSUME IInv, [Next]_vars
    PROVE  HandlersOK'
<1> SUFFICES ASSUME NEW v \in Workers
             PROVE  HandlerOK(v)'
  BY DEF HandlersOK
<1> USE DEF IInv, TypeOK
<1>1. CASE UNCHANGED worker
  BY <1>1, HandlerFrame DEF worker
<1>2. ASSUME NEW w \in Workers, LeaveHandler(w)
      PROVE  HandlerOK(v)'
  <2>1. CASE v = w
    BY <1>2, <2>1 DEF LeaveHandler, HandlerOK
  <2>2. CASE v # w
    BY <1>2, <2>2, HandlerFrame DEF LeaveHandler
  <2>3. QED
    BY <2>1, <2>2
<1>3. ASSUME NEW w \in Workers, NEW r \in Receipts, FetchJob(w, r)
      PROVE  HandlerOK(v)'
  <2>1. CASE v = w
    <3>1. inbox[r] # "absent"
      BY <1>3 DEF FetchJob, WaitingIsAccepted
    <3>2. QED
      BY <1>3, <2>1, <3>1 DEF FetchJob, HandlerOK, receipt
  <2>2. CASE v # w
    BY <1>3, <2>2, HandlerFrame DEF FetchJob
  <2>3. QED
    BY <2>1, <2>2
<1>4. ASSUME NEW w \in Workers, ClaimForProcessing(w)
      PROVE  HandlerOK(v)'
  <2>1. CASE v = w
    <3>1. job[w] \in Receipts /\ inbox[job[w]] # "absent"
      BY <1>4 DEF ClaimForProcessing, HandlersOK, HandlerOK
    <3>2. UNCHANGED <<inbox, job>> /\ pc'[w] \in {"reading", "done"}
      BY <1>4 DEF ClaimForProcessing, Goto, receipt
    <3>3. pc'[w] = "done" => inbox[job[w]] \in Results
      BY <1>4, <3>1 DEF ClaimForProcessing, Goto
    <3>4. QED
      BY <2>1, <3>1, <3>2, <3>3 DEF HandlerOK
  <2>2. CASE v # w
    BY <1>4, <2>2, HandlerFrame DEF ClaimForProcessing, Goto
  <2>3. QED
    BY <2>1, <2>2
<1>5. ASSUME NEW w \in Workers, ReadNotification(w)
      PROVE  HandlerOK(v)'
  <2>1. CASE Throw(w)
    BY <1>2, <2>1 DEF Throw
  <2>2. CASE v # w /\ ~Throw(w)
    BY <1>5, <2>2, HandlerFrame DEF ReadNotification, Conclude, Goto
  <2>3. CASE v = w /\ ~Throw(w)
    <3> DEFINE n == about[job[w]]
    <3>1. job[w] \in Receipts /\ inbox[job[w]] # "absent"
      BY <1>5 DEF ReadNotification, HandlersOK, HandlerOK
    <3>2. UNCHANGED <<inbox, about, job>>
      BY <1>5, <2>3 DEF ReadNotification, receipt
    <3>3. ASSUME NEW o \in Results, Conclude(w, o)
          PROVE  HandlerOK(w)'
      BY <3>1, <3>2, <3>3 DEF Conclude, Goto, HandlerOK
    <3>4. ASSUME n # None, status[n] # "PROCESSING", Merge(stored[n], level[job[w]]) # stored[n],
                 seen' = [seen EXCEPT ![w] = [status |-> status[n], stored |-> stored[n]]],
                 Goto(w, "recording")
          PROVE  HandlerOK(w)'
      <4>1. n \in Notifications /\ level[job[w]] \in Levels /\ stored[n] \in Levels
        BY <3>1, <3>4
      <4>2. stored[n] # error
        BY <3>4, <4>1, MergeLevels
      <4>3. \/ status[n] = "SENT" /\ stored[n] \in {0, 1}
            \/ status[n] = "DELIVERED" /\ stored[n] >= device
        BY <3>4, <4>1, <4>2 DEF StoryAgrees, Statuses
      <4>4. /\ seen'[w].status = status[n]
            /\ seen'[w].stored = stored[n]
            /\ pc'[w] = "recording"
        BY <3>4 DEF Goto
      <4>5. QED
        BY <3>1, <3>2, <4>1, <4>3, <4>4 DEF HandlerOK, ReadAgrees
    <3>5. QED
      BY <1>5, <2>3, <3>3, <3>4 DEF ReadNotification, Results
  <2>4. QED
    BY <2>1, <2>2, <2>3
<1>6. ASSUME NEW w \in Workers, RecordAcknowledgement(w)
      PROVE  HandlerOK(v)'
  <2>1. CASE v = w
    <3>1. job[w] \in Receipts /\ inbox[job[w]] # "absent"
      BY <1>6 DEF RecordAcknowledgement, HandlersOK, HandlerOK
    <3>2. UNCHANGED <<inbox, job>> /\ pc'[w] = "marking" /\ result'[w] = "APPLIED"
      BY <1>6 DEF RecordAcknowledgement, Conclude, Goto, receipt
    <3>3. QED
      BY <2>1, <3>1, <3>2 DEF HandlerOK, Results
  <2>2. CASE v # w
    BY <1>6, <2>2, HandlerFrame DEF RecordAcknowledgement, Conclude, Goto
  <2>3. QED
    BY <2>1, <2>2
<1>7. ASSUME NEW w \in Workers, MarkProcessed(w)
      PROVE  HandlerOK(v)'
  <2>1. CASE v = w
    <3>1. job[w] \in Receipts /\ result[w] \in Results
      BY <1>7 DEF MarkProcessed, HandlersOK, HandlerOK
    <3>2. inbox'[job[w]] = result[w] /\ job' = job /\ pc'[w] = "done"
      BY <1>7, <3>1 DEF MarkProcessed, Goto
    <3>3. "absent" \notin Results
      BY DEF Results
    <3>4. QED
      BY <2>1, <3>1, <3>2, <3>3 DEF HandlerOK
  <2>2. CASE v # w
    BY <1>7, <2>2, HandlerFrame DEF MarkProcessed, Goto
  <2>3. QED
    BY <2>1, <2>2
<1>8. ASSUME NEW w \in Workers, CompleteJob(w) \/ Crash(w) \/ HandlerThrows(w)
      PROVE  HandlerOK(v)'
  BY <1>2, <1>8 DEF CompleteJob, Crash, HandlerThrows, Throw
<1>9. QED
  BY <1>1, <1>3, <1>4, <1>5, <1>6, <1>7, <1>8
     DEF Next, HandlerStep, RecordSent, Ingest, GracePasses, ExpireJob, vars

(* Status, acknowledgement and times agree after every step. *)
LEMMA StoryStep ==
    ASSUME IInv, [Next]_vars
    PROVE  UnsentIsUntouched' /\ StoryAgrees'
<1> USE DEF IInv, TypeOK
<1>1. CASE UNCHANGED <<status, stored, stamps>>
  BY <1>1 DEF UnsentIsUntouched, StoryAgrees
<1>2. ASSUME NEW n \in Notifications, RecordSent(n)
      PROVE  UnsentIsUntouched' /\ StoryAgrees'
  BY <1>2 DEF RecordSent, UnsentIsUntouched, StoryAgrees
<1>3. ASSUME NEW w \in Workers, RecordAcknowledgement(w)
      PROVE  UnsentIsUntouched' /\ StoryAgrees'
  <2> DEFINE n == about[job[w]]
             s == seen[w].status
             merged == Merge(seen[w].stored, level[job[w]])
             next == ResolveStatus(s, merged)
             stamped == stamps[n] \cup Stamps(merged)
  <2>1. job[w] \in Receipts /\ ReadAgrees(w)
    BY <1>3 DEF RecordAcknowledgement, HandlersOK, HandlerOK
  <2>2. n \in Notifications
    BY <2>1 DEF ReadAgrees
  <2>3. /\ next \in {s, "DELIVERED", "FAILED"}
        /\ next = "SENT" => merged \in {0, 1} /\ Stamps(merged) = {}
        /\ next = "DELIVERED" /\ s = "SENT" => merged >= device /\ "delivered" \in Stamps(merged)
        /\ s = "DELIVERED" => next = "DELIVERED"
        /\ s = "DELIVERED" /\ merged # error => merged >= device
        /\ merged = error => "failed" \in Stamps(merged)
        /\ next = "FAILED" => merged = error /\ Stamps(merged) = {"failed"}
    <3>1. seen[w].stored \in Levels /\ level[job[w]] \in Levels
      BY <2>1
    <3>2. /\ s \in {"SENT", "DELIVERED"}
          /\ s = "SENT" => seen[w].stored \in {0, 1}
          /\ s = "DELIVERED" => seen[w].stored >= device
      BY <2>1 DEF ReadAgrees
    <3>3. QED
      BY <3>1, <3>2, RecordedStory
  <2>4. CASE status[n] # s
    BY <1>1, <1>3, <2>4 DEF RecordAcknowledgement
  <2>5. CASE status[n] = s
    <3>1. /\ status' = [status EXCEPT ![n] = next]
          /\ stored' = [stored EXCEPT ![n] = merged]
          /\ stamps' = [stamps EXCEPT ![n] = stamped]
      BY <1>3, <2>5 DEF RecordAcknowledgement
    <3>2. /\ s = "SENT" => stamps[n] = {}
          /\ s = "DELIVERED" => "delivered" \in stamps[n]
      BY <2>2, <2>5 DEF StoryAgrees
    <3>3. s \in {"SENT", "DELIVERED"}
      BY <2>1 DEF ReadAgrees
    <3>4. /\ next # "PROCESSING"
          /\ next = "SENT" => merged \in {0, 1} /\ stamped = {}
          /\ next = "DELIVERED" =>
                /\ "delivered" \in stamped
                /\ merged = error => "failed" \in stamped
                /\ merged # error => merged >= device
          /\ next = "FAILED" => merged = error /\ stamped = {"failed"}
      <4>1. CASE s = "SENT"
        BY <2>3, <3>2, <4>1 DEF error, device
      <4>2. CASE s = "DELIVERED"
        BY <2>3, <3>2, <4>2
      <4>3. QED
        BY <3>3, <4>1, <4>2
    <3>5. ASSUME NEW m \in Notifications, m # n
          PROVE  status'[m] = status[m] /\ stored'[m] = stored[m] /\ stamps'[m] = stamps[m]
      BY <3>1, <3>5
    <3>6. status'[n] = next /\ stored'[n] = merged /\ stamps'[n] = stamped
      BY <2>2, <3>1
    <3> HIDE DEF n, s, merged, next, stamped
    <3>7. UnsentIsUntouched'
      BY <2>2, <3>4, <3>5, <3>6 DEF UnsentIsUntouched
    <3>8. StoryAgrees'
      BY <2>2, <3>4, <3>5, <3>6 DEF StoryAgrees
    <3>9. QED
      BY <3>7, <3>8
  <2>6. QED
    BY <2>4, <2>5
<1>4. QED
  BY <1>1, <1>2, <1>3
     DEF Next, HandlerStep, Ingest, GracePasses, ExpireJob, FetchJob, ClaimForProcessing,
         ReadNotification, MarkProcessed, CompleteJob, Crash, HandlerThrows, row, vars

(* No accepted delivery is left without a job before its retries are used.  *)
LEMMA JobsStep ==
    ASSUME IInv, [Next]_vars
    PROVE  AcceptedKeepsJob' /\ WaitingIsAccepted'
<1> USE DEF IInv, TypeOK, WaitingIsAccepted
<1>1. ASSUME NEW r \in Receipts, inbox[r] # "absent", GiveBackJob(r), UNCHANGED inbox
      PROVE  AcceptedKeepsJob' /\ WaitingIsAccepted'
  BY <1>1, AcknowledgementsAssumption DEF GiveBackJob, AcceptedKeepsJob
<1>2. CASE UNCHANGED <<inbox, jobs>>
  BY <1>2 DEF AcceptedKeepsJob, jobs
<1>3. ASSUME NEW r \in Receipts, Ingest(r)
      PROVE  AcceptedKeepsJob' /\ WaitingIsAccepted'
  BY <1>3 DEF Ingest, AcceptedKeepsJob
<1>4. ASSUME NEW w \in Workers, NEW r \in Receipts, FetchJob(w, r)
      PROVE  AcceptedKeepsJob' /\ WaitingIsAccepted'
  BY <1>4 DEF FetchJob, AcceptedKeepsJob, receipt
<1>5. ASSUME NEW w \in Workers, pc[w] # "idle", Throw(w), UNCHANGED inbox
      PROVE  AcceptedKeepsJob' /\ WaitingIsAccepted'
  <2>1. job[w] \in Receipts /\ inbox[job[w]] # "absent"
    BY <1>5 DEF HandlersOK, HandlerOK
  <2>2. GiveBackJob(job[w]) \/ UNCHANGED jobs
    BY <1>5 DEF Throw
  <2>3. QED
    BY <1>1, <1>2, <1>5, <2>1, <2>2
<1>6. ASSUME NEW w \in Workers, MarkProcessed(w)
      PROVE  AcceptedKeepsJob' /\ WaitingIsAccepted'
  <2>1. result[w] \in Results /\ "absent" \notin Results /\ "pending" \notin Results
    BY <1>6 DEF MarkProcessed, HandlersOK, HandlerOK, Results
  <2>2. inbox' = [inbox EXCEPT ![job[w]] = result[w]] /\ UNCHANGED jobs
    BY <1>6 DEF MarkProcessed
  <2>3. QED
    BY <2>1, <2>2 DEF AcceptedKeepsJob, jobs
<1>7. ASSUME NEW w \in Workers, CompleteJob(w)
      PROVE  AcceptedKeepsJob' /\ WaitingIsAccepted'
  <2>1. job[w] \in Receipts /\ inbox[job[w]] \in Results
    BY <1>7 DEF CompleteJob, HandlersOK, HandlerOK
  <2>2. "pending" \notin Results /\ "absent" \notin Results
    BY DEF Results
  <2>3. /\ UNCHANGED <<inbox, retries>>
        /\ jobState' = [jobState EXCEPT ![job[w]] = "completed"] \/ UNCHANGED jobState
    BY <1>7 DEF CompleteJob, receipt
  <2>4. QED
    BY <2>1, <2>2, <2>3 DEF AcceptedKeepsJob
<1>8. ASSUME NEW r \in Receipts, ExpireJob(r)
      PROVE  AcceptedKeepsJob' /\ WaitingIsAccepted'
  BY <1>1, <1>8 DEF ExpireJob, receipt
<1>9. ASSUME NEW w \in Workers, ReadNotification(w) \/ HandlerThrows(w)
      PROVE  AcceptedKeepsJob' /\ WaitingIsAccepted'
  BY <1>2, <1>5, <1>9 DEF ReadNotification, HandlerThrows, receipt
<1>10. QED
  BY <1>2, <1>3, <1>4, <1>6, <1>7, <1>8, <1>9
     DEF Next, HandlerStep, RecordSent, GracePasses, ClaimForProcessing, RecordAcknowledgement,
         Crash, receipt, vars

(***************************************************************************)
(* The theorems.                                                           *)
(***************************************************************************)

(* The inductive invariant holds of a system with nothing received yet. *)
LEMMA InitIInv == Init => IInv
BY AcknowledgementsAssumption
   DEF Init, IInv, TypeOK, HandlersOK, HandlerOK, UnsentIsUntouched, StoryAgrees,
       AcceptedKeepsJob, WaitingIsAccepted, Statuses, Levels, Stages, Unread

(* Invariance of IInv: see its parts.                                       *)
THEOREM Invariance == Spec => []IInv
<1>1. IInv /\ [Next]_vars => IInv'
  BY TypeStep, HandlersStep, StoryStep, JobsStep DEF IInv
<1>2. QED
  BY InitIInv, <1>1, PTL DEF Spec

(* Every variable keeps to the values its column, queue state or handler    *)
(* stage can have.                                                          *)
THEOREM TypeCorrect == Spec => []TypeOK
BY Invariance, PTL DEF IInv

(* Status, acknowledgement and times tell one story, however many receipts  *)
(* are handled side by side, repeated or late.                              *)
THEOREM StoryTheorem == Spec => []StoryAgrees
BY Invariance, PTL DEF IInv

(* An accepted callback has a job that will run until it is resolved, or    *)
(* every retry of it has been used.                                         *)
THEOREM AcceptedTheorem == Spec => []AcceptedKeepsJob
BY Invariance, PTL DEF IInv

(* DELIVERED and FAILED are final for every receipt there may be.           *)
THEOREM FinalTheorem == Spec => FinalStaysFinal
<1> DEFINE Moves ==
      \A n \in Notifications :
          status'[n] # status[n] =>
              <<status[n], status'[n]>> \in {<<"PROCESSING", "SENT">>, <<"SENT", "DELIVERED">>,
                                             <<"SENT", "FAILED">>}
<1>1. ASSUME IInv, [Next]_vars
      PROVE  Moves
  <2> USE <1>1 DEF IInv, TypeOK
  <2>1. ASSUME NEW m \in Notifications, RecordSent(m)
        PROVE  Moves
    BY <2>1 DEF RecordSent
  <2>2. ASSUME NEW w \in Workers, RecordAcknowledgement(w)
        PROVE  Moves
    <3> DEFINE merged == Merge(seen[w].stored, level[job[w]])
               next == ResolveStatus(seen[w].status, merged)
    <3>1. \/ UNCHANGED status
          \/ /\ status[about[job[w]]] = seen[w].status
             /\ status' = [status EXCEPT ![about[job[w]]] = next]
      BY <2>2 DEF RecordAcknowledgement
    <3>2. /\ next # seen[w].status => seen[w].status = "SENT" /\ next \in {"DELIVERED", "FAILED"}
      BY DEF ResolveStatus
    <3> HIDE DEF next
    <3>3. QED
      BY <3>1, <3>2
  <2>3. CASE UNCHANGED status
    BY <2>3
  <2>4. QED
    BY <2>1, <2>2, <2>3
       DEF Next, HandlerStep, Ingest, GracePasses, ExpireJob, FetchJob, ClaimForProcessing,
           ReadNotification, MarkProcessed, CompleteJob, Crash, HandlerThrows, row, vars
<1>2. IInv /\ [Next]_vars => [Moves]_vars
  BY <1>1
<1> HIDE DEF Moves
<1>3. Spec => [][Moves]_vars
  BY <1>2, Invariance, PTL DEF Spec
<1>4. QED
  BY <1>3 DEF FinalStaysFinal, Moves
=============================================================================
