--------------------------- MODULE ConnectionProofs ---------------------------
(***************************************************************************)
(* What holds of a connection's pause, pacing and report of limits for     *)
(* every number of workers, every pacing and every error of the clocks.    *)
(***************************************************************************)
EXTENDS Connection, TLAPS

(***************************************************************************)
(* The inductive invariant.                                                *)
(***************************************************************************)

(* The next slot is due no sooner than the pacing after the last one.      *)
SlotAhead == slotAt # Never => nextSendAllowedAt >= slotAt + PacingMinimum

(* The stamp of the last check is no older than the last claim: a report    *)
(* filed late stamps the time at which it is filed.                         *)
StampAhead ==
    claimedAt # Never =>
        claimedAt <= clock /\ checkedAt # Never /\ checkedAt >= claimedAt - ClockError

(* A record in hand tells of the pause in the row, or the pause is newer.   *)
SeenIsRow ==
    \A w \in Workers : pc[w] # "idle" /\ ~unseen[w] => seen[w].pausedUntil = pausedUntil

(* Whoever is about to send has read of no pause that is still in force.    *)
SenderSawNoPause ==
    \A w \in Workers : pc[w] = "sending" => seen[w].pausedUntil <= clock + ClockError

(* Whoever is about to lift a pause has read of one that is over.           *)
SettlerSawPauseOver ==
    \A w \in Workers :
        pc[w] \in {"askingAboutPause", "ending"} => seen[w].pausedUntil <= clock + ClockError

IInv ==
    /\ TypeOK /\ SlotAhead /\ StampAhead /\ SeenIsRow
    /\ SenderSawNoPause /\ SettlerSawPauseOver

(***************************************************************************)
(* Operators.                                                              *)
(***************************************************************************)

(* A clock that is read tells a time near the database's. *)
LEMMA NowIsNear ==
    ASSUME TypeOK, NEW now \in Now
    PROVE  now \in Nat /\ now >= 1 /\ now >= clock - ClockError /\ now <= clock + ClockError
BY ConnectionAssumption DEF Now, TypeOK

(* The pause a report calls for is a time, or none. *)
LEMMA PauseIsTime ==
    ASSUME NEW report \in Reports, NEW observed \in BOOLEAN, NEW current \in Nat, NEW now \in Nat
    PROVE  ResolveSendingPause(report, observed, current, now) \in Nat
<1>1. now + FallbackPause \in Nat
  BY ConnectionAssumption
<1>2. report \in Ends => report \in Nat
  BY ConnectionAssumption
<1>3. FindPauseEnd(report, observed, now) \in Nat
  BY <1>1, <1>2 DEF FindPauseEnd, Never
<1>4. QED
  BY <1>3 DEF ResolveSendingPause

(* Recording a report extends the pause or leaves it, and stamps the time.  *)
LEMMA RecordLimitsExtends ==
    ASSUME TypeOK, NEW report \in Reports, NEW pause \in Nat, NEW now \in Now,
           RecordAccountLimits(report, pause, now)
    PROVE  /\ pausedUntil' \in Nat /\ pausedUntil' >= pausedUntil
           /\ checkedAt' \in Nat
           /\ checkedAt' = checkedAt \/ (checkedAt' # Never /\ checkedAt' >= clock - ClockError)
           /\ WritePause(pausedUntil')
<1>1. now \in Nat /\ now >= 1 /\ now >= clock - ClockError
  BY NowIsNear
<1>2. pausedUntil' = IF pause > pausedUntil THEN pause ELSE pausedUntil
  BY DEF RecordAccountLimits, WritePause
<1>3. checkedAt' = checkedAt \/ checkedAt' = now
  BY DEF RecordAccountLimits
<1>4. WritePause(pausedUntil')
  BY <1>2 DEF RecordAccountLimits
<1>5. QED
  BY <1>1, <1>2, <1>3, <1>4 DEF TypeOK, Never

(* The same of a report that ConnectionLimitsService records. *)
LEMMA RecordExtends ==
    ASSUME TypeOK, NEW report \in Reports, NEW observed \in BOOLEAN, NEW current \in Nat,
           Record(report, observed, current)
    PROVE  /\ pausedUntil' \in Nat /\ pausedUntil' >= pausedUntil
           /\ checkedAt' \in Nat
           /\ checkedAt' = checkedAt \/ (checkedAt' # Never /\ checkedAt' >= clock - ClockError)
           /\ WritePause(pausedUntil')
           /\ nextSendAllowedAt' = nextSendAllowedAt
<1>1. PICK now \in Now :
         RecordAccountLimits(report, ResolveSendingPause(report, observed, current, now), now)
  BY DEF Record
<1>2. ResolveSendingPause(report, observed, current, now) \in Nat
  BY NowIsNear, PauseIsTime
<1>3. nextSendAllowedAt' = nextSendAllowedAt
  BY DEF Record
<1>4. QED
  BY <1>1, <1>2, <1>3, RecordLimitsExtends

(***************************************************************************)
(* What each step does to the row.                                         *)
(***************************************************************************)

(* The steps that record a report. *)
Recording(w) ==
    \/ Repause(w) \/ NoteLimits(w) \/ ReportLimits(w) \/ RecordRefusal(w) \/ FileReport(w)

(* Filing a report changes the pause, the check and nothing else. *)
LEMMA RecordingRow ==
    ASSUME TypeOK, NEW w \in Workers, Recording(w)
    PROVE  /\ pausedUntil' \in Nat /\ pausedUntil' >= pausedUntil
           /\ checkedAt' \in Nat
           /\ checkedAt' = checkedAt \/ (checkedAt' # Never /\ checkedAt' >= clock - ClockError)
           /\ WritePause(pausedUntil')
           /\ UNCHANGED <<nextSendAllowedAt, clock, slotAt, claimedAt>>
           /\ pc[w] # "idle" /\ pc'[w] \in {"rereading", "confirming", "idle"}
           /\ \A v \in Workers \ {w} : pc'[v] = pc[v] /\ seen'[v] = seen[v]
           /\ seen'[w] = seen[w] \/ pc'[w] = "idle"
<1> USE DEF TypeOK
<1>1. answer[w] \in Reports /\ refused[w] \in BOOLEAN /\ seen[w].pausedUntil \in Nat
  OBVIOUS
<1>2. CASE Repause(w)
  BY <1>1, <1>2, RecordExtends DEF Repause, Goto, Record, Never
<1>3. CASE NoteLimits(w)
  BY <1>1, <1>3, RecordLimitsExtends DEF NoteLimits, Goto, Never
<1>4. CASE ReportLimits(w)
  BY <1>1, <1>4, RecordExtends DEF ReportLimits, Goto, Record
<1>5. CASE RecordRefusal(w)
  BY <1>1, <1>5, RecordExtends DEF RecordRefusal, Leave, Goto, Record
<1>6. CASE FileReport(w)
  BY <1>1, <1>6, RecordExtends DEF FileReport, Leave, Goto, Record
<1>7. QED
  BY <1>2, <1>3, <1>4, <1>5, <1>6 DEF Recording

(***************************************************************************)
(* The invariant is preserved.                                             *)
(***************************************************************************)

(* Every step keeps the types. *)
LEMMA TypeStep ==
    ASSUME TypeOK, [Next]_vars
    PROVE  TypeOK'
<1> USE DEF TypeOK
<1>1. CASE UNCHANGED vars
  BY <1>1 DEF vars, session, worker, history
<1>2. ASSUME NEW w \in Workers, NEW stage \in Stages, Goto(w, stage)
      PROVE  pc' \in [Workers -> Stages]
  BY <1>2 DEF Goto
<1>3. ASSUME NEW w \in Workers, Leave(w)
      PROVE  /\ pc' \in [Workers -> Stages] /\ answer' \in [Workers -> Reports]
             /\ seen' \in [Workers -> [pausedUntil : Nat, checked : BOOLEAN]]
             /\ refused' \in [Workers -> BOOLEAN]
  BY <1>3 DEF Leave, Goto, DropReport, Stages, Reports, Unread, Never
<1>4. ASSUME NEW until \in Nat, WritePause(until)
      PROVE  pausedUntil' \in Nat /\ unseen' \in [Workers -> BOOLEAN]
  BY <1>4 DEF WritePause
<1>5. ASSUME NEW w \in Workers, ReadRow(w)
      PROVE  /\ seen' \in [Workers -> [pausedUntil : Nat, checked : BOOLEAN]]
             /\ unseen' \in [Workers -> BOOLEAN]
  BY <1>5 DEF ReadRow
<1>6. ASSUME NEW w \in Workers, Hear(w)
      PROVE  answer' \in [Workers -> Reports]
  BY <1>6 DEF Hear
<1>7. ASSUME NEW w \in Workers, SettleStep(w)
      PROVE  TypeOK'
  <2>1. CASE FindSession(w)
    BY <1>5, <2>1 DEF FindSession, Goto, Stages, session
  <2>2. CASE AskAboutPause(w)
    BY <1>6, <2>2 DEF AskAboutPause, Goto, Stages, session
  <2>3. CASE Repause(w)
    BY <1>4, <2>3, RecordingRow DEF Recording, Repause, Goto, DropReport, Stages, Reports
  <2>4. CASE EndSendingPause(w)
    BY <1>4, <2>4 DEF EndSendingPause, Goto, Stages, Never
  <2>5. CASE NoteLimits(w)
    BY <1>4, <2>5, RecordingRow DEF Recording, NoteLimits, Goto, DropReport, Stages, Reports
  <2>6. CASE Reread(w)
    BY <1>5, <2>6 DEF Reread, Goto, Stages, session
  <2>7. QED
    BY <1>7, <2>1, <2>2, <2>3, <2>4, <2>5, <2>6 DEF SettleStep
<1>8. ASSUME NEW w \in Workers, RefreshStep(w)
      PROVE  TypeOK'
  <2>1. CASE ClaimRefresh(w)
    BY <2>1, NowIsNear DEF ClaimRefresh, Ask, Goto, Stages
  <2>2. CASE AskAboutLimits(w)
    BY <1>6, <2>2 DEF AskAboutLimits, Asking, Goto, Stages, session
  <2>3. CASE ReportLimits(w)
    BY <1>4, <2>3, RecordingRow DEF Recording, ReportLimits, Goto, DropReport, Stages, Reports
  <2>4. QED
    BY <1>8, <2>1, <2>2, <2>3 DEF RefreshStep
<1>9. ASSUME NEW w \in Workers, SendStep(w)
      PROVE  TypeOK'
  <2>1. CASE ReserveSendSlot(w)
    <3>1. nextSendAllowedAt' \in Nat /\ slotAt' \in Nat
      BY <2>1, ConnectionAssumption DEF ReserveSendSlot, NextSlot
    <3>2. Leave(w) \/ (Goto(w, "sending") /\ UNCHANGED <<seen, answer, refused>>)
      BY <2>1 DEF ReserveSendSlot
    <3>3. UNCHANGED <<clock, pausedUntil, checkedAt, claimedAt, unseen>>
      BY <2>1 DEF ReserveSendSlot
    <3>4. QED
      BY <1>3, <3>1, <3>2, <3>3 DEF Goto, Stages
  <2>2. CASE SendTextMessage(w)
    <3>1. UNCHANGED <<clock, session, history>>
      BY <2>2 DEF SendTextMessage
    <3>2. \/ Leave(w)
          \/ /\ \E restricted \in BOOLEAN : refused' = [refused EXCEPT ![w] = restricted]
             /\ Goto(w, "refused")
             /\ UNCHANGED <<seen, answer>>
      BY <2>2 DEF SendTextMessage
    <3>3. QED
      BY <1>3, <3>1, <3>2 DEF Goto, Stages, session, history
  <2>3. CASE AskAboutRefusal(w)
    BY <1>6, <2>3 DEF AskAboutRefusal, Goto, Stages, session
  <2>4. CASE RecordRefusal(w)
    BY <1>3, <1>4, <2>4, RecordingRow DEF Recording, RecordRefusal
  <2>5. QED
    BY <1>9, <2>1, <2>2, <2>3, <2>4 DEF SendStep
<1>10. ASSUME NEW w \in Workers, HearReport(w)
       PROVE  TypeOK'
  BY <1>5, <1>6, <1>10 DEF HearReport, Goto, Stages, session
<1>11. ASSUME NEW w \in Workers, FileReport(w)
       PROVE  TypeOK'
  BY <1>3, <1>4, <1>11, RecordingRow DEF Recording, FileReport
<1>12. ASSUME NEW w \in Workers, Abandon(w)
       PROVE  TypeOK'
  BY <1>3, <1>12 DEF Abandon, session, history
<1>13. CASE DoubtReportedLimits
  BY <1>13 DEF DoubtReportedLimits, worker, Never
<1>14. CASE Tick
  BY <1>14 DEF Tick, session, worker, history
<1>15. QED
  BY <1>1, <1>7, <1>8, <1>9, <1>10, <1>11, <1>12, <1>13, <1>14 DEF Next

(* Slots stay ahead of one another by the pacing. *)
LEMMA SlotStep ==
    ASSUME TypeOK, SlotAhead, [Next]_vars
    PROVE  SlotAhead'
<1> USE DEF SlotAhead
<1>1. CASE UNCHANGED <<slotAt, nextSendAllowedAt>>
  BY <1>1
<1>2. ASSUME NEW w \in Workers, ReserveSendSlot(w)
      PROVE  SlotAhead'
  BY <1>1, <1>2, ConnectionAssumption DEF ReserveSendSlot, NextSlot, TypeOK
<1>3. QED
  BY <1>1, <1>2, RecordingRow
     DEF Next, SettleStep, RefreshStep, SendStep, Recording, FindSession, AskAboutPause,
         EndSendingPause, Reread, ClaimRefresh, Ask, AskAboutLimits, Asking, SendTextMessage,
         AskAboutRefusal,
         HearReport, DoubtReportedLimits, Abandon, Tick, session, history, vars

(* The stamp of the last check keeps up with the last claim. *)
LEMMA StampStep ==
    ASSUME TypeOK, StampAhead, [Next]_vars
    PROVE  StampAhead'
<1> USE ConnectionAssumption DEF StampAhead, TypeOK
<1>1. CASE UNCHANGED <<clock, claimedAt, checkedAt>>
  BY <1>1
<1>2. ASSUME NEW w \in Workers, Recording(w)
      PROVE  StampAhead'
  BY <1>2, RecordingRow
<1>3. ASSUME NEW w \in Workers, ClaimRefresh(w)
      PROVE  StampAhead'
  <2>1. \/ UNCHANGED <<checkedAt, claimedAt>>
        \/ \E now \in Now : checkedAt' = now /\ claimedAt' = clock
    BY <1>3 DEF ClaimRefresh
  <2>2. UNCHANGED clock
    BY <1>3 DEF ClaimRefresh
  <2>3. QED
    BY <2>1, <2>2, NowIsNear DEF Never
<1>4. CASE DoubtReportedLimits
  BY <1>4 DEF DoubtReportedLimits
<1>5. CASE Tick
  BY <1>5 DEF Tick, session, history
<1>6. QED
  BY <1>1, <1>2, <1>3, <1>4, <1>5
     DEF Next, SettleStep, RefreshStep, SendStep, Recording, FindSession, AskAboutPause,
         EndSendingPause, Reread, AskAboutLimits, Asking, ReserveSendSlot, SendTextMessage,
         AskAboutRefusal, HearReport, Abandon, session, history, vars

(* A pause that is written is new to every worker with a record in hand. *)
LEMMA WritingIsUnseen ==
    ASSUME TypeOK, SeenIsRow, WritePause(pausedUntil'),
           NEW v \in Workers, pc[v] # "idle", ~unseen'[v]
    PROVE  seen[v].pausedUntil = pausedUntil'
<1>1. unseen'[v] = (pc[v] # "idle" /\ (unseen[v] \/ pausedUntil' # pausedUntil))
  BY DEF WritePause
<1>2. QED
  BY <1>1 DEF SeenIsRow

(* Every record in hand agrees with the row, or the pause is newer. *)
LEMMA SeenStep ==
    ASSUME TypeOK, SeenIsRow, [Next]_vars
    PROVE  SeenIsRow'
<1> SUFFICES ASSUME NEW v \in Workers, pc'[v] # "idle", ~unseen'[v]
             PROVE  seen'[v].pausedUntil = pausedUntil'
  BY DEF SeenIsRow
<1> USE DEF TypeOK
<1>1. CASE UNCHANGED <<pc, seen, pausedUntil, unseen>>
  BY <1>1 DEF SeenIsRow
<1>2. ASSUME NEW w \in Workers, ReadRow(w), UNCHANGED pausedUntil,
             v # w => pc'[v] = pc[v]
      PROVE  seen'[v].pausedUntil = pausedUntil'
  BY <1>2 DEF ReadRow, SeenIsRow
<1>3. ASSUME NEW w \in Workers, Recording(w)
      PROVE  seen'[v].pausedUntil = pausedUntil'
  <2>1. pc[v] # "idle" /\ seen'[v] = seen[v] /\ WritePause(pausedUntil')
    BY <1>3, RecordingRow
  <2>2. QED
    BY <2>1, WritingIsUnseen
<1>4. ASSUME NEW w \in Workers, EndSendingPause(w)
      PROVE  seen'[v].pausedUntil = pausedUntil'
  <2>1. WritePause(pausedUntil')
    BY <1>4 DEF EndSendingPause, WritePause
  <2>2. pc[v] # "idle" /\ seen'[v] = seen[v]
    BY <1>4 DEF EndSendingPause, Goto
  <2>3. QED
    BY <2>1, <2>2, WritingIsUnseen
<1>5. ASSUME NEW w \in Workers, UNCHANGED <<pausedUntil, unseen>>,
             pc[w] # "idle", Leave(w) \/ (UNCHANGED seen /\ \E stage \in Stages : Goto(w, stage))
      PROVE  seen'[v].pausedUntil = pausedUntil'
  BY <1>5 DEF Leave, Goto, SeenIsRow
<1>6. ASSUME NEW w \in Workers, FindSession(w) \/ Reread(w) \/ HearReport(w)
      PROVE  seen'[v].pausedUntil = pausedUntil'
  BY <1>2, <1>6 DEF FindSession, Reread, HearReport, Goto, session
<1>7. ASSUME NEW w \in Workers, AskAboutPause(w) \/ AskAboutLimits(w) \/ AskAboutRefusal(w)
      PROVE  seen'[v].pausedUntil = pausedUntil'
  BY <1>5, <1>7 DEF AskAboutPause, AskAboutLimits, Asking, AskAboutRefusal, session, Stages
<1>8. ASSUME NEW w \in Workers, ClaimRefresh(w)
      PROVE  seen'[v].pausedUntil = pausedUntil'
  BY <1>5, <1>8 DEF ClaimRefresh, Ask, Stages
<1>9. ASSUME NEW w \in Workers, ReserveSendSlot(w)
      PROVE  seen'[v].pausedUntil = pausedUntil'
  BY <1>5, <1>9 DEF ReserveSendSlot, Stages
<1>10. ASSUME NEW w \in Workers, SendTextMessage(w) \/ Abandon(w)
       PROVE  seen'[v].pausedUntil = pausedUntil'
  BY <1>5, <1>10 DEF SendTextMessage, Abandon, session, history, Stages
<1>11. CASE DoubtReportedLimits \/ Tick
  BY <1>1, <1>11 DEF DoubtReportedLimits, Tick, session, worker, history
<1>12. QED
  BY <1>1, <1>3, <1>4, <1>6, <1>7, <1>8, <1>9, <1>10, <1>11
     DEF Next, SettleStep, RefreshStep, SendStep, Recording, vars, session, worker, history

(* No step lets a worker send that has read of a pause still in force. *)
LEMMA SenderStep ==
    ASSUME TypeOK, SenderSawNoPause, [Next]_vars
    PROVE  SenderSawNoPause'
<1> SUFFICES ASSUME NEW v \in Workers, pc'[v] = "sending"
             PROVE  seen'[v].pausedUntil <= clock' + ClockError
  BY DEF SenderSawNoPause
<1> USE ConnectionAssumption DEF TypeOK
<1>1. ASSUME pc[v] = "sending", seen'[v] = seen[v], clock' = clock \/ clock' = clock + 1
      PROVE  seen'[v].pausedUntil <= clock' + ClockError
  BY <1>1 DEF SenderSawNoPause
<1>2. ASSUME NEW w \in Workers, ReserveSendSlot(w)
      PROVE  seen'[v].pausedUntil <= clock' + ClockError
  <2>1. CASE v # w
    BY <1>1, <1>2, <2>1 DEF ReserveSendSlot, Leave, Goto
  <2>2. CASE v = w
    <3>1. \E now \in Now : ~IsSendingPaused(seen[v].pausedUntil, now)
      BY <1>2, <2>2 DEF ReserveSendSlot, Leave, Goto
    <3>2. PICK now \in Now : ~IsSendingPaused(seen[v].pausedUntil, now)
      BY <3>1
    <3>3. seen[v].pausedUntil \in Nat
      OBVIOUS
    <3>4. seen[v].pausedUntil <= clock + ClockError
      BY <3>2, <3>3, NowIsNear DEF IsSendingPaused, Never
    <3>5. seen'[v] = seen[v] /\ clock' = clock
      BY <1>2, <2>2 DEF ReserveSendSlot, Leave, Goto
    <3>6. QED
      BY <3>4, <3>5
  <2>3. QED
    BY <2>1, <2>2
<1>3. ASSUME NEW w \in Workers, Recording(w)
      PROVE  seen'[v].pausedUntil <= clock' + ClockError
  BY <1>1, <1>3, RecordingRow
<1>4. ASSUME NEW w \in Workers, FindSession(w) \/ Reread(w) \/ HearReport(w)
      PROVE  seen'[v].pausedUntil <= clock' + ClockError
  BY <1>1, <1>4 DEF FindSession, Reread, HearReport, ReadRow, Goto
<1>5. ASSUME NEW w \in Workers,
             AskAboutPause(w) \/ EndSendingPause(w) \/ ClaimRefresh(w) \/ AskAboutLimits(w)
      PROVE  seen'[v].pausedUntil <= clock' + ClockError
  BY <1>1, <1>5 DEF AskAboutPause, EndSendingPause, ClaimRefresh, Ask, AskAboutLimits, Asking, Goto
<1>6. ASSUME NEW w \in Workers, SendTextMessage(w) \/ AskAboutRefusal(w) \/ Abandon(w)
      PROVE  seen'[v].pausedUntil <= clock' + ClockError
  BY <1>1, <1>6 DEF SendTextMessage, AskAboutRefusal, Abandon, Leave, Goto
<1>7. CASE DoubtReportedLimits \/ Tick \/ UNCHANGED vars
  BY <1>1, <1>7 DEF DoubtReportedLimits, Tick, worker, vars
<1>8. QED
  BY <1>2, <1>3, <1>4, <1>5, <1>6, <1>7 DEF Next, SettleStep, RefreshStep, SendStep, Recording

(* No step leads a worker to lift a pause that is still in force. *)
LEMMA SettlerStep ==
    ASSUME TypeOK, SettlerSawPauseOver, [Next]_vars
    PROVE  SettlerSawPauseOver'
<1> SUFFICES ASSUME NEW v \in Workers, pc'[v] \in {"askingAboutPause", "ending"}
             PROVE  seen'[v].pausedUntil <= clock' + ClockError
  BY DEF SettlerSawPauseOver
<1> USE ConnectionAssumption DEF TypeOK
<1>1. ASSUME pc[v] \in {"askingAboutPause", "ending"}, seen'[v] = seen[v],
             clock' = clock \/ clock' = clock + 1
      PROVE  seen'[v].pausedUntil <= clock' + ClockError
  BY <1>1 DEF SettlerSawPauseOver
<1>2. ASSUME NEW w \in Workers, FindSession(w)
      PROVE  seen'[v].pausedUntil <= clock' + ClockError
  <2>1. CASE v # w
    BY <1>1, <1>2, <2>1 DEF FindSession, ReadRow, Goto
  <2>2. CASE v = w
    <3>1. \E now \in Now : pausedUntil <= now
      BY <1>2, <2>2 DEF FindSession, Goto
    <3>2. PICK now \in Now : pausedUntil <= now
      BY <3>1
    <3>3. pausedUntil <= clock + ClockError
      BY <3>2, NowIsNear
    <3>4. seen'[v].pausedUntil = pausedUntil /\ clock' = clock
      BY <1>2, <2>2 DEF FindSession, ReadRow
    <3>5. QED
      BY <3>3, <3>4
  <2>3. QED
    BY <2>1, <2>2
<1>3. ASSUME NEW w \in Workers, Recording(w)
      PROVE  seen'[v].pausedUntil <= clock' + ClockError
  BY <1>1, <1>3, RecordingRow
<1>4. ASSUME NEW w \in Workers, Reread(w) \/ HearReport(w) \/ ReserveSendSlot(w)
      PROVE  seen'[v].pausedUntil <= clock' + ClockError
  BY <1>1, <1>4 DEF Reread, HearReport, ReserveSendSlot, Leave, ReadRow, Goto
<1>5. ASSUME NEW w \in Workers,
             AskAboutPause(w) \/ EndSendingPause(w) \/ ClaimRefresh(w) \/ AskAboutLimits(w)
      PROVE  seen'[v].pausedUntil <= clock' + ClockError
  BY <1>1, <1>5 DEF AskAboutPause, EndSendingPause, ClaimRefresh, Ask, AskAboutLimits, Asking, Goto
<1>6. ASSUME NEW w \in Workers, SendTextMessage(w) \/ AskAboutRefusal(w) \/ Abandon(w)
      PROVE  seen'[v].pausedUntil <= clock' + ClockError
  BY <1>1, <1>6 DEF SendTextMessage, AskAboutRefusal, Abandon, Leave, Goto
<1>7. CASE DoubtReportedLimits \/ Tick \/ UNCHANGED vars
  BY <1>1, <1>7 DEF DoubtReportedLimits, Tick, worker, vars
<1>8. QED
  BY <1>2, <1>3, <1>4, <1>5, <1>6, <1>7 DEF Next, SettleStep, RefreshStep, SendStep, Recording

(***************************************************************************)
(* The theorems.                                                           *)
(***************************************************************************)

(* The inductive invariant holds of a session just created. *)
LEMMA InitIInv == Init => IInv
<1> SUFFICES ASSUME Init
             PROVE  IInv
  OBVIOUS
<1>1. Unread \in [pausedUntil : Nat, checked : BOOLEAN]
  BY DEF Unread, Never
<1>2. NoAnswer \in Reports /\ "idle" \in Stages
  BY DEF Reports, Stages
<1>3. TypeOK
  <2>1. clock \in Nat \ {0} /\ pausedUntil \in Nat /\ checkedAt \in Nat /\ nextSendAllowedAt \in Nat
    BY DEF Init, Never
  <2>2. pc \in [Workers -> Stages] /\ answer \in [Workers -> Reports]
    BY <1>2 DEF Init
  <2>3. seen \in [Workers -> [pausedUntil : Nat, checked : BOOLEAN]]
    BY <1>1 DEF Init
  <2>4. refused \in [Workers -> BOOLEAN] /\ unseen \in [Workers -> BOOLEAN]
    BY DEF Init
  <2>5. slotAt \in Nat /\ claimedAt \in Nat
    BY DEF Init, Never
  <2>6. QED
    BY <2>1, <2>2, <2>3, <2>4, <2>5 DEF TypeOK
<1>4. SlotAhead /\ StampAhead
  BY DEF Init, SlotAhead, StampAhead
<1>5. \A w \in Workers : pc[w] = "idle"
  BY DEF Init
<1>6. SeenIsRow /\ SenderSawNoPause /\ SettlerSawPauseOver
  BY <1>5 DEF SeenIsRow, SenderSawNoPause, SettlerSawPauseOver
<1>7. QED
  BY <1>3, <1>4, <1>6 DEF IInv

(* Invariance of IInv: see its parts.                                       *)
THEOREM Invariance == Spec => []IInv
<1>1. IInv /\ [Next]_vars => IInv'
  BY TypeStep, SlotStep, StampStep, SeenStep, SenderStep, SettlerStep DEF IInv
<1>2. QED
  BY InitIInv, <1>1, PTL DEF Spec

(* Every variable keeps to the values its column or handler stage can have. *)
THEOREM TypeCorrect == Spec => []TypeOK
BY Invariance, PTL DEF IInv

(* A worker about to send over a pause has not read the row since the pause *)
(* was written, however many workers and reports there are.                 *)
THEOREM PauseHeededTheorem == Spec => []PauseHeeded
<1>1. IInv => PauseHeeded
  <2> SUFFICES ASSUME IInv, NEW w \in Workers, pc[w] = "sending",
                      pausedUntil > clock + ClockError, ~unseen[w]
               PROVE  FALSE
    BY DEF PauseHeeded, IInv, TypeOK
  <2>1. seen[w].pausedUntil = pausedUntil
    BY DEF IInv, SeenIsRow
  <2>2. seen[w].pausedUntil <= clock + ClockError
    BY DEF IInv, SenderSawNoPause
  <2>3. QED
    BY <2>1, <2>2, ConnectionAssumption DEF IInv, TypeOK
<1>2. QED
  BY <1>1, Invariance, PTL

(* No step but the lifting of a pause that is over takes a pause back.      *)
THEOREM PauseNeverShortenedTheorem == Spec => PauseNeverShortened
<1> DEFINE Kept == \/ pausedUntil' >= pausedUntil
                   \/ pausedUntil' = Never /\ pausedUntil <= clock + ClockError
<1>1. ASSUME IInv, [Next]_vars
      PROVE  Kept
  <2> USE <1>1 DEF IInv, TypeOK
  <2>1. ASSUME NEW w \in Workers, Recording(w)
        PROVE  Kept
    BY <2>1, RecordingRow
  <2>2. ASSUME NEW w \in Workers, EndSendingPause(w)
        PROVE  Kept
    <3>1. seen[w].pausedUntil <= clock + ClockError
      BY <2>2 DEF EndSendingPause, SettlerSawPauseOver
    <3>2. pausedUntil' = IF pausedUntil = seen[w].pausedUntil THEN Never ELSE pausedUntil
      BY <2>2 DEF EndSendingPause, WritePause
    <3>3. QED
      BY <3>1, <3>2
  <2>3. CASE UNCHANGED pausedUntil
    BY <2>3
  <2>4. QED
    BY <2>1, <2>2, <2>3
       DEF Next, SettleStep, RefreshStep, SendStep, Recording, FindSession, AskAboutPause, Reread,
           ClaimRefresh, Ask, AskAboutLimits, Asking, ReserveSendSlot, SendTextMessage,
           AskAboutRefusal,
           HearReport, Abandon, DoubtReportedLimits, Tick, session, vars
<1>2. IInv /\ [Next]_vars => [Kept]_vars
  BY <1>1
<1> HIDE DEF Kept
<1>3. Spec => [][Kept]_vars
  BY <1>2, Invariance, PTL DEF Spec
<1>4. QED
  BY <1>3 DEF PauseNeverShortened, Kept

(* Two slots of a connection lie its pacing apart, for every number of     *)
(* workers that reserve them.                                               *)
THEOREM SlotsKeepDistanceTheorem == Spec => SlotsKeepDistance
<1> DEFINE Apart ==
      \A w \in Workers :
          pc[w] = "checking" /\ pc'[w] = "sending" =>
              slotAt = Never \/ clock - slotAt >= PacingMinimum - ClockError
<1>1. ASSUME IInv, [Next]_vars
      PROVE  Apart
  <2> SUFFICES ASSUME NEW v \in Workers, pc[v] = "checking", pc'[v] = "sending", slotAt # Never
               PROVE  clock - slotAt >= PacingMinimum - ClockError
    OBVIOUS
  <2> USE <1>1, ConnectionAssumption DEF IInv, TypeOK
  <2>1. ASSUME NEW w \in Workers, ReserveSendSlot(w)
        PROVE  clock - slotAt >= PacingMinimum - ClockError
    <3>1. v = w
      BY <2>1 DEF ReserveSendSlot, Leave, Goto
    <3>2. \E now \in Now : nextSendAllowedAt <= now
      BY <2>1, <3>1, NowIsNear DEF ReserveSendSlot, Leave, Goto
    <3>3. PICK now \in Now : nextSendAllowedAt <= now
      BY <3>2
    <3>4. now \in Nat /\ now <= clock + ClockError
      BY NowIsNear
    <3>5. nextSendAllowedAt >= slotAt + PacingMinimum
      BY DEF SlotAhead
    <3>6. QED
      BY <3>3, <3>4, <3>5
  <2>2. ASSUME NEW w \in Workers, Recording(w)
        PROVE  FALSE
    BY <2>2, RecordingRow
  <2>3. QED
    BY <2>1, <2>2
       DEF Next, SettleStep, RefreshStep, SendStep, Recording, FindSession, AskAboutPause, Reread,
           EndSendingPause, ClaimRefresh, Ask, AskAboutLimits, Asking, SendTextMessage,
           AskAboutRefusal,
           Leave,
           Goto, HearReport, Abandon, DoubtReportedLimits, Tick, worker, vars
<1>2. IInv /\ [Next]_vars => [Apart]_vars
  BY <1>1
<1> HIDE DEF Apart
<1>3. Spec => [][Apart]_vars
  BY <1>2, Invariance, PTL DEF Spec
<1>4. QED
  BY <1>3 DEF SlotsKeepDistance, Apart

(* Two refreshes lie the age of a report apart, unless it was doubted.      *)
THEOREM RefreshesKeepDistanceTheorem == Spec => RefreshesKeepDistance
<1> DEFINE Apart ==
      \A w \in Workers :
          pc[w] = "claiming" /\ pc'[w] \in Asking =>
              claimedAt = Never \/ clock - claimedAt >= MaximumAge - 2 * ClockError
<1>1. ASSUME IInv, [Next]_vars
      PROVE  Apart
  <2> SUFFICES ASSUME NEW v \in Workers, pc[v] = "claiming", pc'[v] \in Asking, claimedAt # Never
               PROVE  clock - claimedAt >= MaximumAge - 2 * ClockError
    OBVIOUS
  <2> USE <1>1, ConnectionAssumption DEF IInv, TypeOK
  <2>1. ASSUME NEW w \in Workers, ClaimRefresh(w)
        PROVE  clock - claimedAt >= MaximumAge - 2 * ClockError
    <3>1. v = w
      BY <2>1 DEF ClaimRefresh, Ask, Asking, Goto
    <3>2. \E now \in Now : IsStale(now)
      BY <2>1, <3>1 DEF ClaimRefresh, Ask, Asking, Goto
    <3>3. PICK now \in Now : IsStale(now)
      BY <3>2
    <3>4. now \in Nat /\ now <= clock + ClockError
      BY NowIsNear
    <3>5. checkedAt # Never /\ checkedAt >= claimedAt - ClockError
      BY DEF StampAhead
    <3>6. QED
      BY <3>3, <3>4, <3>5 DEF IsStale
  <2>2. ASSUME NEW w \in Workers, Recording(w)
        PROVE  FALSE
    BY <2>2, RecordingRow DEF Asking
  <2>3. QED
    BY <2>1, <2>2
       DEF Next, SettleStep, RefreshStep, SendStep, Recording, FindSession, AskAboutPause, Reread,
           EndSendingPause, ReserveSendSlot, AskAboutLimits, Asking, SendTextMessage,
           AskAboutRefusal,
           Leave, Goto, HearReport, Abandon, DoubtReportedLimits, Tick, worker, vars
<1>2. IInv /\ [Next]_vars => [Apart]_vars
  BY <1>1
<1> HIDE DEF Apart
<1>3. Spec => [][Apart]_vars
  BY <1>2, Invariance, PTL DEF Spec
<1>4. QED
  BY <1>3 DEF RefreshesKeepDistance, Apart
=============================================================================
