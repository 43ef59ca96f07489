------------------------------ MODULE Connection ------------------------------
(***************************************************************************)
(* One connection's row in whatsapp_sessions, as far as it decides whether *)
(* a message may go out: the pause that a reachout timelock calls for, the *)
(* age of the last report of the account's limits, and the pacing slot.    *)
(*                                                                         *)
(* Workers dispatch notifications over the connection, and file the        *)
(* reports that callbacks and status lookups carry.  One action is one     *)
(* database round trip or one question to the provider.  What WhatsApp and *)
(* the provider answer is left open: any report may follow any other, be   *)
(* old, or fail to come.                                                   *)
(*                                                                         *)
(* Time is a natural number that starts at 1, as the database counts it;   *)
(* 0 is a null column.  A process reads its own clock, which with the      *)
(* moment between reading it and running the statement may be off by       *)
(* ClockError either way.                                                  *)
(*                                                                         *)
(* A definition that stands just before the one it resembles, and that     *)
(* nothing uses, is a mistake that one could have.                         *)
(***************************************************************************)
EXTENDS Integers

CONSTANTS
    Workers,            \* handler slots, over every worker process
    Ends,               \* the ends a timelock may be reported with; 0: it does not say
    PacingMinimum, PacingMaximum,   \* send_pacing_minimum_seconds and _maximum_
    FallbackPause,      \* the pause when nothing says for how long
    MaximumAge,         \* ACCOUNT_LIMITS_MAXIMUM_AGE_MILLISECONDS
    ClockError,
    Horizon             \* bound: the last instant of a behaviour

ASSUME ConnectionAssumption ==
    /\ Ends \subseteq Nat
    /\ PacingMinimum \in Nat /\ PacingMaximum \in Nat /\ PacingMinimum <= PacingMaximum
    /\ FallbackPause \in Nat \ {0}
    /\ MaximumAge \in Nat
    /\ ClockError \in Nat
    /\ Horizon \in Nat

VARIABLES
    clock,
    \* the row in whatsapp_sessions
    pausedUntil,        \* sending_paused_until
    checkedAt,          \* account_limits_checked_at
    nextSendAllowedAt,
    \* the workers, each between two round trips
    pc,
    seen,       \* the record it has read: the pause, and whether limits were ever checked
    answer,     \* the report it has in hand
    refused,    \* WhatsApp refused its message for reaching out
    \* what happened, which no worker reads
    slotAt,     \* the last slot was reserved then
    claimedAt,  \* the last refresh was claimed then, 0 if it was doubted since
    unseen      \* the pause was written after the worker last read the row

session == <<pausedUntil, checkedAt, nextSendAllowedAt>>
worker  == <<pc, seen, answer, refused>>
history == <<slotAt, claimedAt, unseen>>
vars    == <<clock, session, worker, history>>

Never    == 0
NoLock   == -1      \* a report of no timelock in force
NoAnswer == -2      \* neither WhatsApp nor the provider's memory could be had
Reports  == {NoAnswer, NoLock} \cup Ends

Stages == {"idle", "askingAboutPause", "repausing", "ending", "noting", "rereading",
           "claiming", "askingWhatsApp", "askingProvider", "reporting", "confirming",
           "checking", "sending", "refused", "recordingRefusal", "filing"}
Asking == {"askingWhatsApp", "askingProvider"}

(* Every variable keeps to the values its column or handler stage can have. *)
TypeOK ==
    /\ clock \in Nat \ {0}
    /\ pausedUntil \in Nat /\ checkedAt \in Nat /\ nextSendAllowedAt \in Nat
    /\ pc \in [Workers -> Stages]
    /\ seen \in [Workers -> [pausedUntil : Nat, checked : BOOLEAN]]
    /\ answer \in [Workers -> Reports]
    /\ refused \in [Workers -> BOOLEAN]
    /\ slotAt \in Nat /\ claimedAt \in Nat
    /\ unseen \in [Workers -> BOOLEAN]

Unread == [pausedUntil |-> Never, checked |-> FALSE]

(* A session just created: due at once, never checked and never paused.    *)
Init ==
    /\ clock = 1
    /\ pausedUntil = Never /\ checkedAt = Never /\ nextSendAllowedAt = 1
    /\ pc = [w \in Workers |-> "idle"]
    /\ seen = [w \in Workers |-> Unread]
    /\ answer = [w \in Workers |-> NoAnswer]
    /\ refused = [w \in Workers |-> FALSE]
    /\ slotAt = Never /\ claimedAt = Never
    /\ unseen = [w \in Workers |-> FALSE]

(* What a process may read from its clock. *)
Now == {t \in (clock - ClockError) .. (clock + ClockError) : t >= 1}

-----------------------------------------------------------------------------
(* The pause a report calls for.                                           *)

(* findPauseEnd: a timelock whose end is not told, or past, counts from now. *)
FindPauseEnd(report, observed, now) ==
    IF report \in Ends /\ report > now      THEN report
    ELSE IF report \in Ends \/ observed     THEN now + FallbackPause
    ELSE Never

(* resolveSendingPause: never before the end of the one known to be in force. *)
ResolveSendingPause(report, observed, current, now) ==
    LET end == FindPauseEnd(report, observed, now)
    IN  IF end # Never /\ current > end THEN current ELSE end

(* The pause is written; whoever read the row before has not seen it.      *)
WritePause(until) ==
    /\ pausedUntil' = until
    /\ unseen' = [w \in Workers |-> pc[w] # "idle" /\ (unseen[w] \/ until # pausedUntil)]

(* recordAccountLimits: the later of two pauses wins in the statement       *)
(* itself, and a report stamps the time of the check.                       *)
RecordLatestPause(report, pause, now) ==
    /\ WritePause(IF pause = Never THEN pausedUntil ELSE pause)
    /\ checkedAt' = IF report = NoAnswer THEN checkedAt ELSE now
RecordAccountLimits(report, pause, now) ==
    /\ WritePause(IF pause > pausedUntil THEN pause ELSE pausedUntil)
    /\ checkedAt' = IF report = NoAnswer THEN checkedAt ELSE now

(* ConnectionLimitsService.record *)
Record(report, observed, current) ==
    /\ \E now \in Now :
          RecordAccountLimits(report, ResolveSendingPause(report, observed, current, now), now)
    /\ UNCHANGED nextSendAllowedAt

-----------------------------------------------------------------------------
Goto(w, stage) == pc' = [pc EXCEPT ![w] = stage]

(* The answer of WhatsApp, or of the provider's memory where WhatsApp gives *)
(* none or is not asked.                                                    *)
Hear(w) == \E report \in Reports : answer' = [answer EXCEPT ![w] = report]

DropReport(w) == answer' = [answer EXCEPT ![w] = NoAnswer]

(* The row is read, by dispatch or again by reread.                        *)
ReadRow(w) ==
    /\ seen' = [seen EXCEPT ![w] = [pausedUntil |-> pausedUntil, checked |-> checkedAt # Never]]
    /\ unseen' = [unseen EXCEPT ![w] = FALSE]

(* dispatch looks the session up, and settleExpiredPause compares at once.  *)
FindSession(w) ==
    /\ pc[w] = "idle"
    /\ ReadRow(w)
    /\ \E now \in Now :
          Goto(w, IF pausedUntil # Never /\ pausedUntil <= now THEN "askingAboutPause"
                                                               ELSE "claiming")
    /\ UNCHANGED <<clock, session, answer, refused, slotAt, claimedAt>>

(* fetchLimits: the timelock may still hold.                                *)
AskAboutPause(w) ==
    /\ pc[w] = "askingAboutPause"
    /\ Hear(w)
    /\ Goto(w, IF answer'[w] \in Ends THEN "repausing" ELSE "ending")
    /\ UNCHANGED <<clock, session, seen, refused, slotAt, claimedAt, unseen>>

(* It does: recorded as a fresh pause, not measured against the expired one. *)
Repause(w) ==
    /\ pc[w] = "repausing"
    /\ Record(answer[w], FALSE, Never)
    /\ DropReport(w)
    /\ Goto(w, "rereading")
    /\ UNCHANGED <<clock, seen, refused, slotAt, claimedAt>>

(* It does not: endSendingPause lifts the pause that was read and no other. *)
EndSendingPause(w) ==
    /\ pc[w] = "ending"
    /\ WritePause(IF pausedUntil = seen[w].pausedUntil THEN Never ELSE pausedUntil)
    /\ Goto(w, IF answer[w] = NoAnswer THEN "rereading" ELSE "noting")
    /\ UNCHANGED <<clock, checkedAt, nextSendAllowedAt, seen, answer, refused, slotAt,
                   claimedAt>>

NoteLimits(w) ==
    /\ pc[w] = "noting"
    /\ \E now \in Now : RecordAccountLimits(answer[w], Never, now)
    /\ DropReport(w)
    /\ Goto(w, "rereading")
    /\ UNCHANGED <<clock, nextSendAllowedAt, seen, refused, slotAt, claimedAt>>

(* reread, after settling and after refreshing.                            *)
KeepRecord(w) ==
    /\ pc[w] \in {"rereading", "confirming"}
    /\ seen' = [seen EXCEPT ![w].pausedUntil = Never]
    /\ Goto(w, IF pc[w] = "rereading" THEN "claiming" ELSE "checking")
    /\ UNCHANGED <<clock, session, answer, refused, history>>
Reread(w) ==
    /\ pc[w] \in {"rereading", "confirming"}
    /\ ReadRow(w)
    /\ Goto(w, IF pc[w] = "rereading" THEN "claiming" ELSE "checking")
    /\ UNCHANGED <<clock, session, answer, refused, slotAt, claimedAt>>

-----------------------------------------------------------------------------
(* Keeping the report of the limits fresh.                                 *)

IsStale(now) == checkedAt = Never \/ checkedAt < now - MaximumAge

(* WhatsApp is asked where the record that was read, before the claim, says *)
(* that the limits were never checked or are doubted; the provider's memory *)
(* will do otherwise.                                                       *)
Ask(w) == Goto(w, IF seen[w].checked THEN "askingProvider" ELSE "askingWhatsApp")

(* claimAccountLimitsRefresh stamps the check before it is made.            *)
ClaimWithCutoff(w) ==
    /\ pc[w] = "claiming"
    /\ \E now \in Now :
          IF IsStale(now)
            THEN /\ checkedAt' = now - MaximumAge
                 /\ claimedAt' = clock
                 /\ Ask(w)
            ELSE /\ Goto(w, "checking")
                 /\ UNCHANGED <<checkedAt, claimedAt>>
    /\ UNCHANGED <<clock, pausedUntil, nextSendAllowedAt, seen, answer, refused, slotAt, unseen>>
ClaimUnstamped(w) ==
    /\ pc[w] = "claiming"
    /\ \E now \in Now :
          IF IsStale(now)
            THEN claimedAt' = clock /\ Ask(w)
            ELSE Goto(w, "checking") /\ UNCHANGED claimedAt
    /\ UNCHANGED <<clock, session, seen, answer, refused, slotAt, unseen>>
ClaimRefresh(w) ==
    /\ pc[w] = "claiming"
    /\ \E now \in Now :
          IF IsStale(now)
            THEN /\ checkedAt' = now
                 /\ claimedAt' = clock
                 /\ Ask(w)
            ELSE /\ Goto(w, "checking")
                 /\ UNCHANGED <<checkedAt, claimedAt>>
    /\ UNCHANGED <<clock, pausedUntil, nextSendAllowedAt, seen, answer, refused, slotAt, unseen>>

AskAboutLimits(w) ==
    /\ pc[w] \in Asking
    /\ Hear(w)
    /\ Goto(w, IF answer'[w] = NoAnswer THEN "confirming" ELSE "reporting")
    /\ UNCHANGED <<clock, session, seen, refused, slotAt, claimedAt, unseen>>

ReportLimits(w) ==
    /\ pc[w] = "reporting"
    /\ Record(answer[w], FALSE, seen[w].pausedUntil)
    /\ DropReport(w)
    /\ Goto(w, "confirming")
    /\ UNCHANGED <<clock, seen, refused, slotAt, claimedAt>>

-----------------------------------------------------------------------------
(* Sending.                                                                *)

Leave(w) ==
    /\ Goto(w, "idle")
    /\ DropReport(w)
    /\ seen' = [seen EXCEPT ![w] = Unread]
    /\ refused' = [refused EXCEPT ![w] = FALSE]

IsSendingPaused(until, now) == until # Never /\ until > now

(* reserveSendSlot counts the pause between two messages from the time the  *)
(* database has, and compares the slot with the time the worker has.        *)
NextSlotAfterLast(delay) == nextSendAllowedAt + delay
NextSlot(delay) == clock + delay

(* The pause is checked, and nothing is awaited before the slot is asked    *)
(* for.  A paused connection, or a slot not due yet, puts it back.          *)
ReserveSendSlot(w) ==
    /\ pc[w] = "checking"
    /\ \E now \in Now :
          IF IsSendingPaused(seen[w].pausedUntil, now) \/ nextSendAllowedAt > now
            THEN Leave(w) /\ UNCHANGED <<nextSendAllowedAt, slotAt>>
            ELSE /\ \E delay \in PacingMinimum .. PacingMaximum :
                       nextSendAllowedAt' = NextSlot(delay)
                 /\ slotAt' = clock
                 /\ Goto(w, "sending")
                 /\ UNCHANGED <<seen, answer, refused>>
    /\ UNCHANGED <<clock, pausedUntil, checkedAt, claimedAt, unseen>>

(* WhatsApp takes the message or not; it may refuse it for reaching out, by *)
(* the timelock or by the quota.                                            *)
SendTextMessage(w) ==
    /\ pc[w] = "sending"
    /\ \/ Leave(w)
       \/ /\ \E restricted \in BOOLEAN : refused' = [refused EXCEPT ![w] = restricted]
          /\ Goto(w, "refused")
          /\ UNCHANGED <<seen, answer>>
    /\ UNCHANGED <<clock, session, history>>

(* recordRefusal: WhatsApp is asked afresh, and the pause is measured       *)
(* against the record that was read before the send.                        *)
AskAboutRefusal(w) ==
    /\ pc[w] = "refused"
    /\ Hear(w)
    /\ Goto(w, "recordingRefusal")
    /\ UNCHANGED <<clock, session, seen, refused, slotAt, claimedAt, unseen>>

RecordRefusal(w) ==
    /\ pc[w] = "recordingRefusal"
    /\ Record(answer[w], refused[w], seen[w].pausedUntil)
    /\ Leave(w)
    /\ UNCHANGED <<clock, slotAt, claimedAt>>

-----------------------------------------------------------------------------
(* Reports and doubts from elsewhere.                                      *)

(* A session status callback, or refreshStatus: the row is read and a       *)
(* report is in hand, and filed some time later.                            *)
HearReport(w) ==
    /\ pc[w] = "idle"
    /\ ReadRow(w)
    /\ Hear(w)
    /\ answer'[w] # NoAnswer
    /\ Goto(w, "filing")
    /\ UNCHANGED <<clock, session, refused, slotAt, claimedAt>>

FileReport(w) ==
    /\ pc[w] = "filing"
    /\ Record(answer[w], FALSE, seen[w].pausedUntil)
    /\ Leave(w)
    /\ UNCHANGED <<clock, slotAt, claimedAt>>

(* invalidateAccountLimits, for a delivery that failed after the fact.      *)
DoubtReportedLimits ==
    /\ checkedAt' = Never
    /\ claimedAt' = Never
    /\ UNCHANGED <<clock, pausedUntil, nextSendAllowedAt, worker, slotAt, unseen>>

(* The dispatch ends on another ground, or its worker is lost.              *)
Abandon(w) ==
    /\ pc[w] # "idle"
    /\ Leave(w)
    /\ UNCHANGED <<clock, session, history>>

Tick ==
    /\ clock < Horizon
    /\ clock' = clock + 1
    /\ UNCHANGED <<session, worker, history>>

-----------------------------------------------------------------------------
SettleStep(w) ==
    \/ FindSession(w) \/ AskAboutPause(w) \/ Repause(w) \/ EndSendingPause(w)
    \/ NoteLimits(w) \/ Reread(w)

RefreshStep(w) == ClaimRefresh(w) \/ AskAboutLimits(w) \/ ReportLimits(w)

SendStep(w) ==
    \/ ReserveSendSlot(w) \/ SendTextMessage(w) \/ AskAboutRefusal(w) \/ RecordRefusal(w)

Next ==
    \/ \E w \in Workers :
          \/ SettleStep(w) \/ RefreshStep(w) \/ SendStep(w)
          \/ HearReport(w) \/ FileReport(w) \/ Abandon(w)
    \/ DoubtReportedLimits
    \/ Tick

Spec == Init /\ [][Next]_vars

-----------------------------------------------------------------------------
(* "A pause is never shortened": whatever reports cross on their way to the *)
(* row, a pause is replaced by a later one or, once it is over, lifted.     *)
PauseNeverShortened ==
    [][\/ pausedUntil' >= pausedUntil
       \/ pausedUntil' = Never /\ pausedUntil <= clock + ClockError]_vars

(* "nothing at all reaches WhatsApp while it is paused", as far as a worker *)
(* can know: one that is about to send over a pause has not read the row    *)
(* since that pause was written.                                            *)
PauseHeeded ==
    \A w \in Workers :
        pc[w] = "sending" /\ pausedUntil > clock + ClockError => unseen[w]

(* Two slots are as far apart as the connection's pacing says, whoever      *)
(* reserves them, but for the error of the clocks.                          *)
SlotsKeepDistance ==
    [][\A w \in Workers :
          pc[w] = "checking" /\ pc'[w] = "sending" =>
              slotAt = Never \/ clock - slotAt >= PacingMinimum - ClockError]_vars

(* "Only one worker refreshes at a time": between two refreshes lies the    *)
(* age a report may reach, unless it was doubted, whatever becomes of them. *)
RefreshesKeepDistance ==
    [][\A w \in Workers :
          pc[w] = "claiming" /\ pc'[w] \in Asking =>
              claimedAt = Never \/ clock - claimedAt >= MaximumAge - 2 * ClockError]_vars

-----------------------------------------------------------------------------
(* What the repository says of the program and the program does not do.    *)

(* "Never checked, or doubted after a failed delivery: worth WhatsApp's own *)
(* answer": a refresh claimed over a doubt asks WhatsApp.                   *)
DoubtAsksWhatsApp ==
    [][\A w \in Workers :
          pc[w] = "claiming" /\ pc'[w] \in Asking /\ checkedAt = Never =>
              pc'[w] = "askingWhatsApp"]_vars
=============================================================================
