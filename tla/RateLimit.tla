------------------------------- MODULE RateLimit -------------------------------
(***************************************************************************)
(* The allowance of one subject: an API key, or an address that signs in   *)
(* or registers.  consume_rate_limit keeps the moment at which the next    *)
(* request would be on pace, and lets a caller borrow a burst against it.  *)
(*                                                                         *)
(* A request is stamped by the clock of the process it reaches and decided *)
(* later, by one statement: requests are decided in any order.  The        *)
(* statement decides by the row as it is by then, under its lock, but      *)
(* explains a refusal by the row as it was when the statement began.  Now  *)
(* and then a decision cannot be had, and the request passes unmetered;    *)
(* and maintenance drops a bucket that was not touched for long.           *)
(*                                                                         *)
(* A definition that stands just before the one it resembles, and that     *)
(* nothing uses, is a mistake that one could have.                         *)
(***************************************************************************)
EXTENDS Integers

CONSTANTS
    Asker,          \* handlers of metered requests, over every API process
    Interval,       \* emission_interval
    Burst,          \* burst_allowance
    MaxAge,         \* how long a bucket is kept untouched
    MaxDelay,       \* how long after its stamp a request is decided
    LastMoment      \* bound: the last instant

Moment == 0 .. LastMoment

(* delay_tolerance                                                         *)
Tolerance == Interval * IF Burst < 1 THEN 1 ELSE Burst

(* A bucket is kept for an hour; no policy has an interval of more than a   *)
(* minute, and no request is in the air for half an hour.                  *)
ASSUME RateAssumption ==
    /\ Interval \in Nat \ {0} /\ Burst \in Nat /\ Tolerance \in Nat
    /\ MaxDelay \in Nat /\ MaxAge \in Nat
    /\ Interval + MaxDelay <= MaxAge /\ 2 * MaxDelay <= MaxAge
    /\ LastMoment \in Nat

VARIABLES
    clock,
    bucket,         \* the subject's row, or Missing
    stamp,          \* when each asker's request was stamped, or Idle
    view,           \* the row as each asker's statement saw it, or Unread
    told,           \* one of the answers that were given
    window          \* what was granted of the requests of one stretch of time

rateVars == <<clock, bucket, stamp, view, told, window>>

Bucket  == [arrival : Int, updated : Int]
Missing == [arrival |-> 0, updated |-> -1]
Unread  == [arrival |-> 0, updated |-> -2]
Idle    == -1
Closed  == [start |-> -1, last |-> 0, spent |-> 0]
Untold  == [answer |-> "nothing", at |-> 0, left |-> 0, alone |-> FALSE]

(* What is looked at, so that it can be said what it should be like, is a   *)
(* stretch of time or an answer.  The stretch is any: it starts with a      *)
(* request and ends with the last one granted; what was granted is counted  *)
(* in emission intervals, less what buckets that were dropped forgave.  The *)
(* answer is any, too: a refusal with the moment it put the caller off to,  *)
(* or a grant with its stamp and how many more were left; alone as long as  *)
(* nothing was decided since the row it was computed from.                 *)
RateInit ==
    /\ clock = 0
    /\ bucket = Missing
    /\ stamp = [a \in Asker |-> Idle]
    /\ view = [a \in Asker |-> Unread]
    /\ told = Untold
    /\ window = Closed

Later(x, y) == IF x > y THEN x ELSE y

(* On pace, or from now on: greatest(theoretical_arrival_at, requested_at). *)
Onset(b, now) == IF b = Missing THEN now ELSE Later(b.arrival, now)

WithinLast(b, now) == b.arrival - Tolerance < now

Within(b, now) == Onset(b, now) + Interval - Tolerance <= now

Granted(b, now) == [arrival |-> Onset(b, now) + Interval, updated |-> now]

(* What the answer says: of a grant, how much more there is at once; of a   *)
(* refusal, how long until one more would pass.                            *)
Remaining(b, now) == Later(0, (now + Tolerance - Granted(b, now).arrival) \div Interval)

RetryWhenEmpty(b, now) == Later(0, Onset(b, now) - now)

RetryAfter(b, now) == Later(0, Onset(b, now) + Interval - Tolerance - now)

(* The debt a bucket may still hold that is dropped: none of a policy whose *)
(* burst, and what is being decided, fits in the time a bucket is kept.    *)
Excess == Later(0, Tolerance + MaxDelay - MaxAge)

-----------------------------------------------------------------------------
Ask(a) ==
    /\ stamp[a] = Idle
    /\ stamp' = [stamp EXCEPT ![a] = clock]
    /\ window' \in {window} \cup
           IF window = Closed /\ told = Untold
           THEN {[Closed EXCEPT !.start = clock, !.last = clock]} ELSE {}
    /\ UNCHANGED <<clock, bucket, view, told>>

(* The statement begins, and takes its snapshot.                           *)
Consume(a) ==
    /\ stamp[a] # Idle /\ view[a] = Unread
    /\ view' = [view EXCEPT ![a] = bucket]
    /\ UNCHANGED <<clock, bucket, stamp, told, window>>

Answer(a) == stamp' = [stamp EXCEPT ![a] = Idle] /\ view' = [view EXCEPT ![a] = Unread]

(* What there was to spare at that instant or later is one request less.    *)
Overtaken(now) ==
    [told EXCEPT !.alone = FALSE,
                 !.left  = IF told.answer = "granted" /\ told.at >= now THEN @ - 1 ELSE @]

Apply(a) ==
    /\ view[a] # Unread
    /\ Within(bucket, stamp[a])
    /\ bucket' = Granted(bucket, stamp[a])
    /\ Answer(a)
    /\ UNCHANGED clock

Grant(a) ==
    /\ Apply(a)
    /\ told' \in {Overtaken(stamp[a])} \cup
           IF window # Closed THEN {}
           ELSE {[answer |-> "granted", at |-> stamp[a], left |-> Remaining(bucket, stamp[a]),
                  alone |-> TRUE]}
    /\ window' = IF window = Closed \/ stamp[a] < window.start THEN window
                 ELSE [window EXCEPT !.last = Later(@, stamp[a]), !.spent = @ + Interval]

Refuse429(a) ==
    /\ view[a] # Unread
    /\ ~Within(bucket, stamp[a])
    /\ told' \in {told} \cup
           IF window # Closed THEN {}
           ELSE {[answer |-> "refused", at |-> stamp[a] + RetryAfter(view[a], stamp[a]),
                  left |-> 0, alone |-> view[a] = bucket]}
    /\ Answer(a)
    /\ UNCHANGED <<clock, bucket, window>>

(* It fails open, and what passes so is metered by nobody; but the statement*)
(* may have been applied although its answer was lost.                      *)
Unmetered(a) ==
    \/ /\ stamp[a] # Idle
       /\ Answer(a)
       /\ UNCHANGED <<clock, bucket, told, window>>
    \/ /\ Apply(a)
       /\ told' = Overtaken(stamp[a])
       /\ UNCHANGED window

(* prune_rate_limit_buckets                                                *)
Prune ==
    /\ bucket # Missing /\ bucket.updated < clock - MaxAge
    /\ bucket' = Missing
    /\ told' = [told EXCEPT !.alone = FALSE]
    /\ window' = [window EXCEPT !.spent = Later(0, @ - Excess)]
    /\ UNCHANGED <<clock, stamp, view>>

(* Time passes no further than the slowest request allows.  An answer is no *)
(* longer looked at when no request is left or can come that it speaks of.  *)
Pass ==
    /\ clock < LastMoment
    /\ \A a \in Asker : stamp[a] # Idle => clock - stamp[a] < MaxDelay
    /\ clock' = clock + 1
    /\ told' = IF told.at + MaxDelay > clock THEN told ELSE Untold
    /\ UNCHANGED <<bucket, stamp, view, window>>

RateNext ==
    \/ \E a \in Asker : Ask(a) \/ Consume(a) \/ Grant(a) \/ Refuse429(a) \/ Unmetered(a)
    \/ Prune \/ Pass

RateSpec == RateInit /\ [][RateNext]_rateVars

-----------------------------------------------------------------------------
RateTypeOK ==
    /\ clock \in Moment
    /\ bucket \in Bucket
    /\ stamp \in [Asker -> Moment \cup {Idle}]
    /\ view \in [Asker -> Bucket]
    /\ \A a \in Asker : stamp[a] = Idle => view[a] = Unread
    /\ told \in [answer : {"nothing", "granted", "refused"}, at : Int, left : Int,
                 alone : BOOLEAN]
    /\ window \in [start : Moment \cup {-1}, last : Moment, spent : Nat]

(* "A fixed window lets a caller spend a whole allowance at the end of one  *)
(* window and the next at the start of the following one": in whatever      *)
(* order concurrent requests are decided, no stretch of time grants more    *)
(* than the burst and what it has room for, save that a bucket that is      *)
(* dropped forgives its Excess and no more.                                *)
NeverOverspent == window.spent <= window.last - window.start + Tolerance

(* "Exactly how long until one more would be on pace": nothing the subject  *)
(* asked for before the moment a refused caller was told passes, whatever   *)
(* was decided meanwhile, and at that moment one does unless something was  *)
(* decided after the statement began, which the answer knows nothing of.    *)
RefusalsStand ==
    told.answer = "refused" =>
        /\ \A a \in Asker : stamp[a] # Idle /\ stamp[a] < told.at => ~Within(bucket, stamp[a])
        /\ told.alone => Within(bucket, told.at)

(* "What could still be spent right now": of what is asked for no later     *)
(* than a grant, no more passes after it than it said, and no less unless   *)
(* something was decided meanwhile.                                        *)
RemainingStands ==
    told.answer = "granted" =>
        /\ told.left >= 0
        /\ told.alone => (Within(bucket, told.at) <=> told.left > 0)

AnswersStand == RefusalsStand /\ RemainingStands
=============================================================================
