------------------------------ MODULE AccessProofs ------------------------------
(***************************************************************************)
(* Who is let in, and how often: what the three parts a request passes      *)
(* before any handler of its own hold to.  They share no state, and each   *)
(* has its theorems about its own specification.                           *)
(***************************************************************************)
EXTENDS RateLimit, Authentication, Tenancy, FiniteSetTheorems, TLAPS

-----------------------------------------------------------------------------
(***************************************************************************)
(* RateLimit.  What the rate limiter holds a caller to, and what it may be  *)
(* held to itself: for every pace and burst the platform accepts, every    *)
(* number of requests decided at a time and in whatever order.             *)
(***************************************************************************)

(***************************************************************************)
(* The inductive invariant.                                                *)
(***************************************************************************)

(* A request is decided no later after its stamp than MaxDelay.            *)
StampsAreRecent ==
    \A a \in Asker : stamp[a] # Idle => stamp[a] <= clock /\ clock <= stamp[a] + MaxDelay

(* The stretch began already, and ends no sooner than it began.            *)
WindowIsPast == window.start <= clock /\ window.start <= window.last

(* The bucket is never further ahead than the burst of its last request.    *)
BucketIsBounded ==
    bucket # Missing => bucket.updated <= clock /\ bucket.arrival <= bucket.updated + Tolerance

(* What the stretch granted is owed by the bucket; where the bucket was     *)
(* dropped, the debt is older than any request still to be decided.        *)
SpentIsOwed ==
    window.spent > 0 =>
        IF bucket = Missing THEN window.start + window.spent + MaxDelay <= clock
        ELSE window.start + window.spent <= bucket.arrival

(* What a statement saw that would put its request off is owed still.       *)
ViewsAreOwed ==
    \A a \in Asker :
        view[a] \notin {Unread, Missing} /\ stamp[a] < view[a].arrival + Interval - Tolerance =>
            bucket # Missing /\ view[a].arrival <= bucket.arrival

(* The answer that is looked at speaks of requests still to be decided.     *)
ToldIsRecent == told.answer # "nothing" => clock <= told.at + MaxDelay

(* A refused caller was put off to no later than the bucket says by now.    *)
RefusalIsOwed ==
    told.answer = "refused" =>
        /\ bucket # Missing /\ told.at <= bucket.arrival + Interval - Tolerance
        /\ told.alone => told.at = bucket.arrival + Interval - Tolerance

(* After a grant, what was left is all there is room for at its stamp.      *)
GrantIsOwed ==
    told.answer = "granted" =>
        /\ bucket # Missing /\ told.left >= 0
        /\ told.at <= clock /\ told.at <= bucket.updated + MaxDelay
        /\ told.at + Tolerance < bucket.arrival + Interval * (told.left + 1)
        /\ told.alone => /\ told.at <= bucket.arrival
                         /\ bucket.arrival + Interval * told.left <= told.at + Tolerance

RateInv ==
    /\ RateTypeOK /\ StampsAreRecent /\ WindowIsPast /\ BucketIsBounded /\ SpentIsOwed
    /\ NeverOverspent /\ ViewsAreOwed /\ ToldIsRecent /\ RefusalIsOwed /\ GrantIsOwed

(* The records that are told.                                              *)
Told == [answer : {"nothing", "granted", "refused"}, at : Int, left : Int, alone : BOOLEAN]

(***************************************************************************)
(* Operators.                                                              *)
(***************************************************************************)

(* The burst lets at least one request through. *)
LEMMA ToleranceCoversInterval ==
    Interval \in Nat \ {0} /\ Tolerance \in Nat /\ Interval <= Tolerance
<1>1. CASE Burst < 1
  BY <1>1, RateAssumption DEF Tolerance
<1>2. CASE Burst >= 1
  <2>1. Tolerance = Interval * Burst
    BY <1>2, RateAssumption DEF Tolerance
  <2>2. Interval * Burst = Interval + Interval * (Burst - 1)
    BY RateAssumption
  <2>3. Interval * (Burst - 1) >= 0
    BY <1>2, RateAssumption
  <2>4. QED
    BY <2>1, <2>2, <2>3, <1>2, RateAssumption
<1>3. QED
  BY <1>1, <1>2, RateAssumption

(* What else is assumed of how long things take. *)
LEMMA DelaysAreShort ==
    /\ MaxDelay \in Nat /\ MaxAge \in Nat /\ Interval + MaxDelay <= MaxAge
    /\ MaxDelay + MaxDelay <= MaxAge
    /\ Excess \in Nat /\ Tolerance + MaxDelay <= MaxAge + Excess
BY RateAssumption DEF Excess, Later

(* A grant takes one interval, from the bucket's moment or the stamp. *)
LEMMA GrantedBucket ==
    ASSUME NEW b \in Bucket, NEW now \in Nat
    PROVE  /\ Onset(b, now) \in Int /\ Onset(b, now) >= now
           /\ b # Missing => Onset(b, now) >= b.arrival
           /\ Granted(b, now) \in Bucket
           /\ Granted(b, now).arrival = Onset(b, now) + Interval
           /\ Granted(b, now).updated = now
           /\ Granted(b, now) # Missing
           /\ Within(b, now) => Granted(b, now).arrival <= now + Tolerance
<1> USE DEF Bucket
<1>1. Onset(b, now) \in Int /\ Onset(b, now) >= now /\ (b # Missing => Onset(b, now) >= b.arrival)
  BY DEF Onset, Later
<1>2. /\ Granted(b, now) \in Bucket
      /\ Granted(b, now).arrival = Onset(b, now) + Interval
      /\ Granted(b, now).updated = now
  BY <1>1, ToleranceCoversInterval DEF Granted
<1>3. Granted(b, now) # Missing
  BY <1>2 DEF Missing
<1>4. Within(b, now) => Granted(b, now).arrival <= now + Tolerance
  BY <1>1, <1>2, ToleranceCoversInterval DEF Within
<1>5. QED
  BY <1>1, <1>2, <1>3, <1>4

(* A request is off the pace of a bucket that is further ahead than the     *)
(* burst, and of no other.                                                 *)
LEMMA WithinIs ==
    ASSUME NEW b \in Bucket, NEW now \in Int
    PROVE  /\ b = Missing => Within(b, now)
           /\ b # Missing => (Within(b, now) <=> b.arrival + Interval - Tolerance <= now)
BY ToleranceCoversInterval DEF Within, Onset, Later, Bucket

(* One request more takes one interval more. *)
LEMMA OneMore ==
    ASSUME NEW i \in Nat, NEW n \in Nat
    PROVE  /\ i * n \in Nat /\ i * (n + 1) = i * n + i
           /\ n > 0 => i <= i * n
<1>1. i * n \in Nat /\ i * (n + 1) = i * n + i
  OBVIOUS
<1>2. ASSUME n > 0 PROVE i <= i * n
  <2>1. PICK m \in Nat : n = m + 1
    BY <1>2
  <2>2. i * n = i * m + i /\ i * m \in Nat
    BY <2>1
  <2>3. QED
    BY <2>2
<1>3. QED
  BY <1>1, <1>2

LEMMA Quotient ==
    ASSUME NEW r \in Nat, NEW i \in Nat \ {0}
    PROVE  r \div i \in Nat /\ i * (r \div i) <= r /\ r < i * ((r \div i) + 1)
OBVIOUS

LEMMA TimesMonotone ==
    ASSUME NEW i \in Nat, NEW m \in Nat, NEW n \in Nat, m <= n
    PROVE  i * m <= i * n
<1>1. PICK k \in Nat : n = m + k
  OBVIOUS
<1>2. i * n = i * m + i * k /\ i * k >= 0
  BY <1>1
<1>3. QED
  BY <1>2

LEMMA QuotientIs ==
    ASSUME NEW x \in Nat, NEW i \in Nat \ {0}, NEW q \in Nat, i * q <= x, x < i * (q + 1)
    PROVE  x \div i = q
<1>1. PICK p \in Nat : p = x \div i /\ i * p <= x /\ x < i * (p + 1)
  BY Quotient
<1>2. ~(p < q)
  <2>1. p < q => i * (p + 1) <= i * q
    BY TimesMonotone
  <2>2. i * (p + 1) \in Nat /\ i * q \in Nat
    OBVIOUS
  <2>3. QED
    BY <1>1, <2>1, <2>2
<1>3. ~(q < p)
  <2>1. q < p => i * (q + 1) <= i * p
    BY TimesMonotone
  <2>2. i * (q + 1) \in Nat /\ i * p \in Nat
    OBVIOUS
  <2>3. QED
    BY <1>1, <2>1, <2>2
<1>4. QED
  BY <1>1, <1>2, <1>3

(***************************************************************************)
(* The steps.                                                              *)
(***************************************************************************)

LEMMA RateInitEstablishes == RateInit => RateInv
<1> SUFFICES ASSUME RateInit PROVE RateInv
  OBVIOUS
<1>1. RateTypeOK
  BY RateAssumption
  DEF RateInit, RateTypeOK, Moment, Missing, Unread, Idle, Untold, Closed, Bucket
<1>2. StampsAreRecent /\ WindowIsPast /\ BucketIsBounded /\ SpentIsOwed /\ NeverOverspent
  BY ToleranceCoversInterval
  DEF RateInit, StampsAreRecent, WindowIsPast, BucketIsBounded, SpentIsOwed, NeverOverspent, Idle,
      Closed
<1>3. ViewsAreOwed /\ ToldIsRecent /\ RefusalIsOwed /\ GrantIsOwed
  BY DEF RateInit, ViewsAreOwed, ToldIsRecent, RefusalIsOwed, GrantIsOwed, Untold
<1>4. QED
  BY <1>1, <1>2, <1>3 DEF RateInv

LEMMA AskPreserves == ASSUME RateInv, NEW a \in Asker, Ask(a) PROVE RateInv'
<1> USE DEF RateInv
<1>1. /\ stamp[a] = Idle /\ stamp' = [stamp EXCEPT ![a] = clock]
      /\ window' = window
         \/ window' = [start |-> clock, last |-> clock, spent |-> 0]
      /\ UNCHANGED <<clock, bucket, view, told>>
      /\ view[a] = Unread
  BY DEF Ask, Closed, RateTypeOK
<1>2. RateTypeOK' /\ StampsAreRecent'
  <2>1. clock \in Moment /\ clock \in Nat /\ clock # Idle
    BY RateAssumption DEF RateTypeOK, Moment, Idle
  <2>2. window' \in [start : Moment \cup {-1}, last : Moment, spent : Nat]
    BY <1>1, <2>1 DEF RateTypeOK
  <2>3. /\ stamp' \in [Asker -> Moment \cup {Idle}]
        /\ \A b \in Asker : stamp'[b] = IF b = a THEN clock ELSE stamp[b]
    BY <1>1, <2>1 DEF RateTypeOK
  <2>4. RateTypeOK'
    BY <1>1, <2>1, <2>2, <2>3 DEF RateTypeOK
  <2>5. StampsAreRecent'
    BY <1>1, <2>1, <2>3, DelaysAreShort DEF StampsAreRecent
  <2>6. QED
    BY <2>4, <2>5
<1>3. WindowIsPast' /\ BucketIsBounded' /\ SpentIsOwed' /\ NeverOverspent'
  <2>1. clock \in Nat /\ Tolerance \in Nat
    BY ToleranceCoversInterval DEF RateTypeOK, Moment
  <2>2. QED
    BY <1>1, <2>1 DEF WindowIsPast, BucketIsBounded, SpentIsOwed, NeverOverspent
<1>4. ViewsAreOwed'
  <2>1. \A b \in Asker : view'[b] # Unread => stamp'[b] = stamp[b]
    BY <1>1 DEF RateTypeOK
  <2>2. QED
    BY <1>1, <2>1 DEF ViewsAreOwed
<1>5. ToldIsRecent' /\ RefusalIsOwed' /\ GrantIsOwed'
  BY <1>1 DEF ToldIsRecent, RefusalIsOwed, GrantIsOwed
<1>6. QED
  BY <1>2, <1>3, <1>4, <1>5

LEMMA ConsumePreserves == ASSUME RateInv, NEW a \in Asker, Consume(a) PROVE RateInv'
<1> USE DEF RateInv
<1>1. /\ stamp[a] # Idle /\ view' = [view EXCEPT ![a] = bucket]
      /\ UNCHANGED <<clock, bucket, stamp, told, window>>
  BY DEF Consume
<1>2. \A b \in Asker : view'[b] = IF b = a THEN bucket ELSE view[b]
  BY <1>1 DEF RateTypeOK
<1>3. RateTypeOK'
  BY <1>1, <1>2 DEF RateTypeOK
<1>4. /\ StampsAreRecent' /\ WindowIsPast' /\ BucketIsBounded' /\ SpentIsOwed' /\ NeverOverspent'
      /\ ToldIsRecent' /\ RefusalIsOwed' /\ GrantIsOwed'
  BY <1>1
  DEF StampsAreRecent, WindowIsPast, BucketIsBounded, SpentIsOwed, NeverOverspent, ToldIsRecent,
      RefusalIsOwed, GrantIsOwed
<1>5. ViewsAreOwed'
  BY <1>1, <1>2 DEF ViewsAreOwed, RateTypeOK, Bucket
<1>6. QED
  BY <1>3, <1>4, <1>5

(* Whatever becomes of a request, the others keep their stamps and views. *)
LEMMA AnswerPreserves ==
    ASSUME RateTypeOK, StampsAreRecent, NEW a \in Asker, Answer(a), UNCHANGED clock
    PROVE  /\ stamp' \in [Asker -> Moment \cup {Idle}] /\ view' \in [Asker -> Bucket]
           /\ \A b \in Asker : stamp'[b] = Idle => view'[b] = Unread
           /\ \A b \in Asker : view'[b] # Unread => view'[b] = view[b] /\ stamp'[b] = stamp[b]
           /\ StampsAreRecent'
<1>1. /\ \A b \in Asker : stamp'[b] = IF b = a THEN Idle ELSE stamp[b]
      /\ \A b \in Asker : view'[b] = IF b = a THEN Unread ELSE view[b]
      /\ stamp' \in [Asker -> Moment \cup {Idle}] /\ view' \in [Asker -> Bucket]
  BY DEF Answer, RateTypeOK, Bucket, Unread, Idle
<1>2. StampsAreRecent'
  BY <1>1 DEF StampsAreRecent
<1>3. QED
  BY <1>1, <1>2 DEF RateTypeOK

(* What a request that passes finds and leaves. *)
LEMMA AppliedBucket ==
    ASSUME RateInv, NEW a \in Asker, Apply(a)
    PROVE  /\ stamp[a] \in Nat /\ stamp[a] \in Moment
           /\ stamp[a] <= clock /\ clock <= stamp[a] + MaxDelay
           /\ clock' = clock /\ clock \in Nat
           /\ bucket' = Granted(bucket, stamp[a])
           /\ bucket' \in Bucket /\ bucket' # Missing /\ bucket'.updated = stamp[a]
           /\ bucket'.arrival = Onset(bucket, stamp[a]) + Interval
           /\ bucket'.arrival <= stamp[a] + Tolerance
           /\ Onset(bucket, stamp[a]) \in Int /\ Onset(bucket, stamp[a]) >= stamp[a]
           /\ bucket # Missing => Onset(bucket, stamp[a]) >= bucket.arrival
           /\ BucketIsBounded' /\ ViewsAreOwed' /\ StampsAreRecent'
           /\ stamp' \in [Asker -> Moment \cup {Idle}] /\ view' \in [Asker -> Bucket]
           /\ \A b \in Asker : stamp'[b] = Idle => view'[b] = Unread
<1> USE DEF RateInv
<1>1. /\ stamp[a] # Idle /\ Within(bucket, stamp[a]) /\ bucket' = Granted(bucket, stamp[a])
      /\ Answer(a) /\ UNCHANGED clock
  BY DEF Apply, RateTypeOK
<1>2. /\ stamp[a] \in Nat /\ stamp[a] \in Moment /\ clock \in Nat
      /\ stamp[a] <= clock /\ clock <= stamp[a] + MaxDelay
  BY <1>1 DEF RateTypeOK, StampsAreRecent, Moment, Idle
<1>3. /\ bucket' \in Bucket /\ bucket' # Missing /\ bucket'.updated = stamp[a]
      /\ bucket'.arrival = Onset(bucket, stamp[a]) + Interval
      /\ bucket'.arrival <= stamp[a] + Tolerance
      /\ Onset(bucket, stamp[a]) \in Int /\ Onset(bucket, stamp[a]) >= stamp[a]
      /\ bucket # Missing => Onset(bucket, stamp[a]) >= bucket.arrival
  BY <1>1, <1>2, GrantedBucket DEF RateTypeOK
<1>4. /\ stamp' \in [Asker -> Moment \cup {Idle}] /\ view' \in [Asker -> Bucket]
      /\ \A b \in Asker : stamp'[b] = Idle => view'[b] = Unread
      /\ \A b \in Asker : view'[b] # Unread => view'[b] = view[b] /\ stamp'[b] = stamp[b]
      /\ StampsAreRecent'
  BY <1>1, AnswerPreserves
<1>5. BucketIsBounded'
  BY <1>1, <1>2, <1>3 DEF BucketIsBounded
<1>6. ViewsAreOwed'
  <2>1. bucket # Missing => bucket.arrival <= bucket'.arrival
    BY <1>3, ToleranceCoversInterval DEF RateTypeOK, Bucket
  <2>2. ASSUME NEW b \in Asker, view'[b] \notin {Unread, Missing},
               stamp'[b] < view'[b].arrival + Interval - Tolerance
        PROVE  bucket' # Missing /\ view'[b].arrival <= bucket'.arrival
    <3>1. view'[b] = view[b] /\ stamp'[b] = stamp[b] /\ view[b] \in Bucket
      BY <1>4, <2>2 DEF RateTypeOK
    <3>2. bucket # Missing /\ view[b].arrival <= bucket.arrival
      BY <2>2, <3>1 DEF ViewsAreOwed
    <3>3. QED
      BY <1>3, <2>1, <3>1, <3>2 DEF RateTypeOK, Bucket
  <2>3. QED
    BY <2>2 DEF ViewsAreOwed
<1>7. QED
  BY <1>1, <1>2, <1>3, <1>4, <1>5, <1>6

(* Of what there was to spare a request takes its part, and there was that  *)
(* part.                                                                   *)
LEMMA OvertakenStands ==
    ASSUME RateInv, NEW a \in Asker, Apply(a), told' = Overtaken(stamp[a])
    PROVE  told' \in Told /\ ToldIsRecent' /\ RefusalIsOwed' /\ GrantIsOwed'
<1> USE DEF RateInv
<1> DEFINE now == stamp[a]
<1>1. told \in Told /\ bucket \in Bucket /\ bucket.arrival \in Int /\ bucket.updated \in Int
  BY DEF RateTypeOK, Told, Bucket
<1>2. /\ now \in Nat /\ clock \in Nat /\ now <= clock /\ clock <= now + MaxDelay /\ clock' = clock
      /\ bucket' # Missing /\ bucket'.updated = now /\ bucket'.arrival \in Int
      /\ bucket'.arrival <= now + Tolerance
      /\ bucket # Missing => bucket.arrival + Interval <= bucket'.arrival
  <2>1. /\ Onset(bucket, now) \in Int /\ bucket # Missing => Onset(bucket, now) >= bucket.arrival
        /\ bucket'.arrival = Onset(bucket, now) + Interval /\ bucket' \in Bucket
    BY AppliedBucket
  <2>2. QED
    BY <1>1, <2>1, AppliedBucket, ToleranceCoversInterval DEF Bucket
<1>3. /\ told'.answer = told.answer /\ told'.at = told.at /\ ~told'.alone
      /\ told'.left = IF told.answer = "granted" /\ told.at >= now THEN told.left - 1 ELSE told.left
      /\ told' \in Told
  <2>1. PICK left \in Int :
            /\ left = IF told.answer = "granted" /\ told.at >= now THEN told.left - 1 ELSE told.left
            /\ told' = [told EXCEPT !.alone = FALSE, !.left = left]
    <3>1. CASE told.answer = "granted" /\ told.at >= now
      <4>1. told.left \in Int
        BY <1>1 DEF Told
      <4>2. told' = [told EXCEPT !.alone = FALSE, !.left = told.left - 1]
        BY <1>1, <3>1 DEF Overtaken, Told
      <4>3. told.left - 1 \in Int
        BY <4>1
      <4>4. QED
        BY <3>1, <4>2, <4>3
    <3>2. CASE ~(told.answer = "granted" /\ told.at >= now)
      BY <1>1, <3>2 DEF Overtaken, Told
    <3>3. QED
      BY <3>1, <3>2
  <2>2. QED
    BY <1>1, <2>1 DEF Told
<1>4. told.at \in Int /\ told.left \in Int
  BY <1>1 DEF Told
<1> HIDE DEF now
<1>5. ToldIsRecent'
  BY <1>2, <1>3 DEF ToldIsRecent
<1>6. RefusalIsOwed'
  BY <1>1, <1>2, <1>3, <1>4, ToleranceCoversInterval DEF RefusalIsOwed
<1>7. GrantIsOwed'
  <2> SUFFICES ASSUME told.answer = "granted"
               PROVE  /\ told'.left >= 0
                      /\ told'.at <= clock' /\ told'.at <= bucket'.updated + MaxDelay
                      /\ told'.at + Tolerance < bucket'.arrival + Interval * (told'.left + 1)
    BY <1>2, <1>3 DEF GrantIsOwed
  <2>1. /\ bucket # Missing /\ told.left \in Nat /\ told.at <= clock
        /\ told.at + Tolerance < bucket.arrival + Interval * (told.left + 1)
    BY <1>4 DEF GrantIsOwed
  <2>2. PICK taken \in Nat : taken = Interval * told.left
    BY <2>1, ToleranceCoversInterval
  <2>3. Interval * (told.left + 1) = taken + Interval
    BY <2>1, <2>2, ToleranceCoversInterval, OneMore
  <2>4. told'.at <= clock' /\ told'.at <= bucket'.updated + MaxDelay
    BY <1>2, <1>3, <1>4, <2>1, DelaysAreShort
  <2>5. CASE told.at >= now
    <3>1. told.left # 0
      <4>1. told.left = 0 => taken = 0
        BY <2>2, ToleranceCoversInterval
      <4>2. QED
        BY <1>1, <1>2, <1>4, <2>1, <2>3, <2>5, <4>1, ToleranceCoversInterval
    <3>2. told'.left = told.left - 1 /\ told'.left >= 0 /\ told'.left + 1 = told.left
      BY <1>3, <2>1, <2>5, <3>1
    <3>3. told'.at + Tolerance < bucket'.arrival + taken
      BY <1>1, <1>2, <1>3, <1>4, <2>1, <2>2, <2>3, ToleranceCoversInterval
    <3>4. QED
      BY <2>2, <2>4, <3>2, <3>3
  <2>6. CASE ~(told.at >= now)
    <3>1. told'.left = told.left /\ told'.left >= 0
      BY <1>3, <2>1, <2>6
    <3>2. told'.at + Tolerance < bucket'.arrival + (taken + Interval)
      BY <1>1, <1>2, <1>3, <1>4, <2>1, <2>2, <2>3, ToleranceCoversInterval
    <3>3. QED
      BY <2>3, <2>4, <3>1, <3>2
  <2>7. QED
    BY <2>5, <2>6
<1>8. QED
  BY <1>3, <1>5, <1>6, <1>7

(* What a grant says is left, there is room for. *)
LEMMA GrantedStands ==
    ASSUME RateInv, NEW a \in Asker, Apply(a),
           told' = [answer |-> "granted", at |-> stamp[a],
                    left |-> Remaining(bucket, stamp[a]), alone |-> TRUE]
    PROVE  told' \in Told /\ ToldIsRecent' /\ RefusalIsOwed' /\ GrantIsOwed'
<1>1. PICK now \in Nat : now = stamp[a]
  BY AppliedBucket
<1>2. PICK arrival \in Int : arrival = bucket'.arrival
  BY AppliedBucket DEF Bucket
<1>3. /\ now <= clock /\ clock <= now + MaxDelay /\ clock' = clock /\ clock \in Nat
      /\ bucket' # Missing /\ bucket'.updated = now /\ arrival <= now + Tolerance
      /\ Granted(bucket, now).arrival = arrival
  BY <1>1, <1>2, AppliedBucket
<1>4. now <= arrival
  <2>1. /\ Onset(bucket, now) \in Int /\ Onset(bucket, now) >= now
        /\ arrival = Onset(bucket, now) + Interval
    BY <1>1, <1>2, AppliedBucket
  <2>2. QED
    BY <2>1, ToleranceCoversInterval
<1>5. PICK room \in Nat : room = now + Tolerance - arrival
  BY <1>3, ToleranceCoversInterval
<1>6. PICK more \in Nat :
          /\ more = room \div Interval
          /\ Interval * more <= room /\ room < Interval * (more + 1)
  BY ToleranceCoversInterval, Quotient
<1>7. Remaining(bucket, now) = more
  BY <1>3, <1>5, <1>6 DEF Remaining, Later
<1>8. /\ told'.answer = "granted" /\ told'.at = now /\ told'.left = more /\ told'.alone
      /\ told' \in Told
  BY <1>1, <1>7 DEF Told
<1>9. PICK taken \in Nat : taken = Interval * more
  BY ToleranceCoversInterval
<1>10. PICK next \in Nat : next = Interval * (more + 1)
  BY ToleranceCoversInterval
<1>11. now + Tolerance < arrival + next /\ arrival + taken <= now + Tolerance
  BY <1>3, <1>5, <1>6, <1>9, <1>10, ToleranceCoversInterval
<1>12. GrantIsOwed'
  <2>1. now <= now + MaxDelay
    BY DelaysAreShort
  <2>2. QED
    BY <1>2, <1>3, <1>4, <1>8, <1>9, <1>10, <1>11, <2>1 DEF GrantIsOwed
<1>13. ToldIsRecent' /\ RefusalIsOwed'
  BY <1>3, <1>8 DEF ToldIsRecent, RefusalIsOwed
<1>14. QED
  BY <1>8, <1>12, <1>13

(* The stretch owes for what it granted, and for nothing else. *)
LEMMA CountedStands ==
    ASSUME RateInv, NEW a \in Asker, Apply(a),
           \/ window' = window
           \/ /\ stamp[a] >= window.start
              /\ window' = [window EXCEPT !.last = Later(@, stamp[a]), !.spent = @ + Interval]
    PROVE  /\ window' \in [start : Moment \cup {-1}, last : Moment, spent : Nat]
           /\ WindowIsPast' /\ SpentIsOwed' /\ NeverOverspent'
<1> USE DEF RateInv
<1> DEFINE now == stamp[a]
<1>1. /\ now \in Nat /\ now \in Moment /\ now <= clock /\ clock <= now + MaxDelay
      /\ clock' = clock /\ clock \in Nat
      /\ bucket' # Missing /\ bucket' \in Bucket
      /\ bucket'.arrival = Onset(bucket, now) + Interval
      /\ bucket'.arrival <= now + Tolerance
      /\ Onset(bucket, now) \in Int /\ Onset(bucket, now) >= now
      /\ bucket # Missing => Onset(bucket, now) >= bucket.arrival
  BY AppliedBucket
<1>2. /\ MaxDelay \in Nat /\ window \in [start : Int, last : Nat, spent : Nat]
      /\ window \in [start : Moment \cup {-1}, last : Moment, spent : Nat]
      /\ bucket.arrival \in Int
  BY DelaysAreShort DEF RateTypeOK, Moment, Bucket
<1>3. window.spent > 0 => window.start + window.spent <= Onset(bucket, now)
  BY <1>1, <1>2 DEF SpentIsOwed
<1>4. CASE window' = window
  <2>1. WindowIsPast' /\ NeverOverspent'
    BY <1>1, <1>4 DEF WindowIsPast, NeverOverspent
  <2>2. SpentIsOwed'
    BY <1>1, <1>2, <1>3, <1>4, ToleranceCoversInterval DEF SpentIsOwed
  <2>3. QED
    BY <1>2, <1>4, <2>1, <2>2
<1>5. CASE /\ now >= window.start
           /\ window' = [window EXCEPT !.last = Later(@, now), !.spent = @ + Interval]
  <2> DEFINE last == Later(window.last, now)
  <2>1. last \in Moment /\ last \in Nat /\ last >= now /\ last >= window.last
    BY <1>1, <1>2 DEF Later
  <2>2. window' = [window EXCEPT !.last = last, !.spent = @ + Interval]
    BY <1>5
  <2> HIDE DEF last
  <2>3. /\ window'.start = window.start
        /\ window'.last = last
        /\ window'.spent = window.spent + Interval
        /\ window' \in [start : Moment \cup {-1}, last : Moment, spent : Nat]
    <3>1. window.spent + Interval \in Nat
      BY <1>2, ToleranceCoversInterval
    <3>2. QED
      BY <1>2, <2>1, <2>2, <3>1
  <2>4. window.start + window.spent <= Onset(bucket, now)
    BY <1>1, <1>2, <1>3, <1>5
  <2>5. SpentIsOwed'
    BY <1>1, <1>2, <2>3, <2>4, ToleranceCoversInterval DEF SpentIsOwed
  <2>6. NeverOverspent'
    BY <1>1, <1>2, <2>1, <2>3, <2>4, ToleranceCoversInterval DEF NeverOverspent
  <2>7. WindowIsPast'
    BY <1>1, <1>2, <2>1, <2>3 DEF WindowIsPast
  <2>8. QED
    BY <2>3, <2>5, <2>6, <2>7
<1>6. QED
  BY <1>4, <1>5

LEMMA ApplyPreserves ==
    ASSUME RateInv, NEW a \in Asker, Apply(a),
           told' \in Told, ToldIsRecent', RefusalIsOwed', GrantIsOwed',
           window' \in [start : Moment \cup {-1}, last : Moment, spent : Nat],
           WindowIsPast', SpentIsOwed', NeverOverspent'
    PROVE  RateInv'
<1>1. RateTypeOK'
  BY AppliedBucket DEF RateInv, RateTypeOK, Told
<1>2. QED
  BY <1>1, AppliedBucket DEF RateInv

LEMMA GrantPreserves == ASSUME RateInv, NEW a \in Asker, Grant(a) PROVE RateInv'
<1>1. /\ Apply(a)
      /\ \/ told' = Overtaken(stamp[a])
         \/ told' = [answer |-> "granted", at |-> stamp[a],
                     left |-> Remaining(bucket, stamp[a]), alone |-> TRUE]
  BY DEF Grant
<1>2. \/ window' = window
      \/ /\ stamp[a] >= window.start
         /\ window' = [window EXCEPT !.last = Later(@, stamp[a]), !.spent = @ + Interval]
  <2>1. stamp[a] \in Nat /\ window.start \in Int
    BY <1>1, AppliedBucket DEF RateInv, RateTypeOK, Moment
  <2>2. QED
    BY <2>1 DEF Grant
<1>3. told' \in Told /\ ToldIsRecent' /\ RefusalIsOwed' /\ GrantIsOwed'
  BY <1>1, OvertakenStands, GrantedStands
<1>4. /\ window' \in [start : Moment \cup {-1}, last : Moment, spent : Nat]
      /\ WindowIsPast' /\ SpentIsOwed' /\ NeverOverspent'
  BY <1>1, <1>2, CountedStands
<1>5. QED
  BY <1>1, <1>3, <1>4, ApplyPreserves

(* A request that ends without having been applied. *)
LEMMA UndecidedPreserves ==
    ASSUME RateInv, NEW a \in Asker, UNCHANGED <<clock, bucket, window>>, Answer(a),
           told' \in Told, ToldIsRecent', RefusalIsOwed', GrantIsOwed'
    PROVE  RateInv'
<1> USE DEF RateInv
<1>1. UNCHANGED <<clock, bucket, window>> /\ Answer(a)
  OBVIOUS
<1>2. /\ stamp' \in [Asker -> Moment \cup {Idle}] /\ view' \in [Asker -> Bucket]
      /\ \A b \in Asker : stamp'[b] = Idle => view'[b] = Unread
      /\ \A b \in Asker : view'[b] # Unread => view'[b] = view[b] /\ stamp'[b] = stamp[b]
      /\ StampsAreRecent'
  BY <1>1, AnswerPreserves
<1>3. RateTypeOK'
  BY <1>1, <1>2 DEF RateTypeOK, Told
<1>4. WindowIsPast' /\ BucketIsBounded' /\ SpentIsOwed' /\ NeverOverspent'
  BY <1>1 DEF WindowIsPast, BucketIsBounded, SpentIsOwed, NeverOverspent
<1>5. ViewsAreOwed'
  BY <1>1, <1>2 DEF ViewsAreOwed
<1>6. QED
  BY <1>2, <1>3, <1>4, <1>5

LEMMA UnmeteredPreserves == ASSUME RateInv, NEW a \in Asker, Unmetered(a) PROVE RateInv'
<1>1. CASE stamp[a] # Idle /\ Answer(a) /\ UNCHANGED <<clock, bucket, told, window>>
  <2>1. told' \in Told /\ ToldIsRecent' /\ RefusalIsOwed' /\ GrantIsOwed'
    BY <1>1 DEF RateInv, RateTypeOK, Told, ToldIsRecent, RefusalIsOwed, GrantIsOwed
  <2>2. QED
    BY <1>1, <2>1, UndecidedPreserves
<1>2. CASE Apply(a) /\ told' = Overtaken(stamp[a]) /\ UNCHANGED window
  BY <1>2, OvertakenStands, CountedStands, ApplyPreserves
<1>3. QED
  BY <1>1, <1>2 DEF Unmetered

(* A refused caller is put off by what its statement saw, no further than   *)
(* by what it was refused for.                                             *)
LEMMA RefusePreserves == ASSUME RateInv, NEW a \in Asker, Refuse429(a) PROVE RateInv'
<1> USE DEF RateInv
<1> DEFINE until == stamp[a] + RetryAfter(view[a], stamp[a])
<1>1. /\ view[a] # Unread /\ ~Within(bucket, stamp[a])
      /\ \/ told' = told
         \/ told' = [answer |-> "refused", at |-> until, left |-> 0, alone |-> view[a] = bucket]
      /\ Answer(a) /\ UNCHANGED <<clock, bucket, window>>
  BY DEF Refuse429
<1>2. CASE told' = told
  <2>1. told' \in Told /\ ToldIsRecent' /\ RefusalIsOwed' /\ GrantIsOwed'
    BY <1>1, <1>2 DEF RateTypeOK, Told, ToldIsRecent, RefusalIsOwed, GrantIsOwed
  <2>2. QED
    BY <1>1, <2>1, UndecidedPreserves
<1>3. CASE told' = [answer |-> "refused", at |-> until, left |-> 0, alone |-> view[a] = bucket]
  <2>1. PICK now \in Nat : now = stamp[a] /\ clock <= now + MaxDelay /\ clock \in Nat
    BY <1>1 DEF RateTypeOK, StampsAreRecent, Moment, Idle
  <2>2. PICK seen \in Bucket : seen = view[a]
    BY DEF RateTypeOK
  <2>3. bucket \in Bucket /\ bucket # Missing /\ now < bucket.arrival + Interval - Tolerance
    BY <1>1, <2>1, WithinIs, ToleranceCoversInterval DEF RateTypeOK, Bucket
  <2>4. until \in Int /\ now <= until /\ until <= bucket.arrival + Interval - Tolerance
    <3>1. CASE seen = Missing
      <4>1. until = now
        BY <2>1, <2>2, <3>1, ToleranceCoversInterval DEF RetryAfter, Onset, Later
      <4>2. QED
        BY <2>1, <2>3, <4>1, ToleranceCoversInterval DEF Bucket
    <3>2. CASE seen # Missing /\ now < seen.arrival + Interval - Tolerance
      <4>1. seen.arrival <= bucket.arrival
        BY <1>1, <2>1, <2>2, <3>2 DEF ViewsAreOwed
      <4>2. until = seen.arrival + Interval - Tolerance
        BY <2>1, <2>2, <3>2, ToleranceCoversInterval DEF RetryAfter, Onset, Later, Bucket
      <4>3. QED
        BY <2>1, <2>2, <2>3, <3>2, <4>1, <4>2, ToleranceCoversInterval DEF Bucket
    <3>3. CASE seen # Missing /\ ~(now < seen.arrival + Interval - Tolerance)
      <4>1. until = now
        BY <2>1, <2>2, <3>3, ToleranceCoversInterval DEF RetryAfter, Onset, Later, Bucket
      <4>2. QED
        BY <2>1, <2>3, <4>1, ToleranceCoversInterval DEF Bucket
    <3>4. QED
      BY <3>1, <3>2, <3>3
  <2>5. seen = bucket => until = bucket.arrival + Interval - Tolerance
    BY <2>1, <2>2, <2>3, ToleranceCoversInterval DEF RetryAfter, Onset, Later, Bucket
  <2> HIDE DEF until
  <2>6. /\ told' \in Told /\ told'.answer = "refused" /\ told'.at = until
        /\ told'.alone => seen = bucket
    <3>1. CASE seen = bucket
      <4>1. told' = [answer |-> "refused", at |-> until, left |-> 0, alone |-> TRUE]
        BY <1>3, <2>2, <3>1
      <4>2. QED
        BY <2>4, <3>1, <4>1 DEF Told
    <3>2. CASE seen # bucket
      <4>1. told' = [answer |-> "refused", at |-> until, left |-> 0, alone |-> FALSE]
        BY <1>3, <2>2, <3>2
      <4>2. QED
        BY <2>4, <4>1 DEF Told
    <3>3. QED
      BY <3>1, <3>2
  <2>7. ToldIsRecent' /\ GrantIsOwed'
    BY <1>1, <2>1, <2>4, <2>6, DelaysAreShort DEF ToldIsRecent, GrantIsOwed
  <2>8. RefusalIsOwed'
    BY <1>1, <2>3, <2>4, <2>5, <2>6 DEF RefusalIsOwed
  <2>9. QED
    BY <1>1, <2>6, <2>7, <2>8, UndecidedPreserves
<1>4. QED
  BY <1>1, <1>2, <1>3

(* What a bucket that is dropped still stood for, no request asks for.      *)
LEMMA PrunePreserves == ASSUME RateInv, Prune PROVE RateInv'
<1> USE DEF RateInv
<1>1. /\ bucket \in Bucket /\ bucket # Missing /\ bucket.updated < clock - MaxAge
      /\ bucket.arrival <= bucket.updated + Tolerance /\ clock \in Nat
      /\ bucket.arrival \in Int /\ bucket.updated \in Int
      /\ bucket' = Missing /\ told' = [told EXCEPT !.alone = FALSE]
      /\ window' = [window EXCEPT !.spent = Later(0, @ - Excess)]
      /\ UNCHANGED <<clock, stamp, view>>
  BY DEF Prune, RateTypeOK, BucketIsBounded, Moment, Bucket
<1>2. /\ told \in Told /\ told.at \in Int /\ told' \in Told
      /\ told'.answer = told.answer
  BY <1>1 DEF RateTypeOK, Told
<1>3. told.answer = "nothing"
  <2>1. told.answer # "refused"
    BY <1>1, <1>2, DelaysAreShort, ToleranceCoversInterval DEF RefusalIsOwed, ToldIsRecent
  <2>2. told.answer # "granted"
    BY <1>1, <1>2, DelaysAreShort DEF GrantIsOwed, ToldIsRecent
  <2>3. QED
    BY <1>2, <2>1, <2>2 DEF Told
<1>4. PICK left \in Nat :
          /\ left = Later(0, window.spent - Excess)
          /\ left <= window.spent /\ (left > 0 => left = window.spent - Excess)
  BY DelaysAreShort DEF RateTypeOK, Later
<1>5. /\ window \in [start : Moment \cup {-1}, last : Moment, spent : Nat]
      /\ window \in [start : Int, last : Nat, spent : Nat]
  BY DEF RateTypeOK, Moment
<1>6. /\ window'.start = window.start /\ window'.last = window.last /\ window'.spent = left
      /\ window' \in [start : Moment \cup {-1}, last : Moment, spent : Nat]
  BY <1>1, <1>4, <1>5
<1>7. RateTypeOK'
  BY <1>1, <1>2, <1>6 DEF RateTypeOK, Told, Bucket, Missing
<1>8. StampsAreRecent' /\ BucketIsBounded'
  BY <1>1 DEF StampsAreRecent, BucketIsBounded
<1>9. WindowIsPast' /\ NeverOverspent'
  BY <1>1, <1>4, <1>5, <1>6, ToleranceCoversInterval DEF WindowIsPast, NeverOverspent
<1>10. SpentIsOwed'
  <2>1. ASSUME left > 0 PROVE window.start + left + MaxDelay <= clock
    <3>1. window.start + window.spent <= bucket.arrival
      BY <1>1, <1>4, <1>5, <2>1 DEF SpentIsOwed
    <3>2. QED
      BY <1>1, <1>4, <1>5, <2>1, <3>1, DelaysAreShort, ToleranceCoversInterval
  <2>2. QED
    BY <1>1, <1>6, <2>1 DEF SpentIsOwed
<1>11. ViewsAreOwed'
  <2>1. ASSUME NEW a \in Asker, view[a] \notin {Unread, Missing},
               stamp[a] < view[a].arrival + Interval - Tolerance
        PROVE  FALSE
    <3>1. view[a].arrival <= bucket.arrival /\ view[a].arrival \in Int
      BY <2>1 DEF ViewsAreOwed, RateTypeOK, Bucket
    <3>2. stamp[a] \in Nat /\ clock <= stamp[a] + MaxDelay
      BY <2>1 DEF RateTypeOK, StampsAreRecent, Moment, Idle
    <3>3. QED
      BY <1>1, <2>1, <3>1, <3>2, DelaysAreShort, ToleranceCoversInterval
  <2>2. QED
    BY <1>1, <2>1 DEF ViewsAreOwed
<1>12. ToldIsRecent' /\ RefusalIsOwed' /\ GrantIsOwed'
  BY <1>2, <1>3 DEF ToldIsRecent, RefusalIsOwed, GrantIsOwed
<1>13. QED
  BY <1>7, <1>8, <1>9, <1>10, <1>11, <1>12

LEMMA PassPreserves == ASSUME RateInv, Pass PROVE RateInv'
<1> USE DEF RateInv
<1>1. /\ clock \in Nat /\ clock' = clock + 1 /\ clock' \in Moment
      /\ UNCHANGED <<bucket, stamp, view, window>>
  BY RateAssumption DEF Pass, RateTypeOK, Moment
<1>2. (told' = told /\ clock' <= told.at + MaxDelay) \/ told' = Untold
  BY <1>1, DelaysAreShort DEF Pass, RateTypeOK
<1>3. told' \in Told
  <2>1. CASE told' = told
    BY <2>1 DEF RateTypeOK, Told
  <2>2. CASE told' = Untold
    <3>1. FALSE \in BOOLEAN
      OBVIOUS
    <3>2. QED
      BY <2>2, <3>1 DEF Told, Untold
  <2>3. QED
    BY <1>2, <2>1, <2>2
<1>4. RateTypeOK'
  BY <1>1, <1>3 DEF RateTypeOK, Told
<1>5. WindowIsPast' /\ BucketIsBounded' /\ SpentIsOwed' /\ NeverOverspent' /\ ViewsAreOwed'
  <2>1. WindowIsPast'
    BY <1>1 DEF RateTypeOK, WindowIsPast, Moment
  <2>2. BucketIsBounded'
    BY <1>1 DEF RateTypeOK, BucketIsBounded, Bucket
  <2>3. SpentIsOwed'
    BY <1>1, DelaysAreShort DEF RateTypeOK, SpentIsOwed, Moment
  <2>4. NeverOverspent' /\ ViewsAreOwed'
    BY <1>1 DEF NeverOverspent, ViewsAreOwed
  <2>5. QED
    BY <2>1, <2>2, <2>3, <2>4
<1>6. StampsAreRecent'
  BY <1>1, RateAssumption DEF Pass, RateTypeOK, StampsAreRecent, Moment, Idle
<1>7. ToldIsRecent' /\ RefusalIsOwed' /\ GrantIsOwed'
  <2>1. CASE told' = Untold
    BY <2>1 DEF ToldIsRecent, RefusalIsOwed, GrantIsOwed, Untold
  <2>2. CASE told' = told /\ clock' <= told.at + MaxDelay
    <3>1. ToldIsRecent' /\ RefusalIsOwed'
      BY <1>1, <2>2 DEF ToldIsRecent, RefusalIsOwed
    <3>2. told.at \in Int
      BY DEF RateTypeOK
    <3>3. GrantIsOwed'
      BY <1>1, <2>2, <3>2 DEF GrantIsOwed
    <3>4. QED
      BY <3>1, <3>3
  <2>3. QED
    BY <1>2, <2>1, <2>2
<1>8. QED
  BY <1>4, <1>5, <1>6, <1>7

LEMMA RateStepPreserves == RateInv /\ [RateNext]_rateVars => RateInv'
<1> SUFFICES ASSUME RateInv, [RateNext]_rateVars PROVE RateInv'
  OBVIOUS
<1>1. CASE UNCHANGED rateVars
  BY <1>1
  DEF rateVars, RateInv, RateTypeOK, StampsAreRecent, WindowIsPast, BucketIsBounded, SpentIsOwed,
      NeverOverspent, ViewsAreOwed, ToldIsRecent, RefusalIsOwed, GrantIsOwed
<1>2. ASSUME NEW a \in Asker, Ask(a) \/ Consume(a) \/ Grant(a) \/ Refuse429(a) \/ Unmetered(a)
      PROVE  RateInv'
  BY <1>2, AskPreserves, ConsumePreserves, GrantPreserves, RefusePreserves, UnmeteredPreserves
<1>3. CASE Prune
  BY <1>3, PrunePreserves
<1>4. CASE Pass
  BY <1>4, PassPreserves
<1>5. QED
  BY <1>1, <1>2, <1>3, <1>4 DEF RateNext

(***************************************************************************)
(* The results.                                                            *)
(***************************************************************************)

(* The inductive invariant holds. *)
THEOREM RateInvariance == RateSpec => []RateInv
BY RateInitEstablishes, RateStepPreserves, PTL DEF RateSpec

(* Every variable of the rate limiter keeps its type. *)
THEOREM RateTypeCorrect == RateSpec => []RateTypeOK
<1>1. RateInv => RateTypeOK
  BY DEF RateInv
<1>2. QED
  BY <1>1, RateInvariance, PTL

(* No stretch of time grants more than the burst and what it has room for,  *)
(* in whatever order consume_rate_limit decides concurrent requests, but    *)
(* for what prune_rate_limit_buckets forgives: nothing where the burst fits *)
(* in the time a bucket is kept, and its Excess where it does not.         *)
THEOREM OverspendTheorem == RateSpec => []NeverOverspent
<1>1. RateInv => NeverOverspent
  BY DEF RateInv
<1>2. QED
  BY <1>1, RateInvariance, PTL

(* A refused caller was never put off for longer than it has to wait,       *)
(* although the answer was made from what the statement saw when it began;  *)
(* after a grant no more passes than it said, whatever was dropped or       *)
(* decided meanwhile; and both are exact while nothing else is decided.     *)
THEOREM AnswersTheorem == RateSpec => []AnswersStand
<1>1. ASSUME RateInv PROVE RefusalsStand
  <2> SUFFICES ASSUME told.answer = "refused"
               PROVE  /\ \A a \in Asker : stamp[a] # Idle /\ stamp[a] < told.at =>
                            ~Within(bucket, stamp[a])
                      /\ told.alone => Within(bucket, told.at)
    BY DEF RefusalsStand
  <2>1. /\ bucket \in Bucket /\ bucket # Missing /\ told.at \in Int /\ bucket.arrival \in Int
        /\ told.at <= bucket.arrival + Interval - Tolerance
        /\ told.alone => told.at = bucket.arrival + Interval - Tolerance
    BY <1>1 DEF RateInv, RefusalIsOwed, RateTypeOK, Bucket
  <2>2. ASSUME NEW a \in Asker, stamp[a] # Idle, stamp[a] < told.at
        PROVE  ~Within(bucket, stamp[a])
    <3>1. stamp[a] \in Int
      BY <1>1 DEF RateInv, RateTypeOK, Moment, Idle
    <3>2. QED
      BY <2>1, <2>2, <3>1, WithinIs, ToleranceCoversInterval
  <2>3. told.alone => Within(bucket, told.at)
    BY <2>1, WithinIs, ToleranceCoversInterval
  <2>4. QED
    BY <2>2, <2>3
<1>2. ASSUME RateInv PROVE RemainingStands
  <2> SUFFICES ASSUME told.answer = "granted"
               PROVE  /\ told.left >= 0
                      /\ told.alone => (Within(bucket, told.at) <=> told.left > 0)
    BY DEF RemainingStands
  <2>1. /\ bucket \in Bucket /\ bucket # Missing /\ bucket.arrival \in Int
        /\ told.left \in Nat /\ told.at \in Int
        /\ told.at + Tolerance < bucket.arrival + Interval * (told.left + 1)
        /\ told.alone => bucket.arrival + Interval * told.left <= told.at + Tolerance
    BY <1>2 DEF RateInv, GrantIsOwed, RateTypeOK, Bucket
  <2>2. PICK taken \in Nat : taken = Interval * told.left
    BY <2>1, ToleranceCoversInterval
  <2>3. /\ Interval * (told.left + 1) = taken + Interval
        /\ told.left > 0 => Interval <= taken
    BY <2>1, <2>2, ToleranceCoversInterval, OneMore
  <2>4. told.left = 0 => taken = 0
    BY <2>2, ToleranceCoversInterval
  <2>5. ASSUME told.alone PROVE Within(bucket, told.at) <=> told.left > 0
    <3>1. bucket.arrival + taken <= told.at + Tolerance
      BY <2>1, <2>2, <2>5
    <3>2. told.at + Tolerance < bucket.arrival + (taken + Interval)
      BY <2>1, <2>3
    <3>3. Within(bucket, told.at) <=> bucket.arrival + Interval - Tolerance <= told.at
      BY <2>1, WithinIs
    <3>4. QED
      BY <2>1, <2>2, <2>3, <2>4, <3>1, <3>2, <3>3, ToleranceCoversInterval
  <2>6. QED
    BY <2>1, <2>5
<1>3. RateInv => AnswersStand
  BY <1>1, <1>2 DEF AnswersStand
<1>4. QED
  BY <1>3, RateInvariance, PTL

-----------------------------------------------------------------------------
(***************************************************************************)
(* Authentication.  That a dashboard session, once over, is over for good: *)
(* for every number of requests on their way through it, and every         *)
(* lifetime.                                                               *)
(***************************************************************************)

(***************************************************************************)
(* The inductive invariant.                                                *)
(***************************************************************************)

(* A session that was established has an end; one that was not has none.    *)
EstablishedEnds == \A t \in Token : signIn[t] # NoSession => signIn[t].absolute > 0

(* A request that goes on with a session found one that was established.    *)
FoundEstablished ==
    \A g \in Guard : guard[g].doing \in {"touching", "revoking"} =>
        guard[g].token \in Token /\ signIn[guard[g].token].absolute > 0

AuthInv == AuthTypeOK /\ EstablishedEnds /\ FoundEstablished

(* What a handler knows.                                                   *)
Notes == [doing : Doing, at : Time, failed : Nat, token : 0 .. MaxTokens, idle : Nat]

(***************************************************************************)
(* The steps.                                                              *)
(***************************************************************************)

(* The sum of an instant and a lifetime is a time, and not the first one. *)
LEMMA Lifetimes ==
    ASSUME NEW now \in Time
    PROVE  /\ now \in Nat /\ now + IdleLifetime \in Nat /\ now + AbsoluteLifetime \in Nat
           /\ now + AbsoluteLifetime > 0 /\ now + Lockout \in Nat /\ now + AbsoluteLifetime > now
BY AuthenticationAssumption DEF Time

LEMMA RestingIsKnown == Resting \in Notes /\ Resting.doing = "nothing"
BY AuthenticationAssumption DEF Resting, Notes, Doing, Time

LEMMA AuthInitEstablishes == AuthInit => AuthInv
BY AuthenticationAssumption
DEF AuthInit, AuthInv, AuthTypeOK, EstablishedEnds, FoundEstablished, NoSession, Resting, Doing,
    Time, Token

(* What a sign-in does to the account leaves the sessions alone. *)
LEMMA ReadAccountPreserves == ASSUME AuthInv, NEW g \in Guard, ReadAccount(g) PROVE AuthInv'
<1> USE DEF AuthInv
<1> DEFINE known == [Resting EXCEPT !.doing = "hashing", !.at = hour, !.failed = account.failed]
<1>0. known \in Notes /\ known.doing = "hashing"
  BY RestingIsKnown DEF Notes, AuthTypeOK, Doing
<1> HIDE DEF known
<1>1. AuthTypeOK'
  <2>1. guard' = [guard EXCEPT ![g] = known]
    BY DEF ReadAccount, known
  <2>2. QED
    BY <1>0, <2>1 DEF ReadAccount, AuthTypeOK, Notes
<1>2. EstablishedEnds' /\ FoundEstablished'
  BY <1>0 DEF ReadAccount, known, AuthTypeOK, EstablishedEnds, FoundEstablished
<1>3. QED
  BY <1>1, <1>2

LEMMA WrongPasswordPreserves == ASSUME AuthInv, NEW g \in Guard, WrongPassword(g) PROVE AuthInv'
<1> USE DEF AuthInv
<1>1. account' \in [failed : Nat, lockedUntil : Nat]
  <2>1. account.failed + 1 \in Nat
    BY DEF AuthTypeOK
  <2>2. guard[g].at + Lockout \in Nat /\ guard[g].failed + 1 \in Nat
    BY AuthenticationAssumption DEF AuthTypeOK, Time
  <2>3. QED
    BY <2>1, <2>2, AuthenticationAssumption DEF WrongPassword, Failure
<1>2. guard' \in [Guard -> [doing : Doing, at : Time, failed : Nat, token : 0 .. MaxTokens,
                             idle : Nat]]
  BY AuthenticationAssumption DEF WrongPassword, Rest, Resting, AuthTypeOK, Doing, Time
<1>3. tries' \in 0 .. MaxTries
  BY AuthenticationAssumption DEF WrongPassword, AuthTypeOK
<1>4. AuthTypeOK'
  BY <1>1, <1>2, <1>3 DEF WrongPassword, Rest, Resting, AuthTypeOK
<1>5. EstablishedEnds' /\ FoundEstablished'
  BY DEF WrongPassword, Rest, Resting, AuthTypeOK, EstablishedEnds, FoundEstablished
<1>6. QED
  BY <1>4, <1>5

LEMMA RightPasswordPreserves == ASSUME AuthInv, NEW g \in Guard, RightPassword(g) PROVE AuthInv'
<1> USE DEF AuthInv
<1>1. AuthTypeOK'
  BY AuthenticationAssumption DEF RightPassword, AuthTypeOK, Doing
<1>2. EstablishedEnds' /\ FoundEstablished'
  BY DEF RightPassword, AuthTypeOK, EstablishedEnds, FoundEstablished
<1>3. QED
  BY <1>1, <1>2

LEMMA EstablishPreserves == ASSUME AuthInv, NEW g \in Guard, EstablishSession(g) PROVE AuthInv'
<1> USE DEF AuthInv
<1>1. PICK t \in Token :
        /\ signIn[t] = NoSession
        /\ signIn' = [signIn EXCEPT ![t] =
               [idle |-> Earlier(hour + IdleLifetime, hour + AbsoluteLifetime),
                absolute |-> hour + AbsoluteLifetime, revoked |-> FALSE]]
  BY DEF EstablishSession
<1>2. /\ Earlier(hour + IdleLifetime, hour + AbsoluteLifetime) \in Nat
      /\ hour + AbsoluteLifetime \in Nat /\ hour + AbsoluteLifetime > 0
  BY Lifetimes DEF Earlier, AuthTypeOK
<1>3. signIn' \in [Token -> [idle : Nat, absolute : Nat, revoked : BOOLEAN]]
  BY <1>1, <1>2 DEF AuthTypeOK
<1>4. AuthTypeOK'
  BY <1>3, AuthenticationAssumption
  DEF EstablishSession, Rest, Resting, AuthTypeOK, Doing, Time
<1>5. EstablishedEnds'
  BY <1>1, <1>2 DEF AuthTypeOK, EstablishedEnds
<1>6. \A h \in Guard : guard'[h].doing \in {"touching", "revoking"} => guard'[h] = guard[h]
  BY DEF EstablishSession, Rest, Resting, AuthTypeOK
<1>7. FoundEstablished'
  BY <1>1, <1>2, <1>6 DEF AuthTypeOK, FoundEstablished
<1>8. QED
  BY <1>4, <1>5, <1>7

LEMMA ResolvePreserves ==
    ASSUME AuthInv, NEW g \in Guard, NEW t \in Token, ResolveCookie(g, t)
    PROVE  AuthInv'
<1> USE DEF AuthInv
<1>1. signIn[t].absolute \in Nat /\ signIn[t].absolute > 0
  BY DEF ResolveCookie, Active, AuthTypeOK, Time
<1>2. NextIdle(t) \in Nat
  BY <1>1, Lifetimes DEF NextIdle, Earlier, AuthTypeOK
<1>3. t \in 0 .. MaxTokens
  BY AuthenticationAssumption DEF Token
<1> DEFINE known == [Resting EXCEPT !.doing = "touching", !.token = t, !.idle = NextIdle(t)]
<1>4. known \in Notes /\ known.doing = "touching" /\ known.token = t
  BY <1>2, <1>3, RestingIsKnown DEF Notes, Doing
<1>5. guard' = [guard EXCEPT ![g] = known]
  BY DEF ResolveCookie
<1> HIDE DEF known
<1>6. AuthTypeOK'
  <2>1. guard \in [Guard -> Notes]
    BY DEF AuthTypeOK, Notes
  <2>2. guard' \in [Guard -> Notes]
    BY <1>4, <1>5, <2>1
  <2>3. UNCHANGED <<hour, account, signIn, tries>>
    BY DEF ResolveCookie
  <2>4. /\ hour \in Time
        /\ account \in [failed : Nat, lockedUntil : Nat]
        /\ signIn \in [Token -> [idle : Nat, absolute : Nat, revoked : BOOLEAN]]
        /\ tries \in 0 .. MaxTries
    BY DEF AuthTypeOK
  <2>5. /\ hour' \in Time
        /\ account' \in [failed : Nat, lockedUntil : Nat]
        /\ signIn' \in [Token -> [idle : Nat, absolute : Nat, revoked : BOOLEAN]]
        /\ tries' \in 0 .. MaxTries
    BY <2>3, <2>4
  <2>6. \A h \in Guard : guard'[h].doing \in {"touching", "revoking"} =>
          guard'[h].token \in Token
    BY <1>4, <1>5, <2>1 DEF AuthTypeOK
  <2>7. QED
    BY <2>2, <2>5, <2>6 DEF AuthTypeOK, Notes
<1>7. EstablishedEnds' /\ FoundEstablished'
  BY <1>1, <1>4, <1>5 DEF ResolveCookie, AuthTypeOK, EstablishedEnds, FoundEstablished
<1>8. QED
  BY <1>6, <1>7

LEMMA TouchPreserves == ASSUME AuthInv, NEW g \in Guard, Touch(g) PROVE AuthInv'
<1> USE DEF AuthInv
<1> DEFINE t == guard[g].token
<1>1. t \in Token /\ signIn[t].absolute > 0 /\ guard[g].idle \in Nat
  BY DEF Touch, At, AuthTypeOK, FoundEstablished
<1>2. /\ signIn' = [signIn EXCEPT ![t].idle = guard[g].idle]
      /\ guard' = [guard EXCEPT ![g] = Resting] \/ guard' = [guard EXCEPT ![g].doing = "revoking"]
      /\ UNCHANGED <<hour, account, tries>>
  BY DEF Touch, Rest
<1>3. \A u \in Token :
        signIn'[u].absolute = signIn[u].absolute /\ signIn'[u].revoked = signIn[u].revoked
  BY <1>1, <1>2 DEF AuthTypeOK
<1>4. signIn' \in [Token -> [idle : Nat, absolute : Nat, revoked : BOOLEAN]]
  BY <1>1, <1>2 DEF AuthTypeOK
<1>5. /\ guard' \in [Guard -> Notes]
      /\ \A h \in Guard : guard'[h].doing \in {"touching", "revoking"} =>
             guard'[h].token \in Token /\ signIn[guard'[h].token].absolute > 0
  <2>1. CASE guard' = [guard EXCEPT ![g] = Resting]
    BY <2>1, RestingIsKnown DEF AuthTypeOK, FoundEstablished, Notes
  <2>2. CASE guard' = [guard EXCEPT ![g].doing = "revoking"]
    BY <1>1, <2>2 DEF AuthTypeOK, FoundEstablished, Notes, Doing
  <2>3. QED
    BY <1>2, <2>1, <2>2
<1>6. AuthTypeOK'
  BY <1>2, <1>4, <1>5 DEF AuthTypeOK, Notes
<1>7. EstablishedEnds'
  BY <1>1, <1>2, <1>3 DEF AuthTypeOK, EstablishedEnds
<1>8. FoundEstablished'
  BY <1>3, <1>5 DEF FoundEstablished
<1>9. QED
  BY <1>6, <1>7, <1>8

LEMMA RevokePreserves == ASSUME AuthInv, NEW g \in Guard, Revoke(g) PROVE AuthInv'
<1> USE DEF AuthInv
<1> DEFINE t == guard[g].token
<1>1. t \in Token /\ signIn[t].absolute > 0
  BY DEF Revoke, At, AuthTypeOK, FoundEstablished
<1>2. /\ signIn' = [signIn EXCEPT ![t].revoked = TRUE]
      /\ guard' = [guard EXCEPT ![g] = Resting]
      /\ UNCHANGED <<hour, account, tries>>
  BY DEF Revoke, Rest
<1>3. /\ \A u \in Token : signIn'[u].absolute = signIn[u].absolute
      /\ signIn' \in [Token -> [idle : Nat, absolute : Nat, revoked : BOOLEAN]]
  BY <1>1, <1>2 DEF AuthTypeOK
<1>4. AuthTypeOK'
  BY <1>2, <1>3, AuthenticationAssumption DEF AuthTypeOK, Resting, Doing, Time
<1>5. EstablishedEnds'
  BY <1>1, <1>2, <1>3 DEF AuthTypeOK, EstablishedEnds
<1>6. FoundEstablished'
  BY <1>2, <1>3 DEF AuthTypeOK, FoundEstablished, Resting
<1>7. QED
  BY <1>4, <1>5, <1>6

LEMMA AbandonPreserves == ASSUME AuthInv, NEW g \in Guard, Abandon(g) PROVE AuthInv'
<1> USE DEF AuthInv
<1>1. AuthTypeOK'
  BY AuthenticationAssumption DEF Abandon, Rest, Resting, AuthTypeOK, Doing, Time
<1>2. EstablishedEnds' /\ FoundEstablished'
  BY DEF Abandon, Rest, Resting, AuthTypeOK, EstablishedEnds, FoundEstablished
<1>3. QED
  BY <1>1, <1>2

LEMMA StrikePreserves == ASSUME AuthInv, Strike PROVE AuthInv'
BY AuthenticationAssumption DEF Strike, AuthInv, AuthTypeOK, EstablishedEnds, FoundEstablished, Time

LEMMA AuthStepPreserves == AuthInv /\ [AuthNext]_authVars => AuthInv'
<1> SUFFICES ASSUME AuthInv, [AuthNext]_authVars PROVE AuthInv'
  OBVIOUS
<1>1. CASE UNCHANGED authVars
  BY <1>1 DEF authVars, AuthInv, AuthTypeOK, EstablishedEnds, FoundEstablished
<1>2. ASSUME NEW g \in Guard,
             ReadAccount(g) \/ WrongPassword(g) \/ RightPassword(g) \/ EstablishSession(g)
      PROVE  AuthInv'
  BY <1>2, ReadAccountPreserves, WrongPasswordPreserves, RightPasswordPreserves,
     EstablishPreserves
<1>3. ASSUME NEW g \in Guard,
             (\E t \in Token : ResolveCookie(g, t)) \/ Touch(g) \/ Revoke(g) \/ Abandon(g)
      PROVE  AuthInv'
  BY <1>3, ResolvePreserves, TouchPreserves, RevokePreserves, AbandonPreserves
<1>4. CASE Strike
  BY <1>4, StrikePreserves
<1>5. QED
  BY <1>1, <1>2, <1>3, <1>4 DEF AuthNext

(* No step brings a session back. *)
LEMMA StepEndsNothing ==
    ASSUME AuthInv, [AuthNext]_authVars, NEW t \in Token, Over(t)
    PROVE  Over(t)'
<1>1. signIn[t].absolute \in Nat /\ signIn[t].absolute > 0 /\ hour \in Nat
  BY DEF AuthInv, AuthTypeOK, EstablishedEnds, Over, Time
<1>2. hour' = hour \/ hour' = hour + 1
  BY DEF AuthNext, authVars, ReadAccount, WrongPassword, RightPassword, EstablishSession,
         ResolveCookie, Touch, Revoke, Abandon, Strike
<1>3. /\ signIn'[t].absolute = signIn[t].absolute
      /\ signIn[t].revoked => signIn'[t].revoked
  <2>1. CASE signIn' = signIn
    BY <2>1
  <2>2. ASSUME NEW g \in Guard, EstablishSession(g) PROVE signIn'[t] = signIn[t]
    BY <2>2 DEF EstablishSession, AuthInv, AuthTypeOK, Over
  <2>3. ASSUME NEW g \in Guard, Touch(g)
        PROVE  signIn'[t].absolute = signIn[t].absolute /\ signIn'[t].revoked = signIn[t].revoked
    BY <2>3 DEF Touch, AuthInv, AuthTypeOK
  <2>4. ASSUME NEW g \in Guard, Revoke(g)
        PROVE  /\ signIn'[t].absolute = signIn[t].absolute
               /\ signIn'[t].revoked = signIn[t].revoked \/ signIn'[t].revoked = TRUE
    BY <2>4 DEF Revoke, AuthInv, AuthTypeOK
  <2>5. QED
    BY <2>1, <2>2, <2>3, <2>4
    DEF AuthNext, authVars, ReadAccount, WrongPassword, RightPassword, ResolveCookie, Abandon,
        Strike
<1>4. signIn'[t] # NoSession
  BY <1>1, <1>3 DEF NoSession
<1>5. QED
  BY <1>1, <1>2, <1>3, <1>4 DEF Over

(***************************************************************************)
(* The results.                                                            *)
(***************************************************************************)

(* The inductive invariant holds. *)
THEOREM AuthInvariance == AuthSpec => []AuthInv
BY AuthInitEstablishes, AuthStepPreserves, PTL DEF AuthSpec

(* Every variable of the sign-in keeps its type. *)
THEOREM AuthTypeCorrect == AuthSpec => []AuthTypeOK
<1>1. AuthInv => AuthTypeOK
  BY DEF AuthInv
<1>2. QED
  BY <1>1, AuthInvariance, PTL

(* A session that was signed out or outlived its lifetime stays so, although *)
(* resolveSession and touch are two statements.                            *)
THEOREM OverForGoodTheorem == AuthSpec => OverForGood
<1>1. AuthInv /\ [AuthNext]_authVars => [\A t \in Token : Over(t) => Over(t)']_authVars
  BY StepEndsNothing
<1>2. QED
  BY <1>1, AuthInvariance, PTL DEF AuthSpec, OverForGood

-----------------------------------------------------------------------------
(***************************************************************************)
(* Guesses.  Each period of a lockout lets a sign-in in once more for      *)
(* every other that overtakes a lock: one that counted when the account    *)
(* was not yet to be locked, or in an earlier period, and whose lock is     *)
(* over when it is written.  A sign-in does so once, and then reads anew.   *)
(* The invariant adds to the wrong passwords there were those that the      *)
(* present period still has room for.                                      *)
(***************************************************************************)

Handlers == Cardinality(Guard)

Period(instant) == instant \div Lockout

(* A sign-in whose failure will lock the account for the rest of the period,*)
(* and one whose failure may open it.                                      *)
WillLock(note) ==
    /\ note.doing = "hashing"
    /\ note.failed + 1 >= MaxFailedLogins
    /\ Period(note.at) >= Period(hour)

MayOpen(note) == note.doing = "hashing" /\ ~WillLock(note)

Lockers == {g \in Guard : WillLock(guard[g])}
Openers == {g \in Guard : MayOpen(guard[g])}

LockedOut == Period(account.lockedUntil) > Period(hour)

(* Twice what openers can add, of so many handlers: each counts, and lets   *)
(* in those that are not openers, itself by then included.                 *)
OpenersAdd(handlers, openers) == openers * (2 * handlers + 3 - openers)

Room(handlers, lockers, openers, locked) ==
    2 * (IF locked THEN lockers ELSE handlers - openers) + OpenersAdd(handlers, openers)

Allowance(handlers, periods) ==
    2 * (MaxFailedLogins - 1) + 2 * (handlers - 1) + handlers * (handlers + 1) * periods

GuessesHaveRoom ==
    tries >= MaxFailedLogins - 1 =>
        2 * tries + Room(Handlers, Cardinality(Lockers), Cardinality(Openers), LockedOut)
        <= Allowance(Handlers, 1 + Period(hour))

(* The account counts what the model counts, and nobody has read the future.*)
GuessesCounted == account.failed = tries /\ \A g \in Guard : guard[g].at <= hour

GuessInv == GuessesHaveRoom /\ GuessesCounted

(***************************************************************************)
(* Periods, and the arithmetic of the bound.                               *)
(***************************************************************************)

LEMMA PeriodIs ==
    ASSUME NEW x \in Nat, NEW q \in Nat, Lockout * q <= x, x < Lockout * (q + 1)
    PROVE  Period(x) = q
BY AuthenticationAssumption, QuotientIs DEF Period

LEMMA PeriodBounds ==
    ASSUME NEW x \in Nat
    PROVE  Period(x) \in Nat /\ Lockout * Period(x) <= x /\ x < Lockout * (Period(x) + 1)
BY AuthenticationAssumption, Quotient DEF Period

LEMMA PeriodsPass ==
    ASSUME NEW x \in Nat
    PROVE  /\ Period(x + Lockout) = Period(x) + 1
           /\ Period(x + 1) = Period(x) \/ Period(x + 1) = Period(x) + 1
<1>1. PICK l \in Nat \ {0} : l = Lockout
  BY AuthenticationAssumption
<1>2. PICK p \in Nat : p = Period(x) /\ l * p <= x /\ x < l * (p + 1)
  BY <1>1, PeriodBounds
<1>3. l * (p + 1) = l * p + l /\ l * (p + 2) = l * p + l + l /\ l * p \in Nat /\ (p + 1) + 1 = p + 2
  BY <1>1, <1>2
<1>4. Period(x + l) = p + 1
  BY <1>1, <1>2, <1>3, PeriodIs
<1>5. x + 1 < l * (p + 1) => Period(x + 1) = p
  BY <1>1, <1>2, <1>3, PeriodIs
<1>6. ~(x + 1 < l * (p + 1)) => Period(x + 1) = p + 1
  BY <1>1, <1>2, <1>3, PeriodIs
<1>7. QED
  BY <1>1, <1>2, <1>4, <1>5, <1>6

LEMMA PeriodsInOrder ==
    ASSUME NEW x \in Nat, NEW y \in Nat, x <= y
    PROVE  Period(x) <= Period(y)
<1>1. PICK l \in Nat \ {0} : l = Lockout
  BY AuthenticationAssumption
<1>2. PICK p \in Nat : p = Period(x) /\ l * p <= x
  BY <1>1, PeriodBounds
<1>3. PICK q \in Nat : q = Period(y) /\ y < l * (q + 1)
  BY <1>1, PeriodBounds
<1>4. q < p => l * (q + 1) <= l * p
  BY <1>1, TimesMonotone
<1>5. l * (q + 1) \in Nat /\ l * p \in Nat
  BY <1>1
<1>6. QED
  BY <1>2, <1>3, <1>4, <1>5

LEMMA OpenerGoes ==
    ASSUME NEW n \in Nat, NEW l \in 1 .. n
    PROVE  OpenersAdd(n, l) = OpenersAdd(n, l - 1) + 2 * (n - (l - 1)) + 2
<1>1. OpenersAdd(n, l) = 2 * (n * l) + 3 * l - l * l
  BY DEF OpenersAdd
<1>2. OpenersAdd(n, l - 1) = 2 * (n * l) - 2 * n + 3 * (l - 1) - (l - 1) * (l - 1)
  BY DEF OpenersAdd
<1>3. (l - 1) * (l - 1) = l * l - 2 * l + 1
  OBVIOUS
<1>4. n * l \in Int /\ l * l \in Int
  OBVIOUS
<1>5. QED
  BY <1>1, <1>2, <1>3, <1>4

(* However many openers there are, the rest of a period and one period more *)
(* are what all handlers need.                                             *)
LEMMA RoomIsBounded ==
    ASSUME NEW n \in Nat, NEW l \in 0 .. n
    PROVE  /\ OpenersAdd(n, l) \in Nat /\ 2 * l <= OpenersAdd(n, l)
           /\ 2 * (n - l) + OpenersAdd(n, l) <= n * (n + 1) + 2 * l
<1>1. PICK d \in Nat : n = l + d
  BY n - l \in Nat
<1>2. OpenersAdd(n, l) = l * l + 2 * (l * d) + 3 * l
  BY <1>1 DEF OpenersAdd
<1>3. l * l \in Nat /\ l * d \in Nat /\ d * d \in Nat /\ d <= d * d
  BY <1>1
<1>4. n * (n + 1) = l * l + 2 * (l * d) + d * d + l + d
  BY <1>1
<1>5. QED
  BY <1>1, <1>2, <1>3, <1>4

LEMMA AllowancePerPeriod ==
    ASSUME NEW n \in Nat, NEW p \in Nat
    PROVE  /\ Allowance(n, p + 1) = Allowance(n, p) + n * (n + 1)
           /\ Allowance(n, p) \in Int
           /\ Allowance(n, p) >= 2 * (MaxFailedLogins - 1) + 2 * (n - 1)
<1>1. n * (n + 1) \in Nat
  OBVIOUS
<1>2. PICK c \in Nat : c = n * (n + 1)
  BY <1>1
<1>3. c * (p + 1) = c * p + c /\ c * p \in Nat
  OBVIOUS
<1>4. QED
  BY <1>2, <1>3, AuthenticationAssumption DEF Allowance

LEMMA RoomIs ==
    ASSUME NEW n \in Nat, NEW f \in Nat, NEW l \in Nat, f + l <= n, NEW locked \in BOOLEAN
    PROVE  /\ Room(n, f, l, locked) \in Nat
           /\ 2 * f + OpenersAdd(n, l) <= Room(n, f, l, locked)
           /\ Room(n, f, l, locked) <= 2 * (n - l) + OpenersAdd(n, l)
           /\ Room(n, f, l, locked) <= n * (n + 1) + 2 * l
           /\ n * (n + 1) \in Nat
<1>1. l \in 0 .. n
  OBVIOUS
<1>2. OpenersAdd(n, l) \in Nat /\ 2 * (n - l) + OpenersAdd(n, l) <= n * (n + 1) + 2 * l
  BY <1>1, RoomIsBounded
<1>3. n * (n + 1) \in Nat
  OBVIOUS
<1>4. QED
  BY <1>2, <1>3 DEF Room

LEMMA LockerGoes ==
    ASSUME NEW n \in Nat, NEW f \in Nat, NEW l \in Nat, f + l <= n,
           NEW locked \in BOOLEAN, NEW next \in BOOLEAN
    PROVE  /\ Room(n, f - 1, l, next) \in Int /\ Room(n, f, l, locked) \in Int
           /\ next => Room(n, f - 1, l, next) + 2 <= Room(n, f, l, locked)
<1>1. PICK o \in Nat : o = OpenersAdd(n, l)
  <2>1. l \in 0 .. n
    OBVIOUS
  <2>2. QED
    BY <2>1, RoomIsBounded
<1>2. /\ Room(n, f - 1, l, next) \in Int
      /\ next => Room(n, f - 1, l, next) = 2 * (f - 1) + o
  BY <1>1 DEF Room
<1>3. Room(n, f, l, locked) \in Nat /\ 2 * f + o <= Room(n, f, l, locked)
  BY <1>1, RoomIs
<1>4. QED
  BY <1>2, <1>3

(* There is room to begin: somebody is not checking a password.             *)
LEMMA RoomToBegin ==
    ASSUME NEW n \in Nat, NEW f \in Nat, NEW l \in Nat, f + l < n, NEW locked \in BOOLEAN,
           NEW t \in Nat, t <= MaxFailedLogins - 1, NEW p \in Nat
    PROVE  2 * t + Room(n, f, l, locked) <= Allowance(n, 1 + p)
<1>1. Room(n, f, l, locked) \in Nat /\ Room(n, f, l, locked) <= n * (n + 1) + 2 * l
      /\ n * (n + 1) \in Nat
  BY RoomIs
<1>2. /\ Allowance(n, 1 + p) = Allowance(n, p) + n * (n + 1) /\ Allowance(n, p) \in Int
      /\ Allowance(n, p) >= 2 * (MaxFailedLogins - 1) + 2 * (n - 1)
  <2>1. 1 + p = p + 1
    OBVIOUS
  <2>2. QED
    BY <2>1, AllowancePerPeriod
<1>3. l <= n - 1 /\ MaxFailedLogins \in Nat
  BY AuthenticationAssumption
<1>4. QED
  BY <1>1, <1>2, <1>3

(***************************************************************************)
(* The handlers.                                                           *)
(***************************************************************************)

LEMMA HandlersCount ==
    ASSUME NEW S \in SUBSET Guard
    PROVE  IsFiniteSet(S) /\ Cardinality(S) \in Nat /\ Cardinality(S) <= Handlers
BY AuthenticationAssumption, FS_Subset, FS_CardinalityType DEF Handlers

LEMMA CheckersCount ==
    ASSUME NEW S \in SUBSET Guard, NEW T \in SUBSET Guard, S \cap T = {}
    PROVE  /\ IsFiniteSet(S) /\ Cardinality(S) \in Nat
           /\ IsFiniteSet(T) /\ Cardinality(T) \in Nat
           /\ Cardinality(S \cup T) = Cardinality(S) + Cardinality(T)
           /\ Cardinality(S) + Cardinality(T) <= Handlers
           /\ \A g \in Guard : g \notin S \cup T => Cardinality(S) + Cardinality(T) < Handlers
           /\ Handlers \in Nat \ {0}
<1>1. IsFiniteSet(S) /\ Cardinality(S) \in Nat /\ IsFiniteSet(T) /\ Cardinality(T) \in Nat
  BY HandlersCount
<1>2. Cardinality(S \cup T) = Cardinality(S) + Cardinality(T)
  <2>1. Cardinality(S \cup T) = Cardinality(S) + Cardinality(T) - Cardinality(S \cap T)
    BY <1>1, FS_Union
  <2>2. Cardinality(S \cap T) = 0
    BY FS_EmptySet
  <2>3. QED
    BY <1>1, <2>1, <2>2
<1>3. Cardinality(S \cup T) <= Handlers /\ IsFiniteSet(S \cup T)
  <2>1. S \cup T \in SUBSET Guard
    OBVIOUS
  <2>2. QED
    BY <2>1, HandlersCount
<1>4. Handlers \in Nat \ {0}
  BY AuthenticationAssumption, FS_CardinalityType, FS_EmptySet DEF Handlers
<1>5. ASSUME NEW g \in Guard, g \notin S \cup T PROVE Cardinality(S) + Cardinality(T) < Handlers
  <2>1. Cardinality((S \cup T) \cup {g}) = Cardinality(S \cup T) + 1
    BY <1>3, <1>5, FS_AddElement
  <2>2. (S \cup T) \cup {g} \in SUBSET Guard
    BY <1>5
  <2>3. Cardinality((S \cup T) \cup {g}) <= Handlers
    BY <2>2, HandlersCount
  <2>4. QED
    BY <1>1, <1>2, <1>4, <2>1, <2>3
<1>6. QED
  BY <1>1, <1>2, <1>3, <1>4, <1>5

LEMMA Checkers ==
    /\ Lockers \in SUBSET Guard /\ Openers \in SUBSET Guard /\ Lockers \cap Openers = {}
    /\ Lockers \cup Openers = {g \in Guard : At(g, "hashing")}
BY DEF Lockers, Openers, MayOpen, WillLock, At

LEMMA CheckersNext ==
    /\ Lockers' \in SUBSET Guard /\ Openers' \in SUBSET Guard /\ Lockers' \cap Openers' = {}
    /\ Lockers' \cup Openers' = {g \in Guard : guard'[g].doing = "hashing"}
BY DEF Lockers, Openers, MayOpen, WillLock

LEMMA LockedIsBoolean == LockedOut \in BOOLEAN /\ LockedOut' \in BOOLEAN
BY DEF LockedOut

(* A wrong password that only now makes a lock due, or a right one, leaves  *)
(* room: its handler is not checking any more.                             *)
LEMMA GuessBegins ==
    ASSUME AuthTypeOK', NEW g \in Guard, guard'[g].doing # "hashing", tries' <= MaxFailedLogins - 1
    PROVE  GuessesHaveRoom'
<1>1. /\ Cardinality(Lockers') \in Nat /\ Cardinality(Openers') \in Nat /\ Handlers \in Nat
      /\ Cardinality(Lockers') + Cardinality(Openers') < Handlers
  <2>1. g \notin Lockers' \cup Openers'
    BY CheckersNext
  <2>2. QED
    BY <2>1, CheckersNext, CheckersCount
<1>2. tries' \in Nat /\ Period(hour') \in Nat
  BY PeriodBounds DEF AuthTypeOK, Time
<1>3. 2 * tries' + Room(Handlers, Cardinality(Lockers'), Cardinality(Openers'), LockedOut')
      <= Allowance(Handlers, 1 + Period(hour'))
  BY <1>1, <1>2, LockedIsBoolean, RoomToBegin
<1>4. QED
  BY <1>3 DEF GuessesHaveRoom, Handlers

(* The room is what it was when the same handlers check, as they did. *)
LEMMA GuessesKept ==
    ASSUME GuessesHaveRoom, UNCHANGED <<hour, account, tries>>, Lockers' = Lockers,
           Openers' = Openers
    PROVE  GuessesHaveRoom'
BY DEF GuessesHaveRoom, LockedOut, Handlers

LEMMA CheckerLeaves ==
    ASSUME AuthTypeOK, NEW g \in Guard, NEW x, x.doing # "hashing",
           guard' = [guard EXCEPT ![g] = x], UNCHANGED hour
    PROVE  Lockers' = Lockers \ {g} /\ Openers' = Openers \ {g} /\ guard'[g].doing # "hashing"
<1>1. guard'[g] = x /\ \A h \in Guard \ {g} : guard'[h] = guard[h]
  BY DEF AuthTypeOK
<1>2. \A h \in Guard \ {g} : WillLock(guard[h])' <=> WillLock(guard[h])
  BY <1>1 DEF WillLock, Period
<1>3. \A h \in Guard \ {g} : MayOpen(guard[h])' <=> MayOpen(guard[h])
  BY <1>1, <1>2 DEF MayOpen
<1>4. ~WillLock(guard[g])' /\ ~MayOpen(guard[g])'
  BY <1>1 DEF WillLock, MayOpen
<1>5. QED
  BY <1>1, <1>2, <1>3, <1>4 DEF Lockers, Openers

LEMMA CheckerComes ==
    ASSUME AuthTypeOK, NEW g \in Guard, NEW x, WillLock(x),
           guard' = [guard EXCEPT ![g] = x], guard[g].doing # "hashing", UNCHANGED hour
    PROVE  Lockers' = Lockers \cup {g} /\ Openers' = Openers
<1>1. guard'[g] = x /\ \A h \in Guard \ {g} : guard'[h] = guard[h]
  BY DEF AuthTypeOK
<1>2. \A h \in Guard \ {g} : WillLock(guard[h])' <=> WillLock(guard[h])
  BY <1>1 DEF WillLock, Period
<1>3. \A h \in Guard \ {g} : MayOpen(guard[h])' <=> MayOpen(guard[h])
  BY <1>1, <1>2 DEF MayOpen
<1>4. WillLock(guard[g])' /\ ~MayOpen(guard[g])' /\ ~MayOpen(guard[g])
  BY <1>1 DEF WillLock, MayOpen, Period
<1>5. QED
  BY <1>1, <1>2, <1>3, <1>4 DEF Lockers, Openers

-----------------------------------------------------------------------------
(* The steps.                                                              *)

(* A sign-in that stops checking leaves its room to the others; a wrong     *)
(* password takes it, and an opener that of those it lets in.              *)
LEMMA LeavingLeavesRoom ==
    ASSUME AuthTypeOK, GuessesHaveRoom, NEW g \in Guard, NEW x, x.doing # "hashing",
           guard' = [guard EXCEPT ![g] = x], UNCHANGED hour, tries >= MaxFailedLogins - 1,
           \/ UNCHANGED <<account, tries>>
           \/ /\ g \in Lockers \cup Openers /\ tries' = tries + 1
              /\ g \in Lockers => LockedOut'
    PROVE  2 * tries' + Room(Handlers, Cardinality(Lockers'), Cardinality(Openers'), LockedOut')
           <= Allowance(Handlers, 1 + Period(hour))
<1>1. /\ Lockers' = Lockers \ {g} /\ Openers' = Openers \ {g}
  BY CheckerLeaves
<1>2. PICK n \in Nat \ {0}, f \in Nat, l \in Nat :
          /\ n = Handlers /\ f = Cardinality(Lockers) /\ l = Cardinality(Openers) /\ f + l <= n
          /\ IsFiniteSet(Lockers) /\ IsFiniteSet(Openers)
  BY Checkers, CheckersCount
<1>3. /\ Cardinality(Lockers') = IF g \in Lockers THEN f - 1 ELSE f
      /\ Cardinality(Openers') = IF g \in Openers THEN l - 1 ELSE l
      /\ ~(g \in Lockers /\ g \in Openers)
      /\ (g \in Lockers => f > 0) /\ (g \in Openers => l > 0)
  <2>1. Cardinality(Lockers \ {g}) = IF g \in Lockers THEN f - 1 ELSE f
    BY <1>2, FS_RemoveElement
  <2>2. Cardinality(Openers \ {g}) = IF g \in Openers THEN l - 1 ELSE l
    BY <1>2, FS_RemoveElement
  <2>3. Cardinality(Lockers \ {g}) \in Nat /\ Cardinality(Openers \ {g}) \in Nat
    BY <1>2, FS_RemoveElement, FS_CardinalityType
  <2>4. QED
    BY <1>1, <1>2, <2>1, <2>2, <2>3, Checkers
<1>4. PICK bound : bound = Allowance(n, 1 + Period(hour))
  OBVIOUS
<1>5. bound \in Int /\ tries \in Nat
  BY <1>2, <1>4, AllowancePerPeriod, PeriodBounds DEF AuthTypeOK, Time
<1>6. 2 * tries + Room(n, f, l, LockedOut) <= bound
  BY <1>2, <1>4 DEF GuessesHaveRoom
<1>7. PICK locked \in BOOLEAN, lockedNext \in BOOLEAN :
          locked = LockedOut /\ lockedNext = LockedOut'
  BY LockedIsBoolean
<1>8. CASE g \in Lockers
  <2>1. Cardinality(Lockers') = f - 1 /\ Cardinality(Openers') = l /\ f - 1 \in Nat
    BY <1>3, <1>8
  <2>2. OpenersAdd(n, l) \in Nat
    <3>1. l \in 0 .. n
      BY <1>2
    <3>2. QED
      BY <3>1, RoomIsBounded
  <2>3. CASE UNCHANGED <<account, tries>>
    <3>1. lockedNext = locked
      BY <1>7, <2>3 DEF LockedOut
    <3>2. Room(n, f - 1, l, locked) <= Room(n, f, l, locked)
      BY <2>1, <2>2 DEF Room
    <3>3. Room(n, f - 1, l, locked) \in Int /\ Room(n, f, l, locked) \in Int
      BY <2>2 DEF Room
    <3>4. QED
      BY <1>2, <1>4, <1>5, <1>6, <1>7, <2>1, <2>3, <3>1, <3>2, <3>3
  <2>4. CASE tries' = tries + 1 /\ LockedOut'
    <3>1. 2 * tries + Room(n, f, l, locked) <= bound
      BY <1>6, <1>7
    <3>2. lockedNext
      BY <1>7, <2>4
    <3>3. /\ Room(n, f - 1, l, lockedNext) \in Int /\ Room(n, f, l, locked) \in Int
          /\ lockedNext => Room(n, f - 1, l, lockedNext) + 2 <= Room(n, f, l, locked)
      BY <1>2, LockerGoes
    <3>4. Room(n, f - 1, l, lockedNext) + 2 <= Room(n, f, l, locked)
      BY <3>2, <3>3
    <3>5. 2 * (tries + 1) + Room(n, f - 1, l, lockedNext) <= bound
      BY <1>5, <3>1, <3>3, <3>4
    <3>6. QED
      BY <1>2, <1>4, <1>7, <2>1, <2>4, <3>5
  <2>5. QED
    BY <1>8, <2>3, <2>4
<1>9. CASE g \in Openers
  <2>1. /\ Cardinality(Lockers') = f /\ Cardinality(Openers') = l - 1 /\ l - 1 \in Nat
        /\ f + (l - 1) <= n /\ l \in 1 .. n
    BY <1>2, <1>3, <1>9
  <2>2. OpenersAdd(n, l) = OpenersAdd(n, l - 1) + 2 * (n - (l - 1)) + 2
    BY <2>1, OpenerGoes
  <2>3. 2 * f + OpenersAdd(n, l) <= Room(n, f, l, locked) /\ Room(n, f, l, locked) \in Nat
    BY <1>2, RoomIs
  <2>4. /\ Room(n, f, l - 1, lockedNext) <= 2 * (n - (l - 1)) + OpenersAdd(n, l - 1)
        /\ Room(n, f, l - 1, lockedNext) \in Nat
    BY <1>2, <2>1, RoomIs
  <2>5. OpenersAdd(n, l - 1) \in Nat
    <3>1. l - 1 \in 0 .. n
      BY <2>1
    <3>2. QED
      BY <3>1, RoomIsBounded
  <2>6. tries' = tries \/ tries' = tries + 1
    OBVIOUS
  <2>7. 2 * tries' + Room(n, f, l - 1, lockedNext) <= bound
    BY <1>5, <1>6, <1>7, <2>1, <2>2, <2>3, <2>4, <2>5, <2>6
  <2>8. QED
    BY <1>2, <1>4, <1>7, <2>1, <2>7
<1>10. CASE g \notin Lockers \cup Openers
  <2>1. UNCHANGED <<account, tries>>
    BY <1>10
  <2>2. lockedNext = locked
    BY <1>7, <2>1 DEF LockedOut
  <2>3. QED
    BY <1>2, <1>3, <1>4, <1>6, <1>7, <1>10, <2>1, <2>2
<1>11. QED
  BY <1>8, <1>9, <1>10

LEMMA AbandonKeepsRoom ==
    ASSUME AuthTypeOK, GuessInv, NEW g \in Guard, NEW x, x.doing # "hashing", x.at <= hour,
           guard' = [guard EXCEPT ![g] = x], UNCHANGED <<hour, account, tries>>
    PROVE  GuessInv'
<1>1. tries >= MaxFailedLogins - 1 =>
          2 * tries' + Room(Handlers, Cardinality(Lockers'), Cardinality(Openers'), LockedOut')
          <= Allowance(Handlers, 1 + Period(hour))
  BY LeavingLeavesRoom DEF GuessInv
<1>2. GuessesHaveRoom'
  BY <1>1 DEF GuessesHaveRoom, Handlers, Period
<1>3. GuessesCounted'
  BY DEF GuessInv, GuessesCounted, AuthTypeOK
<1>4. QED
  BY <1>2, <1>3 DEF GuessInv

LEMMA RestingRests == Resting.doing # "hashing" /\ Resting.at = 0
BY DEF Resting

(* A sign-in that begins when a lock is due will lock, and nothing is       *)
(* locked yet.                                                             *)
LEMMA ReadAccountRoom ==
    ASSUME AuthInv, GuessInv, NEW g \in Guard, ReadAccount(g)
    PROVE  GuessInv'
<1>1. PICK x : x = [Resting EXCEPT !.doing = "hashing", !.at = hour, !.failed = account.failed]
  OBVIOUS
<1>2. x.doing = "hashing" /\ x.at = hour /\ x.failed = tries
  BY <1>1 DEF Resting, GuessInv, GuessesCounted
<1>3. /\ guard' = [guard EXCEPT ![g] = x] /\ UNCHANGED <<hour, account, tries>>
      /\ guard[g].doing = "nothing" /\ ~(account.lockedUntil > hour)
  BY <1>1 DEF ReadAccount, At, Locked
<1>4. hour \in Nat /\ tries \in Nat /\ account.lockedUntil \in Nat /\ MaxFailedLogins \in Nat
  BY AuthenticationAssumption DEF AuthInv, AuthTypeOK, Time
<1>5. GuessesCounted'
  BY <1>2, <1>3, <1>4 DEF GuessInv, GuessesCounted, AuthInv, AuthTypeOK
<1>6. GuessesHaveRoom'
  <2>1. CASE tries < MaxFailedLogins - 1
    BY <1>3, <1>4, <2>1 DEF GuessesHaveRoom
  <2>2. CASE tries >= MaxFailedLogins - 1
    <3>1. WillLock(x)
      <4>1. Period(hour) \in Nat
        BY <1>4, PeriodBounds
      <4>2. QED
        BY <1>2, <1>4, <2>2, <4>1 DEF WillLock
    <3>2. Lockers' = Lockers \cup {g} /\ Openers' = Openers
      BY <1>3, <3>1, CheckerComes DEF AuthInv
    <3>3. ~LockedOut /\ ~LockedOut'
      <4>1. Period(account.lockedUntil) <= Period(hour)
        BY <1>3, <1>4, PeriodsInOrder
      <4>2. Period(account.lockedUntil) \in Nat /\ Period(hour) \in Nat
        BY <1>4, PeriodBounds
      <4>3. ~LockedOut
        BY <4>1, <4>2 DEF LockedOut
      <4>4. QED
        BY <1>3, <4>3 DEF LockedOut
    <3>4. \A f \in Nat, h \in Nat, n \in Nat, l \in Nat :
              Room(n, f, l, FALSE) = Room(n, h, l, FALSE)
      BY DEF Room
    <3>5. PICK f \in Nat, h \in Nat, l \in Nat, n \in Nat :
              f = Cardinality(Lockers) /\ h = Cardinality(Lockers') /\ l = Cardinality(Openers)
              /\ n = Handlers /\ l = Cardinality(Openers')
      BY <3>2, Checkers, CheckersNext, CheckersCount
    <3>6. 2 * tries + Room(n, f, l, LockedOut) <= Allowance(n, 1 + Period(hour))
      BY <2>2, <3>5 DEF GuessInv, GuessesHaveRoom
    <3>7. Room(n, f, l, LockedOut) = Room(n, h, l, LockedOut')
      BY <3>3 DEF Room
    <3>8. 2 * tries + Room(n, h, l, LockedOut') <= Allowance(n, 1 + Period(hour))
      BY <3>6, <3>7
    <3>9. QED
      BY <1>3, <3>5, <3>8 DEF GuessesHaveRoom, Handlers
  <2>3. QED
    BY <1>4, <2>1, <2>2
<1>7. QED
  BY <1>5, <1>6 DEF GuessInv

LEMMA WrongPasswordRoom ==
    ASSUME AuthInv, AuthTypeOK', GuessInv, NEW g \in Guard, WrongPassword(g)
    PROVE  GuessInv'
<1>1. /\ guard' = [guard EXCEPT ![g] = Resting] /\ UNCHANGED hour /\ tries' = tries + 1
      /\ guard[g].doing = "hashing" /\ account' = Failure(guard[g])
  BY DEF WrongPassword, Rest, At
<1>2. hour \in Nat /\ tries \in Nat /\ MaxFailedLogins \in Nat /\ guard[g].at \in Nat
      /\ guard[g].failed \in Nat
  BY AuthenticationAssumption DEF AuthInv, AuthTypeOK, Time
<1>3. GuessesCounted'
  <2>1. account'.failed = tries'
    BY <1>1 DEF Failure, GuessInv, GuessesCounted
  <2>2. \A h \in Guard : guard'[h].at <= hour'
    BY <1>1, <1>2, RestingRests DEF GuessInv, GuessesCounted, AuthInv, AuthTypeOK
  <2>3. QED
    BY <2>1, <2>2 DEF GuessesCounted
<1>4. guard'[g].doing # "hashing"
  BY <1>1, RestingRests DEF AuthInv, AuthTypeOK
<1>5. GuessesHaveRoom'
  <2>1. CASE tries' <= MaxFailedLogins - 1
    BY <1>4, <2>1, GuessBegins
  <2>2. CASE tries >= MaxFailedLogins - 1
    <3>1. g \in Lockers \cup Openers
      BY <1>1, Checkers DEF At
    <3>2. ASSUME g \in Lockers PROVE LockedOut'
      <4>1. guard[g].failed + 1 >= MaxFailedLogins /\ Period(guard[g].at) >= Period(hour)
        BY <3>2 DEF Lockers, WillLock
      <4>2. account'.lockedUntil = guard[g].at + Lockout
        BY <1>1, <4>1 DEF Failure
      <4>3. Period(guard[g].at + Lockout) = Period(guard[g].at) + 1
        BY <1>2, PeriodsPass
      <4>4. Period(guard[g].at) \in Nat /\ Period(hour) \in Nat
        BY <1>2, PeriodBounds
      <4>5. Period(account'.lockedUntil) > Period(hour')
        BY <1>1, <4>1, <4>2, <4>3, <4>4
      <4>6. QED
        BY <4>5 DEF LockedOut, Period
    <3>3. 2 * tries' + Room(Handlers, Cardinality(Lockers'), Cardinality(Openers'), LockedOut')
          <= Allowance(Handlers, 1 + Period(hour))
      BY <1>1, <2>2, <3>1, <3>2, RestingRests, LeavingLeavesRoom DEF AuthInv, GuessInv
    <3>4. QED
      BY <1>1, <3>3 DEF GuessesHaveRoom, Handlers
  <2>3. QED
    BY <1>1, <1>2, <2>1, <2>2
<1>6. QED
  BY <1>3, <1>5 DEF GuessInv

LEMMA RightPasswordRoom ==
    ASSUME AuthInv, AuthTypeOK', GuessInv, NEW g \in Guard, RightPassword(g)
    PROVE  GuessInv'
<1>1. /\ guard' = [guard EXCEPT ![g].doing = "establishing"] /\ UNCHANGED hour /\ tries' = 0
      /\ account'.failed = 0
  BY DEF RightPassword
<1>2. guard'[g].doing = "establishing" /\ \A h \in Guard : guard'[h].at = guard[h].at
  BY <1>1 DEF AuthInv, AuthTypeOK
<1>3. GuessesCounted'
  BY <1>1, <1>2 DEF GuessInv, GuessesCounted
<1>4. tries' <= MaxFailedLogins - 1
  BY <1>1, AuthenticationAssumption
<1>5. GuessesHaveRoom'
  BY <1>2, <1>4, GuessBegins
<1>6. QED
  BY <1>3, <1>5 DEF GuessInv

LEMMA OtherStepsKeepRoom ==
    ASSUME AuthInv, GuessInv, NEW g \in Guard,
           \/ EstablishSession(g) \/ Touch(g) \/ Revoke(g) \/ Abandon(g)
           \/ \E t \in Token : ResolveCookie(g, t)
    PROVE  GuessInv'
<1>1. UNCHANGED <<hour, account, tries>>
  BY DEF EstablishSession, Touch, Revoke, Abandon, ResolveCookie
<1>2. AuthTypeOK /\ hour >= 0 /\ guard[g].at <= hour
  BY DEF AuthInv, AuthTypeOK, Time, GuessInv, GuessesCounted
<1>3. CASE Rest(g)
  <2>1. Resting.at <= hour
    BY <1>2, RestingRests
  <2>2. QED
    BY <1>1, <1>2, <1>3, <2>1, RestingRests, AbandonKeepsRoom DEF Rest
<1>4. CASE guard' = [guard EXCEPT ![g].doing = "revoking"]
  <2>1. PICK x : x = [guard[g] EXCEPT !.doing = "revoking"]
    OBVIOUS
  <2>2. x.doing = "revoking" /\ x.at = guard[g].at
    BY <2>1 DEF AuthInv, AuthTypeOK
  <2>3. guard' = [guard EXCEPT ![g] = x]
    BY <1>4, <2>1
  <2>4. QED
    BY <1>1, <1>2, <2>2, <2>3, AbandonKeepsRoom
<1>5. CASE \E t \in Token : ResolveCookie(g, t)
  <2>1. PICK t \in Token : ResolveCookie(g, t)
    BY <1>5
  <2>2. PICK x : x = [Resting EXCEPT !.doing = "touching", !.token = t, !.idle = NextIdle(t)]
    OBVIOUS
  <2>3. x.doing = "touching" /\ x.at = 0
    BY <2>2 DEF Resting
  <2>4. guard' = [guard EXCEPT ![g] = x]
    BY <2>1, <2>2 DEF ResolveCookie
  <2>5. QED
    BY <1>1, <1>2, <2>3, <2>4, AbandonKeepsRoom
<1>6. QED
  BY <1>3, <1>4, <1>5 DEF EstablishSession, Touch, Revoke, Abandon

(* When a period ends, those that would have locked it may open the next,   *)
(* whose allowance pays for all of them.                                   *)
LEMMA StrikeRoom ==
    ASSUME AuthInv, GuessInv, Strike
    PROVE  GuessInv'
<1>1. /\ hour' = hour + 1 /\ UNCHANGED <<account, guard, tries>> /\ hour \in Nat /\ tries \in Nat
      /\ account.lockedUntil \in Nat /\ \A g \in Guard : guard[g].at \in Nat /\ guard[g].at <= hour
  BY DEF Strike, AuthInv, AuthTypeOK, Time, GuessInv, GuessesCounted
<1>2. GuessesCounted'
  BY <1>1 DEF GuessInv, GuessesCounted
<1>3. PICK p \in Nat : p = Period(hour)
  BY <1>1, PeriodBounds
<1>4. CASE Period(hour') = p
  <2>1. \A g \in Guard : WillLock(guard[g])' <=> WillLock(guard[g])
    BY <1>1, <1>3, <1>4 DEF WillLock, Period
  <2>2. \A g \in Guard : MayOpen(guard[g])' <=> MayOpen(guard[g])
    BY <1>1, <2>1 DEF MayOpen
  <2>3. Lockers' = Lockers /\ Openers' = Openers
    BY <2>1, <2>2 DEF Lockers, Openers
  <2>4. LockedOut' = LockedOut
    BY <1>1, <1>3, <1>4 DEF LockedOut, Period
  <2>5. GuessesHaveRoom'
    BY <1>1, <1>3, <1>4, <2>3, <2>4 DEF GuessInv, GuessesHaveRoom, Handlers, Period
  <2>6. QED
    BY <1>2, <2>5 DEF GuessInv
<1>5. CASE Period(hour') = p + 1
  <2>1. \A g \in Guard : Period(guard[g].at) \in Nat /\ Period(guard[g].at) <= p
    BY <1>1, <1>3, PeriodsInOrder, PeriodBounds
  <2>2. \A g \in Guard : ~WillLock(guard[g])'
    BY <1>1, <1>5, <2>1 DEF WillLock, Period
  <2>3. \A g \in Guard : MayOpen(guard[g])' <=> guard[g].doing = "hashing"
    BY <1>1, <2>2 DEF MayOpen
  <2>4. Lockers' = {} /\ Openers' = Lockers \cup Openers
    <3>1. Lockers' = {}
      BY <2>2 DEF Lockers
    <3>2. Openers' = {g \in Guard : guard[g].doing = "hashing"}
      BY <2>3 DEF Openers
    <3>3. QED
      BY <3>1, <3>2, Checkers DEF At
  <2>5. PICK n \in Nat \ {0}, f \in Nat, l \in Nat :
            /\ n = Handlers /\ f = Cardinality(Lockers) /\ l = Cardinality(Openers) /\ f + l <= n
            /\ Cardinality(Lockers \cup Openers) = f + l
    <3>1. Lockers \in SUBSET Guard /\ Openers \in SUBSET Guard /\ Lockers \cap Openers = {}
      BY Checkers
    <3>2. /\ Cardinality(Lockers) \in Nat /\ Cardinality(Openers) \in Nat
          /\ Cardinality(Lockers \cup Openers) = Cardinality(Lockers) + Cardinality(Openers)
          /\ Cardinality(Lockers) + Cardinality(Openers) <= Handlers /\ Handlers \in Nat \ {0}
      BY <3>1, CheckersCount
    <3>3. QED
      BY <3>2
  <2>6. Cardinality(Lockers') = 0 /\ Cardinality(Openers') = f + l
    BY <2>4, <2>5, FS_EmptySet
  <2>7. PICK locked \in BOOLEAN, lockedNext \in BOOLEAN :
            locked = LockedOut /\ lockedNext = LockedOut'
    BY LockedIsBoolean
  <2>8. /\ Room(n, 0, f + l, lockedNext) \in Nat
        /\ Room(n, 0, f + l, lockedNext) <= n * (n + 1) + 2 * (f + l)
    <3>1. n \in Nat /\ 0 \in Nat /\ f + l \in Nat /\ 0 + (f + l) <= n
      BY <2>5
    <3>2. QED
      BY <3>1, RoomIs
  <2>9. /\ Room(n, f, l, locked) \in Nat /\ n * (n + 1) \in Nat
        /\ 2 * f + OpenersAdd(n, l) <= Room(n, f, l, locked)
    BY <2>5, RoomIs
  <2>10. OpenersAdd(n, l) \in Nat /\ 2 * l <= OpenersAdd(n, l)
    <3>1. l \in 0 .. n
      BY <2>5
    <3>2. QED
      BY <3>1, RoomIsBounded
  <2>11. /\ Allowance(n, 1 + p) \in Int
         /\ Allowance(n, 1 + (p + 1)) = Allowance(n, 1 + p) + n * (n + 1)
    <3>1. 1 + p \in Nat /\ 1 + (p + 1) = (1 + p) + 1
      OBVIOUS
    <3>2. QED
      BY <3>1, AllowancePerPeriod
  <2>12. ASSUME tries >= MaxFailedLogins - 1
         PROVE  2 * tries + Room(n, 0, f + l, lockedNext) <= Allowance(n, 1 + (p + 1))
    <3>1. 2 * tries + Room(n, f, l, locked) <= Allowance(n, 1 + p)
      BY <1>3, <2>5, <2>7, <2>12 DEF GuessInv, GuessesHaveRoom
    <3>2. QED
      BY <1>1, <2>8, <2>9, <2>10, <2>11, <3>1
  <2>13. GuessesHaveRoom'
    BY <1>1, <1>5, <2>5, <2>6, <2>7, <2>12 DEF GuessesHaveRoom, Handlers, Period
  <2>14. QED
    BY <1>2, <2>13 DEF GuessInv
<1>6. QED
  BY <1>1, <1>3, <1>4, <1>5, PeriodsPass

LEMMA GuessInit == AuthInit => GuessInv
<1>1. SUFFICES ASSUME AuthInit PROVE GuessInv
  OBVIOUS
<1>2. /\ hour = 0 /\ account.failed = 0 /\ tries = 0
      /\ \A g \in Guard : guard[g].doing = "nothing" /\ guard[g].at = 0
  BY <1>1 DEF AuthInit, Resting
<1>3. GuessesCounted
  BY <1>2 DEF GuessesCounted
<1>4. Lockers = {} /\ Openers = {}
  BY <1>2 DEF Lockers, Openers, WillLock, MayOpen
<1>5. PICK n \in Nat \ {0} : n = Handlers
  BY Checkers, CheckersCount
<1>6. Cardinality(Lockers) = 0 /\ Cardinality(Openers) = 0
  BY <1>4, FS_EmptySet
<1>7. PICK locked \in BOOLEAN, p \in Nat : locked = LockedOut /\ p = Period(hour)
  BY <1>2, LockedIsBoolean, PeriodBounds
<1>8. 2 * 0 + Room(n, 0, 0, locked) <= Allowance(n, 1 + p)
  <2>1. n \in Nat /\ 0 \in Nat /\ 0 + 0 < n /\ 0 <= MaxFailedLogins - 1
    BY <1>5, AuthenticationAssumption
  <2>2. QED
    BY <2>1, RoomToBegin
<1>9. GuessesHaveRoom
  BY <1>2, <1>5, <1>6, <1>7, <1>8 DEF GuessesHaveRoom
<1>10. QED
  BY <1>3, <1>9 DEF GuessInv

LEMMA GuessesStep == AuthInv /\ AuthInv' /\ GuessInv /\ [AuthNext]_authVars => GuessInv'
<1>1. SUFFICES ASSUME AuthInv, AuthTypeOK', GuessInv, [AuthNext]_authVars PROVE GuessInv'
  BY DEF AuthInv
<1>2. CASE UNCHANGED authVars
  <2>1. UNCHANGED <<hour, account, guard, tries>>
    BY <1>2 DEF authVars
  <2>2. \A g \in Guard : /\ WillLock(guard[g])' <=> WillLock(guard[g])
                         /\ MayOpen(guard[g])' <=> MayOpen(guard[g])
    BY <2>1 DEF WillLock, MayOpen, Period
  <2>3. Lockers' = Lockers /\ Openers' = Openers
    BY <2>2 DEF Lockers, Openers
  <2>4. GuessesHaveRoom'
    BY <1>1, <2>1, <2>3, GuessesKept DEF GuessInv
  <2>5. QED
    BY <1>1, <2>1, <2>4 DEF GuessInv, GuessesCounted
<1>3. ASSUME NEW g \in Guard, ReadAccount(g) PROVE GuessInv'
  BY <1>1, <1>3, ReadAccountRoom
<1>4. ASSUME NEW g \in Guard, WrongPassword(g) PROVE GuessInv'
  BY <1>1, <1>4, WrongPasswordRoom
<1>5. ASSUME NEW g \in Guard, RightPassword(g) PROVE GuessInv'
  BY <1>1, <1>5, RightPasswordRoom
<1>6. ASSUME NEW g \in Guard,
             \/ EstablishSession(g) \/ Touch(g) \/ Revoke(g) \/ Abandon(g)
             \/ \E t \in Token : ResolveCookie(g, t)
      PROVE  GuessInv'
  BY <1>1, <1>6, OtherStepsKeepRoom
<1>7. CASE Strike
  BY <1>1, <1>7, StrikeRoom
<1>8. QED
  BY <1>1, <1>2, <1>3, <1>4, <1>5, <1>6, <1>7 DEF AuthNext

(* The account counts every wrong password, and in every period there is    *)
(* room for those that were checked in it.                                 *)
THEOREM GuessesInvariance == AuthSpec => []GuessInv
<1>1. AuthSpec => []AuthInv
  BY AuthInvariance
<1>2. QED
  BY <1>1, GuessInit, GuessesStep, PTL DEF AuthSpec

(* Whatever the handlers interleave, the passwords checked are bounded by   *)
(* their number and by the lockouts that have passed: a lock written by one *)
(* sign-in and undone by a stale other still leaves the guesses bounded.     *)
THEOREM GuessesTheorem == AuthSpec => []GuessesBounded
<1>1. AuthInv /\ GuessInv => GuessesBounded
  <2>1. SUFFICES ASSUME AuthInv, GuessInv PROVE GuessesBounded
    OBVIOUS
  <2>2. PICK n \in Nat \ {0}, f \in Nat, l \in Nat :
            n = Handlers /\ f = Cardinality(Lockers) /\ l = Cardinality(Openers) /\ f + l <= n
    BY Checkers, CheckersCount
  <2>3. PICK p \in Nat, m \in Nat \ {0}, t \in Nat :
            p = hour \div Lockout /\ m = MaxFailedLogins /\ t = tries
    <3>1. hour \in Nat /\ tries \in Nat
      BY <2>1, AuthenticationAssumption DEF AuthInv, AuthTypeOK, Time
    <3>2. hour \div Lockout \in Nat
      BY <3>1, PeriodBounds DEF Period
    <3>3. QED
      BY <3>1, <3>2, AuthenticationAssumption
  <2>4. PICK locked \in BOOLEAN : locked = LockedOut
    BY LockedIsBoolean
  <2>5. PICK d \in Nat : n * (n + 1) = 2 * d /\ (n * (n + 1)) \div 2 = d
    <3>1. PICK k \in Nat : n = 2 * k \/ n = 2 * k + 1
      <4>1. n = 2 * (n \div 2) \/ n = 2 * (n \div 2) + 1
        OBVIOUS
      <4>2. n \div 2 \in Nat
        OBVIOUS
      <4>3. QED
        BY <4>1, <4>2
    <3>2. PICK d \in Nat : n * (n + 1) = 2 * d
      <4>1. CASE n = 2 * k
        <5>1. n * (n + 1) = 2 * (k * (n + 1)) /\ k * (n + 1) \in Nat
          BY <4>1
        <5>2. QED
          BY <5>1
      <4>2. CASE n = 2 * k + 1
        <5>1. n * (n + 1) = 2 * (n * (k + 1)) /\ n * (k + 1) \in Nat
          BY <4>2
        <5>2. QED
          BY <5>1
      <4>3. QED
        BY <3>1, <4>1, <4>2
    <3>3. (2 * d) \div 2 = d
      OBVIOUS
    <3>4. QED
      BY <3>2, <3>3
  <2>6. d * (1 + p) \in Nat /\ (2 * d) * (1 + p) = 2 * (d * (1 + p))
    OBVIOUS
  <2>7. t <= (m - 1) + (n - 1) + d * (1 + p)
    <3>1. CASE t < m - 1
      BY <2>6, <3>1
    <3>2. CASE t >= m - 1
      <4>1. 2 * t + Room(n, f, l, locked) <= Allowance(n, 1 + p)
        BY <2>1, <2>2, <2>3, <2>4, <3>2 DEF GuessInv, GuessesHaveRoom, Period
      <4>2. Room(n, f, l, locked) \in Nat
        BY <2>2, RoomIs
      <4>3. Allowance(n, 1 + p) = 2 * (m - 1) + 2 * (n - 1) + (2 * d) * (1 + p)
        BY <2>3, <2>5 DEF Allowance
      <4>4. QED
        BY <2>6, <4>1, <4>2, <4>3
    <3>3. QED
      BY <3>1, <3>2
  <2>8. QED
    BY <2>2, <2>3, <2>5, <2>7 DEF GuessesBounded, Handlers
<1>2. QED
  BY <1>1, AuthInvariance, GuessesInvariance, PTL

-----------------------------------------------------------------------------
(***************************************************************************)
(* Tenancy.  That no organization reaches another's keys, and that no two  *)
(* accounts come to share one: for every number of accounts, organizations,*)
(* applications, keys and concurrent requests.                             *)
(***************************************************************************)

(***************************************************************************)
(* The inductive invariant.                                                *)
(***************************************************************************)

(* No two accounts share an organization, nor does one that is to be.       *)
OwnersApart ==
    /\ \A e, f \in Email : e # f /\ owner[e] # 0 => owner[e] # owner[f]
    /\ \A d \in Clerk, e \in Email :
          AtDesk(d, "register", "owning") => owner[e] # desk[d].organization

(* Whoever is about to become an owner has an organization of its own, of   *)
(* those there are.                                                        *)
FoundedForOne ==
    /\ \A e \in Email : owner[e] <= founded
    /\ \A d \in Clerk : AtDesk(d, "register", "owning") =>
          /\ desk[d].organization # 0 /\ desk[d].organization <= founded
          /\ desk[d].email \in Email
          /\ \A c \in Clerk : c # d /\ AtDesk(c, "register", "owning") =>
                desk[c].organization # desk[d].organization

(* Only a registration is made in an owner's name.                         *)
StagesFit ==
    \A d \in Clerk :
        /\ desk[d].stage = "owning" => desk[d].task = "register"
        /\ desk[d].stage = "founding" => desk[d].email \in Email
        /\ desk[d].stage = "entered" =>
              /\ desk[d].application \in Application
              /\ desk[d].organization # 0
              /\ application[desk[d].application].organization = desk[d].organization
              /\ desk[d].task = "revoke key" => desk[d].apiKey \in ApiKey

(* A key belongs to an application, and that to an organization.           *)
KeysBelong ==
    /\ \A a \in Application : application[a].archived => application[a].organization # 0
    /\ \A k \in ApiKey : apiKey[k] # NoKey =>
          apiKey[k].application \in Application
          /\ application[apiKey[k].application].organization # 0

TenancyInv == TenancyTypeOK /\ OwnersApart /\ FoundedForOne /\ StagesFit /\ KeysBelong

LEMMA Ranges ==
    /\ MaxOrganizations \in Nat /\ MaxApplications \in Nat /\ MaxApiKeys \in Nat
    /\ Organization \subseteq 0 .. MaxOrganizations /\ 0 \notin Organization
    /\ Application \subseteq 0 .. MaxApplications /\ 0 \notin Application
    /\ ApiKey \cup {0} \subseteq 0 .. MaxApiKeys /\ 0 \notin ApiKey
BY TenancyAssumption DEF Organization, Application, ApiKey

(* What a clerk may have on the desk. *)
Paper == [task : Task \cup {"none"}, stage : {"none", "founding", "owning", "entered"},
          organization : 0 .. MaxOrganizations, application : 0 .. MaxApplications,
          apiKey : 0 .. MaxApiKeys, email : Email \cup {0}]

LEMMA FreeIsPaper == Free \in Paper /\ Free.stage = "none" /\ Free.task = "none"
BY Ranges DEF Free, Paper

LEMMA TenancyInitEstablishes == TenancyInit => TenancyInv
<1> SUFFICES ASSUME TenancyInit PROVE TenancyInv
  OBVIOUS
<1>1. TenancyTypeOK
  BY Ranges, FreeIsPaper DEF TenancyInit, TenancyTypeOK, NoApplication, NoKey, Paper, Away
<1>2. /\ \A d \in Clerk : desk[d].stage = "none"
      /\ \A e \in Email : owner[e] = 0
      /\ founded = 0
      /\ \A a \in Application : application[a].archived = FALSE
      /\ \A k \in ApiKey : apiKey[k] = NoKey
  BY FreeIsPaper DEF TenancyInit, NoApplication
<1>3. OwnersApart
  BY <1>2 DEF OwnersApart, AtDesk
<1>4. FoundedForOne
  BY <1>2 DEF FoundedForOne, AtDesk
<1>5. StagesFit /\ KeysBelong
  BY <1>2 DEF StagesFit, KeysBelong
<1>6. QED
  BY <1>1, <1>3, <1>4, <1>5 DEF TenancyInv

(***************************************************************************)
(* The steps.                                                              *)
(***************************************************************************)

LEMMA RegisterPreserves ==
    ASSUME TenancyInv, NEW d \in Clerk, NEW e \in Email, Register(d, e)
    PROVE  TenancyInv'
<1> USE DEF TenancyInv
<1> DEFINE paper == [Free EXCEPT !.task = "register", !.stage = "founding", !.email = e]
<1>1. paper \in Paper /\ paper.stage = "founding" /\ paper.email = e
  BY FreeIsPaper DEF Paper, Task
<1>2. desk' = [desk EXCEPT ![d] = paper] /\ UNCHANGED <<founded, owner, application, apiKey, visit>>
  BY DEF Register
<1> HIDE DEF paper
<1>3. TenancyTypeOK'
  BY <1>1, <1>2 DEF TenancyTypeOK, Paper
<1>4. /\ \A c \in Clerk : c # d => desk'[c] = desk[c]
      /\ desk'[d].stage = "founding" /\ desk'[d].email \in Email
  BY <1>1, <1>2 DEF TenancyTypeOK
<1>5. OwnersApart'
  BY <1>2, <1>4 DEF OwnersApart, AtDesk
<1>6. FoundedForOne'
  BY <1>2, <1>4 DEF FoundedForOne, AtDesk
<1>7. StagesFit' /\ KeysBelong'
  BY <1>2, <1>4 DEF StagesFit, KeysBelong
<1>8. QED
  BY <1>3, <1>5, <1>6, <1>7

LEMMA InsertOrganizationPreserves ==
    ASSUME TenancyInv, NEW d \in Clerk, InsertOrganization(d)
    PROVE  TenancyInv'
<1> USE DEF TenancyInv
<1>1. /\ founded \in Nat /\ founded' = founded + 1 /\ founded' \in 0 .. MaxOrganizations
      /\ \A c \in Clerk : desk[c] \in Paper /\ desk[c].organization \in Nat
      /\ \A e \in Email : owner[e] \in Nat /\ owner[e] <= founded
      /\ desk[d].task = "register" /\ desk[d].email \in Email
  <2>1. founded \in Nat /\ founded' = founded + 1 /\ founded' \in 0 .. MaxOrganizations
    BY Ranges DEF InsertOrganization, TenancyTypeOK
  <2>2. \A c \in Clerk : desk[c] \in Paper /\ desk[c].organization \in Nat
    BY Ranges DEF TenancyTypeOK, Paper
  <2>3. \A e \in Email : owner[e] \in Nat /\ owner[e] <= founded
    BY Ranges DEF TenancyTypeOK, FoundedForOne
  <2>4. desk[d].task = "register" /\ desk[d].email \in Email
    BY DEF InsertOrganization, AtDesk, StagesFit
  <2>5. QED
    BY <2>1, <2>2, <2>3, <2>4
<1>2. /\ UNCHANGED <<owner, application, apiKey, visit>>
      /\ \A c \in Clerk : c # d => desk'[c] = desk[c]
      /\ desk'[d] = [desk[d] EXCEPT !.stage = "owning", !.organization = founded + 1]
      /\ DOMAIN desk' = Clerk
      /\ desk' = [c \in Clerk |-> desk'[c]]
  BY DEF InsertOrganization, TenancyTypeOK
<1>3. /\ desk'[d] \in Paper /\ desk'[d].stage = "owning" /\ desk'[d].organization = founded + 1
      /\ desk'[d].email = desk[d].email /\ desk'[d].task = "register"
  BY <1>1, <1>2 DEF Paper
<1>4. TenancyTypeOK'
  <2>1. desk' \in [Clerk -> Paper]
    BY <1>1, <1>2, <1>3
  <2>2. QED
    BY <1>1, <1>2, <2>1 DEF TenancyTypeOK, Paper
<1>5. \A c \in Clerk : c # d /\ AtDesk(c, "register", "owning")' =>
        AtDesk(c, "register", "owning") /\ desk'[c] = desk[c]
  BY <1>2 DEF AtDesk
<1>6. OwnersApart'
  <2>1. \A e \in Email : owner'[e] # founded + 1
    BY <1>1, <1>2
  <2>2. QED
    <3>1. \A e, f \in Email : e # f /\ owner'[e] # 0 => owner'[e] # owner'[f]
      BY <1>2 DEF OwnersApart
    <3>2. ASSUME NEW c \in Clerk, NEW e \in Email, AtDesk(c, "register", "owning")'
          PROVE  owner'[e] # desk'[c].organization
      <4>1. CASE c = d
        BY <4>1, <1>3, <2>1
      <4>2. CASE c # d
        BY <4>2, <3>2, <1>2, <1>5 DEF OwnersApart
      <4>3. QED
        BY <4>1, <4>2
    <3>3. QED
      BY <3>1, <3>2 DEF OwnersApart
<1>7. FoundedForOne'
  <2>1. \A e \in Email : owner'[e] <= founded'
    BY <1>1, <1>2
  <2>2. \A c \in Clerk : c # d /\ AtDesk(c, "register", "owning")' =>
          /\ desk'[c].organization # 0 /\ desk'[c].organization <= founded
          /\ desk'[c].organization # founded + 1
          /\ desk'[c].organization <= founded'
          /\ desk'[c].email \in Email
    BY <1>1, <1>5 DEF FoundedForOne
  <2>3. \A c, b \in Clerk :
          /\ c # b /\ AtDesk(c, "register", "owning")' /\ AtDesk(b, "register", "owning")'
          => desk'[c].organization # desk'[b].organization
    BY <1>3, <1>5, <2>2 DEF FoundedForOne
  <2>4. desk'[d].organization # 0 /\ desk'[d].organization <= founded' /\ desk'[d].email \in Email
    BY <1>1, <1>3
  <2>5. QED
    BY <2>1, <2>2, <2>3, <2>4 DEF FoundedForOne
<1>8. StagesFit'
  <2>1. \A c \in Clerk :
          \/ desk'[c] = desk[c]
          \/ desk'[c].stage = "owning" /\ desk'[c].task = "register"
    BY <1>2, <1>3
  <2>2. application' = application
    BY <1>2
  <2>3. QED
    BY <2>1, <2>2 DEF StagesFit
<1>9. KeysBelong'
  BY <1>2 DEF KeysBelong
<1>10. QED
  BY <1>4, <1>6, <1>7, <1>8, <1>9

(* A desk that is cleared disturbs nothing of the others. *)
LEMMA LeavePreserves ==
    ASSUME TenancyInv, NEW d \in Clerk, Leave(d)
    PROVE  /\ desk' \in [Clerk -> Paper]
           /\ desk'[d] = Free
           /\ \A c \in Clerk : c # d => desk'[c] = desk[c]
           /\ \A c \in Clerk : desk'[c].stage # "none" => c # d /\ desk'[c] = desk[c]
BY FreeIsPaper DEF Leave, TenancyInv, TenancyTypeOK, Paper

LEMMA BecomeOwnerPreserves ==
    ASSUME TenancyInv, NEW d \in Clerk, BecomeOwner(d)
    PROVE  TenancyInv'
<1> USE DEF TenancyInv
<1> DEFINE e == desk[d].email
           o == desk[d].organization
<1>1. /\ e \in Email /\ o # 0 /\ o <= founded /\ o \in 0 .. MaxOrganizations
      /\ \A f \in Email : owner[f] # o
      /\ \A c \in Clerk : c # d /\ AtDesk(c, "register", "owning") => desk[c].organization # o
  BY DEF BecomeOwner, FoundedForOne, OwnersApart, TenancyTypeOK, AtDesk
<1>2. /\ owner' = owner \/ owner' = [owner EXCEPT ![e] = o]
      /\ Leave(d)
      /\ UNCHANGED <<founded, application, apiKey, visit>>
  BY DEF BecomeOwner
<1> HIDE DEF e, o
<1>3. /\ desk' \in [Clerk -> Paper]
      /\ \A c \in Clerk : desk'[c].stage # "none" => c # d /\ desk'[c] = desk[c]
  BY <1>2, LeavePreserves
<1>4. TenancyTypeOK'
  BY <1>1, <1>2, <1>3 DEF TenancyTypeOK, Paper
<1>5. \A f \in Email : owner'[f] = owner[f] \/ (f = e /\ owner'[f] = o)
  BY <1>1, <1>2 DEF TenancyTypeOK
<1>6. OwnersApart'
  BY <1>1, <1>3, <1>5 DEF OwnersApart, AtDesk
<1>7. FoundedForOne'
  BY <1>1, <1>2, <1>3, <1>5 DEF FoundedForOne, AtDesk
<1>8. StagesFit' /\ KeysBelong'
  BY <1>2, <1>3 DEF StagesFit, KeysBelong
<1>9. QED
  BY <1>4, <1>6, <1>7, <1>8

LEMMA CreateApplicationPreserves ==
    ASSUME TenancyInv, NEW o \in Organization, CreateApplication(o)
    PROVE  TenancyInv'
<1> USE DEF TenancyInv
<1>1. PICK a \in Application :
        application[a] = NoApplication /\ application' = [application EXCEPT ![a].organization = o]
  BY DEF CreateApplication
<1>2. /\ UNCHANGED <<founded, owner, apiKey, desk, visit>>
      /\ o \in 0 .. MaxOrganizations /\ o # 0
      /\ application[a].organization = 0 /\ ~application[a].archived
  BY <1>1, Ranges DEF CreateApplication, NoApplication
<1>3. TenancyTypeOK'
  BY <1>1, <1>2 DEF TenancyTypeOK
<1>4. OwnersApart' /\ FoundedForOne'
  BY <1>2 DEF OwnersApart, FoundedForOne, AtDesk
<1>5. \A b \in Application :
        /\ application[b].organization # 0 => application'[b] = application[b]
        /\ application'[b].archived = application[b].archived
        /\ application'[b].organization = application[b].organization \/ b = a
  BY <1>1, <1>2 DEF TenancyTypeOK
<1>6. StagesFit'
  <2>1. \A d \in Clerk : desk[d].stage = "entered" =>
          application[desk[d].application].organization # 0
          /\ application'[desk[d].application] = application[desk[d].application]
    BY <1>5 DEF StagesFit
  <2>2. QED
    BY <1>2, <2>1 DEF StagesFit
<1>7. KeysBelong'
  BY <1>2, <1>5 DEF KeysBelong
<1>8. QED
  BY <1>3, <1>4, <1>6, <1>7

LEMMA ArchivePreserves ==
    ASSUME TenancyInv, NEW o \in Organization, NEW a \in Application, Archive(o, a)
    PROVE  TenancyInv'
<1> USE DEF TenancyInv
<1>1. /\ application' = [application EXCEPT ![a].archived = TRUE]
      /\ UNCHANGED <<founded, owner, apiKey, desk, visit>>
      /\ application[a].organization # 0
  BY Ranges DEF Archive, Visible
<1>2. TenancyTypeOK'
  <2>1. application' \in [Application -> [organization : 0 .. MaxOrganizations, archived : BOOLEAN]]
    <3>1. application \in [Application -> [organization : 0 .. MaxOrganizations,
                                            archived : BOOLEAN]]
      BY DEF TenancyTypeOK
    <3>2. QED
      BY <1>1, <3>1
  <2>2. QED
    BY <1>1, <2>1 DEF TenancyTypeOK
<1>3. \A b \in Application : application'[b].organization = application[b].organization
  BY <1>1 DEF TenancyTypeOK
<1>4. \A b \in Application : application'[b].archived => application[b].archived \/ b = a
  BY <1>1 DEF TenancyTypeOK
<1>5. OwnersApart' /\ FoundedForOne'
  BY <1>1 DEF OwnersApart, FoundedForOne, AtDesk
<1>6. StagesFit'
  BY <1>1, <1>3 DEF StagesFit
<1>7. KeysBelong'
  BY <1>1, <1>3, <1>4 DEF KeysBelong
<1>8. QED
  BY <1>2, <1>5, <1>6, <1>7

LEMMA EnterPreserves ==
    ASSUME TenancyInv, NEW d \in Clerk, NEW o \in Organization, NEW a \in Application,
           NEW task \in {"create key", "revoke key"}, NEW k \in ApiKey \cup {0},
           task = "revoke key" => k \in ApiKey,
           Enter(d, o, task, a, k)
    PROVE  TenancyInv'
<1> USE DEF TenancyInv
<1> DEFINE paper == [task |-> task, stage |-> "entered", organization |-> o, application |-> a,
                     apiKey |-> k, email |-> 0]
<1>1. /\ paper \in Paper /\ paper.stage = "entered" /\ paper.application = a
      /\ paper.organization = o /\ paper.task = task /\ paper.apiKey = k
  <2>1. o \in 0 .. MaxOrganizations /\ a \in 0 .. MaxApplications /\ k \in 0 .. MaxApiKeys
    BY Ranges
  <2>2. task \in Task
    BY DEF Task
  <2>3. QED
    BY <2>1, <2>2 DEF Paper
<1>2. /\ desk' = [desk EXCEPT ![d] = paper]
      /\ UNCHANGED <<founded, owner, application, apiKey, visit>>
      /\ application[a].organization = o /\ o # 0
  BY Ranges DEF Enter, Visible
<1> HIDE DEF paper
<1>3. TenancyTypeOK'
  BY <1>1, <1>2 DEF TenancyTypeOK, Paper
<1>7. desk'[d] = paper /\ \A c \in Clerk : c # d => desk'[c] = desk[c]
  <2>1. desk \in [Clerk -> Paper]
    BY DEF TenancyTypeOK, Paper
  <2>2. QED
    BY <1>2, <2>1
<1>8. \A c \in Clerk : desk'[c].stage = "owning" => desk'[c] = desk[c] /\ c # d
  BY <1>1, <1>7
<1>4. OwnersApart' /\ FoundedForOne'
  <2>1. \A c \in Clerk : AtDesk(c, "register", "owning")' =>
          AtDesk(c, "register", "owning") /\ desk'[c] = desk[c]
    BY <1>8 DEF AtDesk
  <2>2. OwnersApart'
    BY <1>2, <2>1 DEF OwnersApart
  <2>3. UNCHANGED <<owner, founded>> /\ \A f \in Email : owner[f] <= founded
    BY <1>2 DEF FoundedForOne
  <2>4. FoundedForOne'
    <3>1. \A f \in Email : owner'[f] <= founded'
      BY <2>3
    <3>2. ASSUME NEW c \in Clerk, AtDesk(c, "register", "owning")'
          PROVE  /\ desk'[c].organization # 0 /\ desk'[c].organization <= founded'
                 /\ desk'[c].email \in Email
                 /\ \A b \in Clerk : b # c /\ AtDesk(b, "register", "owning")' =>
                       desk'[b].organization # desk'[c].organization
      BY <2>1, <2>3, <3>2 DEF FoundedForOne
    <3>3. QED
      BY <3>1, <3>2 DEF FoundedForOne
  <2>5. QED
    BY <2>2, <2>4
<1>5. StagesFit' /\ KeysBelong'
  <2>1. KeysBelong'
    BY <1>2 DEF KeysBelong
  <2>2. a \in Application /\ (task = "revoke key" => k \in ApiKey)
    OBVIOUS
  <2>3. UNCHANGED application
    BY <1>2
  <2>4. ASSUME NEW c \in Clerk
        PROVE  /\ desk'[c].stage = "owning" => desk'[c].task = "register"
               /\ desk'[c].stage = "founding" => desk'[c].email \in Email
               /\ desk'[c].stage = "entered" =>
                     /\ desk'[c].application \in Application
                     /\ desk'[c].organization # 0
                     /\ application'[desk'[c].application].organization = desk'[c].organization
                     /\ desk'[c].task = "revoke key" => desk'[c].apiKey \in ApiKey
    <3>1. CASE c = d
      BY <1>1, <1>2, <1>7, <2>2, <2>3, <3>1
    <3>2. CASE c # d
      BY <1>7, <2>3, <3>2 DEF StagesFit
    <3>3. QED
      BY <3>1, <3>2
  <2>5. QED
    BY <2>1, <2>4 DEF StagesFit
<1>6. QED
  BY <1>3, <1>4, <1>5

(* What is written to the keys when a request leaves its desk. *)
LEMMA KeyWrittenPreserves ==
    ASSUME TenancyInv, NEW d \in Clerk, Leave(d),
           UNCHANGED <<founded, owner, application, visit>>,
           apiKey' \in [ApiKey -> [application : 0 .. MaxApplications, revoked : BOOLEAN,
                                   expired : BOOLEAN]],
           \A k \in ApiKey : apiKey'[k] # NoKey =>
               apiKey'[k].application \in Application
               /\ application[apiKey'[k].application].organization # 0
    PROVE  TenancyInv'
<1> USE DEF TenancyInv
<1>1. /\ desk' \in [Clerk -> Paper]
      /\ \A c \in Clerk : desk'[c].stage # "none" => c # d /\ desk'[c] = desk[c]
  BY LeavePreserves
<1>2. TenancyTypeOK'
  BY <1>1 DEF TenancyTypeOK, Paper
<1>3. OwnersApart' /\ FoundedForOne'
  BY <1>1 DEF OwnersApart, FoundedForOne, AtDesk
<1>4. StagesFit' /\ KeysBelong'
  <2>1. StagesFit'
    BY <1>1 DEF StagesFit
  <2>2. KeysBelong'
    BY DEF KeysBelong
  <2>3. QED
    BY <2>1, <2>2
<1>5. QED
  BY <1>2, <1>3, <1>4

LEMMA CreateKeyPreserves == ASSUME TenancyInv, NEW d \in Clerk, CreateKey(d) PROVE TenancyInv'
<1> USE DEF TenancyInv
<1>1. PICK k \in ApiKey :
        apiKey[k] = NoKey /\ apiKey' = [apiKey EXCEPT ![k].application = desk[d].application]
  BY DEF CreateKey
<1>2. /\ desk[d].application \in Application /\ desk[d].application \in 0 .. MaxApplications
      /\ application[desk[d].application].organization # 0
  BY DEF CreateKey, AtDesk, StagesFit, TenancyTypeOK
<1>3. apiKey' \in [ApiKey -> [application : 0 .. MaxApplications, revoked : BOOLEAN,
                              expired : BOOLEAN]]
  BY <1>1, <1>2 DEF TenancyTypeOK
<1>4. \A j \in ApiKey : apiKey'[j] = apiKey[j] \/ apiKey'[j].application = desk[d].application
  BY <1>1 DEF TenancyTypeOK
<1>5. QED
  BY <1>2, <1>3, <1>4, KeyWrittenPreserves DEF CreateKey, KeysBelong

LEMMA RevokeKeyPreserves == ASSUME TenancyInv, NEW d \in Clerk, RevokeKey(d) PROVE TenancyInv'
<1> USE DEF TenancyInv
<1> DEFINE k == desk[d].apiKey
<1>1. /\ k \in ApiKey /\ desk[d].application \in Application
      /\ application[desk[d].application].organization # 0
  BY DEF RevokeKey, AtDesk, StagesFit
<1>2. \/ apiKey' = apiKey
      \/ /\ apiKey' = [apiKey EXCEPT ![k].revoked = TRUE]
         /\ apiKey[k].application = desk[d].application
  BY DEF RevokeKey
<1> HIDE DEF k
<1>3. apiKey' \in [ApiKey -> [application : 0 .. MaxApplications, revoked : BOOLEAN,
                              expired : BOOLEAN]]
  <2>1. apiKey \in [ApiKey -> [application : 0 .. MaxApplications, revoked : BOOLEAN,
                               expired : BOOLEAN]]
    BY DEF TenancyTypeOK
  <2>2. QED
    BY <1>1, <1>2, <2>1
<1>4. \A j \in ApiKey : apiKey'[j] = apiKey[j] \/ apiKey'[j].application = desk[d].application
  BY <1>1, <1>2 DEF TenancyTypeOK
<1>5. \A j \in ApiKey : apiKey'[j] # NoKey =>
          apiKey'[j].application \in Application
          /\ application[apiKey'[j].application].organization # 0
  BY <1>1, <1>4 DEF KeysBelong
<1>6. Leave(d) /\ UNCHANGED <<founded, owner, application, visit>>
  BY DEF RevokeKey
<1>7. QED
  BY <1>3, <1>5, <1>6, KeyWrittenPreserves

LEMMA WalkPreserves == ASSUME TenancyInv, NEW d \in Clerk, Walk(d) PROVE TenancyInv'
BY KeyWrittenPreserves DEF Walk, TenancyInv, TenancyTypeOK, KeysBelong

LEMMA ExpirePreserves == ASSUME TenancyInv, NEW k \in ApiKey, Expire(k) PROVE TenancyInv'
<1> USE DEF TenancyInv
<1>1. TenancyTypeOK'
  <2> DEFINE Rows == [application : 0 .. MaxApplications, revoked : BOOLEAN, expired : BOOLEAN]
             late == [apiKey[k] EXCEPT !.expired = TRUE]
  <2>1. apiKey \in [ApiKey -> Rows]
    BY DEF TenancyTypeOK
  <2>2. apiKey[k] \in Rows
    BY <2>1
  <2>3. late \in Rows
    BY <2>2
  <2>4. apiKey' = [apiKey EXCEPT ![k] = late]
    BY DEF Expire
  <2>5. apiKey' \in [ApiKey -> Rows]
    <3> HIDE DEF Rows, late
    <3> QED
      BY <2>1, <2>3, <2>4
  <2>6. QED
    BY <2>5 DEF Expire, TenancyTypeOK
<1>2. OwnersApart' /\ FoundedForOne' /\ StagesFit'
  BY DEF Expire, OwnersApart, FoundedForOne, StagesFit, AtDesk
<1>3. \A j \in ApiKey : apiKey'[j] = apiKey[j]
                        \/ (apiKey[j] # NoKey /\ apiKey'[j].application = apiKey[j].application)
  BY DEF Expire, TenancyTypeOK
<1>4. KeysBelong'
  BY <1>3 DEF Expire, KeysBelong
<1>5. QED
  BY <1>1, <1>2, <1>4

LEMMA VisitPreserves ==
    ASSUME TenancyInv, NEW v \in Visitor,
           (\E k \in ApiKey : Authenticate(v, k)) \/ ReadPolicy(v) \/ Depart(v)
    PROVE  TenancyInv'
<1> USE DEF TenancyInv
<1>1. UNCHANGED <<founded, owner, application, apiKey, desk>>
  BY DEF Authenticate, ReadPolicy, Depart
<1>2. visit' \in [Visitor ->
                 [stage : {"away", "authenticated", "served"}, apiKey : 0 .. MaxApiKeys]]
  <2>1. ASSUME NEW k \in ApiKey, Authenticate(v, k)
        PROVE  visit' = [visit EXCEPT ![v] = [stage |-> "authenticated", apiKey |-> k]]
               /\ k \in 0 .. MaxApiKeys
    BY <2>1, Ranges DEF Authenticate
  <2>2. ASSUME ReadPolicy(v)
        PROVE  visit' = [visit EXCEPT ![v] = [visit[v] EXCEPT !.stage = "served"]]
               \/ visit' = [visit EXCEPT ![v] = Away]
    BY <2>2 DEF ReadPolicy, TenancyTypeOK
  <2>3. ASSUME Depart(v) PROVE visit' = [visit EXCEPT ![v] = Away]
    BY <2>3 DEF Depart
  <2>4. Away \in [stage : {"away", "authenticated", "served"}, apiKey : 0 .. MaxApiKeys]
    BY Ranges DEF Away
  <2>5. QED
    BY <2>1, <2>2, <2>3, <2>4 DEF TenancyTypeOK
<1>3. TenancyTypeOK'
  BY <1>1, <1>2 DEF TenancyTypeOK
<1>4. OwnersApart' /\ FoundedForOne' /\ StagesFit' /\ KeysBelong'
  BY <1>1 DEF OwnersApart, FoundedForOne, StagesFit, KeysBelong, AtDesk
<1>5. QED
  BY <1>3, <1>4

LEMMA TenancyStepPreserves == TenancyInv /\ [TenancyNext]_tenancyVars => TenancyInv'
<1> SUFFICES ASSUME TenancyInv, [TenancyNext]_tenancyVars PROVE TenancyInv'
  OBVIOUS
<1>1. CASE UNCHANGED tenancyVars
  <2>1. UNCHANGED <<founded, owner, application, apiKey, desk, visit>>
    BY <1>1 DEF tenancyVars
  <2>2. TenancyTypeOK'
    BY <2>1 DEF TenancyInv, TenancyTypeOK
  <2>3. OwnersApart' /\ FoundedForOne'
    BY <2>1 DEF TenancyInv, OwnersApart, FoundedForOne, AtDesk
  <2>4. StagesFit' /\ KeysBelong'
    BY <2>1 DEF TenancyInv, StagesFit, KeysBelong
  <2>5. QED
    BY <2>2, <2>3, <2>4 DEF TenancyInv
<1>2. ASSUME NEW d \in Clerk,
             \/ \E e \in Email : Register(d, e)
             \/ InsertOrganization(d) \/ BecomeOwner(d) \/ CreateKey(d) \/ RevokeKey(d) \/ Walk(d)
      PROVE  TenancyInv'
  BY <1>2, RegisterPreserves, InsertOrganizationPreserves, BecomeOwnerPreserves,
     CreateKeyPreserves, RevokeKeyPreserves, WalkPreserves
<1>3. ASSUME NEW d \in Clerk, NEW o \in Organization, NEW a \in Application,
             \/ Enter(d, o, "create key", a, 0)
             \/ \E k \in ApiKey : Enter(d, o, "revoke key", a, k)
      PROVE  TenancyInv'
  <2>1. CASE Enter(d, o, "create key", a, 0)
    BY <2>1, EnterPreserves
  <2>2. ASSUME NEW k \in ApiKey, Enter(d, o, "revoke key", a, k) PROVE TenancyInv'
    BY <2>2, EnterPreserves
  <2>3. QED
    BY <1>3, <2>1, <2>2
<1>4. ASSUME NEW o \in Organization,
             CreateApplication(o) \/ \E a \in Application : Archive(o, a)
      PROVE  TenancyInv'
  BY <1>4, CreateApplicationPreserves, ArchivePreserves
<1>5. ASSUME NEW k \in ApiKey, Expire(k) PROVE TenancyInv'
  BY <1>5, ExpirePreserves
<1>6. ASSUME NEW v \in Visitor,
             (\E k \in ApiKey : Authenticate(v, k)) \/ ReadPolicy(v) \/ Depart(v)
      PROVE  TenancyInv'
  BY <1>6, VisitPreserves
<1>7. QED
  BY <1>1, <1>2, <1>3, <1>4, <1>5, <1>6 DEF TenancyNext

(* What a step does to who owns what, and to who is about to. *)
LEMMA OwnerSteps ==
    ASSUME TenancyInv, [TenancyNext]_tenancyVars
    PROVE  \/ \E d \in Clerk : BecomeOwner(d)
           \/ \E d \in Clerk : InsertOrganization(d)
           \/ /\ UNCHANGED <<owner, founded>>
              /\ \A d \in Clerk : AtDesk(d, "register", "owning")' => desk'[d] = desk[d]
<1> USE DEF TenancyInv
<1>1. ASSUME NEW d \in Clerk, Leave(d), UNCHANGED <<owner, founded>>
      PROVE  \A c \in Clerk : AtDesk(c, "register", "owning")' => desk'[c] = desk[c]
  BY <1>1, LeavePreserves DEF AtDesk
<1>2. ASSUME NEW d \in Clerk, NEW e \in Email, Register(d, e)
      PROVE  \A c \in Clerk : AtDesk(c, "register", "owning")' => desk'[c] = desk[c]
  BY <1>2 DEF Register, Free, TenancyTypeOK, AtDesk
<1>3. ASSUME NEW d \in Clerk, NEW o \in Organization, NEW task, NEW a \in Application, NEW k,
             Enter(d, o, task, a, k)
      PROVE  \A c \in Clerk : AtDesk(c, "register", "owning")' => desk'[c] = desk[c]
  BY <1>3 DEF Enter, TenancyTypeOK, AtDesk
<1>4. CASE desk' = desk /\ UNCHANGED <<owner, founded>>
  BY <1>4
<1>5. ASSUME NEW d \in Clerk, CreateKey(d) \/ RevokeKey(d) \/ Walk(d)
      PROVE  Leave(d) /\ UNCHANGED <<owner, founded>>
  BY <1>5 DEF CreateKey, RevokeKey, Walk
<1>6. ASSUME NEW d \in Clerk, NEW e \in Email, Register(d, e) PROVE UNCHANGED <<owner, founded>>
  BY <1>6 DEF Register
<1>7. ASSUME NEW d \in Clerk, NEW o \in Organization, NEW task, NEW a \in Application, NEW k,
             Enter(d, o, task, a, k)
      PROVE  UNCHANGED <<owner, founded>>
  BY <1>7 DEF Enter
<1>8. CASE \/ \E o \in Organization : CreateApplication(o) \/ \E a \in Application : Archive(o, a)
           \/ \E k \in ApiKey : Expire(k)
           \/ \E v \in Visitor :
                 (\E k \in ApiKey : Authenticate(v, k)) \/ ReadPolicy(v) \/ Depart(v)
           \/ UNCHANGED tenancyVars
  BY <1>4, <1>8
  DEF tenancyVars, CreateApplication, Archive, Expire, Authenticate, ReadPolicy, Depart
<1>9. ASSUME NEW d \in Clerk, Leave(d), UNCHANGED <<owner, founded>>
      PROVE  /\ UNCHANGED <<owner, founded>>
             /\ \A c \in Clerk : AtDesk(c, "register", "owning")' => desk'[c] = desk[c]
  BY <1>1, <1>9
<1>10. QED
  BY <1>2, <1>3, <1>5, <1>6, <1>7, <1>8, <1>9 DEF TenancyNext

(* No step touches an owner there is, or gives away what is another's. *)
LEMMA StepKeepsOwners ==
    ASSUME TenancyInv, [TenancyNext]_tenancyVars
    PROVE  /\ \A e \in Email : owner[e] # 0 => owner'[e] = owner[e]
           /\ \A e, f \in Email : owner'[e] # owner[e] /\ e # f => owner'[e] # owner'[f]
           /\ \A o \in Organization : LeftBehind(o) => LeftBehind(o)'
<1> USE DEF TenancyInv
<1>1. ASSUME NEW d \in Clerk, BecomeOwner(d)
      PROVE  /\ \A e \in Email : owner[e] # 0 => owner'[e] = owner[e]
             /\ \A e, f \in Email : owner'[e] # owner[e] /\ e # f => owner'[e] # owner'[f]
             /\ \A o \in Organization : LeftBehind(o) => LeftBehind(o)'
  <2> DEFINE mail == desk[d].email
             own  == desk[d].organization
  <2>1. /\ AtDesk(d, "register", "owning") /\ mail \in Email
        /\ \A f \in Email : owner[f] # own
        /\ Leave(d) /\ founded' = founded
        /\ owner' = IF owner[mail] = 0 THEN [owner EXCEPT ![mail] = own] ELSE owner
    BY <1>1 DEF BecomeOwner, FoundedForOne, OwnersApart
  <2> HIDE DEF mail, own
  <2>2. \A e \in Email : owner'[e] = owner[e] \/ (e = mail /\ owner[e] = 0 /\ owner'[e] = own)
    BY <2>1 DEF TenancyTypeOK
  <2>3. \A o \in Organization : LeftBehind(o) => LeftBehind(o)'
    <3>1. \A c \in Clerk : AtDesk(c, "register", "owning")' => desk'[c] = desk[c]
      BY <2>1, LeavePreserves DEF AtDesk
    <3>2. \A o \in Organization : LeftBehind(o) => o # own
      BY <2>1 DEF LeftBehind, own
    <3>3. QED
      BY <2>1, <2>2, <3>1, <3>2 DEF LeftBehind, SignedIn, AtDesk
  <2>4. QED
    BY <2>1, <2>2, <2>3
<1>2. ASSUME NEW d \in Clerk, InsertOrganization(d)
      PROVE  /\ owner' = owner
             /\ \A o \in Organization : LeftBehind(o) => LeftBehind(o)'
  <2>1. /\ owner' = owner /\ founded' = founded + 1 /\ founded \in Nat
        /\ \A c \in Clerk : \/ desk'[c] = desk[c]
                            \/ desk'[c].organization = founded + 1
    BY <1>2, Ranges DEF InsertOrganization, TenancyTypeOK
  <2>2. \A o \in Organization : LeftBehind(o) => o \in 1 .. founded /\ o # founded + 1
    BY <2>1 DEF LeftBehind
  <2>3. QED
    BY <2>1, <2>2 DEF LeftBehind, SignedIn, AtDesk
<1>3. CASE /\ UNCHANGED <<owner, founded>>
           /\ \A d \in Clerk : AtDesk(d, "register", "owning")' => desk'[d] = desk[d]
  BY <1>3 DEF LeftBehind, SignedIn, AtDesk
<1>4. QED
  BY <1>1, <1>2, <1>3, OwnerSteps

(* What a step does to the keys. *)
LEMMA KeySteps ==
    ASSUME TenancyInv, [TenancyNext]_tenancyVars
    PROVE  \/ apiKey' = apiKey
           \/ \E d \in Clerk : CreateKey(d) \/ RevokeKey(d)
           \/ \E k \in ApiKey : Expire(k)
BY DEF TenancyNext, tenancyVars, Register, InsertOrganization, BecomeOwner, Walk, Enter,
       CreateApplication, Archive, Authenticate, ReadPolicy, Depart

(* A key is only touched by a request of its application's organization. *)
LEMMA StepStaysInside ==
    ASSUME TenancyInv, [TenancyNext]_tenancyVars, NEW k \in ApiKey, apiKey'[k] # apiKey[k]
    PROVE  \/ \E d \in Clerk :
                /\ desk[d].stage = "entered" /\ desk'[d] = Free
                /\ desk[d].organization = application'[apiKey'[k].application].organization
           \/ apiKey'[k] = [apiKey[k] EXCEPT !.expired = TRUE]
<1> USE DEF TenancyInv
<1>1. ASSUME NEW d \in Clerk, CreateKey(d) \/ RevokeKey(d)
      PROVE  /\ desk[d].stage = "entered" /\ desk'[d] = Free
             /\ desk[d].organization = application'[apiKey'[k].application].organization
  <2>1. desk[d].stage = "entered" /\ Leave(d) /\ application' = application
    BY <1>1 DEF CreateKey, RevokeKey, AtDesk
  <2>2. apiKey'[k].application = desk[d].application
    <3>1. CASE CreateKey(d)
      <4>1. PICK j \in ApiKey : apiKey' = [apiKey EXCEPT ![j].application = desk[d].application]
        BY <3>1 DEF CreateKey
      <4>2. k = j
        BY <4>1 DEF TenancyTypeOK
      <4>3. QED
        BY <4>1, <4>2 DEF TenancyTypeOK
    <3>2. CASE RevokeKey(d)
      <4> DEFINE j == desk[d].apiKey
      <4>1. /\ apiKey' = [apiKey EXCEPT ![j].revoked = TRUE]
            /\ apiKey[j].application = desk[d].application
        BY <3>2 DEF RevokeKey
      <4> HIDE DEF j
      <4>2. k = j /\ apiKey'[k].application = apiKey[k].application
        BY <4>1 DEF TenancyTypeOK
      <4>3. QED
        BY <4>1, <4>2
    <3>3. QED
      BY <1>1, <3>1, <3>2
  <2>3. QED
    BY <2>1, <2>2, LeavePreserves DEF StagesFit
<1>2. ASSUME NEW j \in ApiKey, Expire(j) PROVE apiKey'[k] = [apiKey[k] EXCEPT !.expired = TRUE]
  BY <1>2 DEF Expire, TenancyTypeOK
<1>3. QED
  BY <1>1, <1>2, KeySteps

(* What is true of an application that keys belong to stays true. *)
LEMMA ApplicationsStay ==
    ASSUME TenancyInv, [TenancyNext]_tenancyVars, NEW a \in Application,
           application[a].archived
    PROVE  application'[a].archived
<1> USE DEF TenancyInv
<1>1. ASSUME NEW o \in Organization, CreateApplication(o) PROVE application'[a].archived
  <2>1. PICK b \in Application :
          /\ application[b] = NoApplication
          /\ application' = [application EXCEPT ![b].organization = o]
    BY <1>1 DEF CreateApplication
  <2>2. QED
    BY <2>1 DEF TenancyTypeOK
<1>2. ASSUME NEW o \in Organization, NEW b \in Application, Archive(o, b)
      PROVE  application'[a].archived
  BY <1>2 DEF Archive, TenancyTypeOK
<1>3. CASE application' = application
  BY <1>3
<1>4. QED
  BY <1>1, <1>2, <1>3
  DEF TenancyNext, tenancyVars, Register, InsertOrganization, BecomeOwner, Walk, Enter, CreateKey,
      RevokeKey, Expire, Authenticate, ReadPolicy, Depart

LEMMA StepRevivesNothing ==
    ASSUME TenancyInv, [TenancyNext]_tenancyVars, NEW k \in ApiKey, DeadKey(k)
    PROVE  /\ DeadKey(k)'
           /\ \A v \in Visitor : visit[v] = Away => visit'[v].apiKey # k
<1> USE DEF TenancyInv
<1>1. apiKey[k] # NoKey /\ apiKey[k].application \in Application
      /\ apiKey[k].application # 0
  BY Ranges DEF DeadKey, KeysBelong
<1>2. /\ apiKey'[k].application = apiKey[k].application
      /\ apiKey[k].revoked => apiKey'[k].revoked
      /\ apiKey[k].expired => apiKey'[k].expired
  <2>1. ASSUME NEW d \in Clerk, CreateKey(d) PROVE apiKey'[k] = apiKey[k]
    BY <1>1, <2>1 DEF CreateKey, TenancyTypeOK
  <2>2. ASSUME NEW d \in Clerk, RevokeKey(d)
        PROVE  apiKey'[k] = apiKey[k] \/ apiKey'[k] = [apiKey[k] EXCEPT !.revoked = TRUE]
    BY <2>2 DEF RevokeKey, TenancyTypeOK
  <2>3. ASSUME NEW j \in ApiKey, Expire(j)
        PROVE  apiKey'[k] = apiKey[k] \/ apiKey'[k] = [apiKey[k] EXCEPT !.expired = TRUE]
    BY <2>3 DEF Expire, TenancyTypeOK
  <2>4. \/ apiKey'[k] = apiKey[k]
        \/ apiKey'[k] = [apiKey[k] EXCEPT !.revoked = TRUE]
        \/ apiKey'[k] = [apiKey[k] EXCEPT !.expired = TRUE]
    BY <2>1, <2>2, <2>3, KeySteps
  <2>5. QED
    BY <2>4 DEF TenancyTypeOK
<1>3. apiKey'[k] # NoKey
  BY <1>1, <1>2 DEF NoKey
<1>4. DeadKey(k)'
  BY <1>1, <1>2, <1>3, ApplicationsStay DEF DeadKey
<1>5. ASSUME NEW v \in Visitor, visit[v] = Away PROVE visit'[v].apiKey # k
  <2>1. ASSUME NEW w \in Visitor, NEW j \in ApiKey, Authenticate(w, j)
        PROVE  visit'[v].apiKey # k
    <3>1. j # k
      BY <2>1 DEF Authenticate, Usable, DeadKey
    <3>2. QED
      BY <1>5, <2>1, <3>1, Ranges DEF Authenticate, TenancyTypeOK, Away
  <2>2. ASSUME NEW w \in Visitor, ReadPolicy(w) \/ Depart(w) PROVE visit'[v].apiKey # k
    <3>1. w # v
      BY <1>5, <2>2 DEF ReadPolicy, Depart, Away
    <3>2. visit'[v] = visit[v]
      BY <2>2, <3>1 DEF ReadPolicy, Depart, TenancyTypeOK
    <3>3. QED
      BY <1>5, <3>2, Ranges DEF Away
  <2>3. CASE visit' = visit
    BY <1>5, <2>3, Ranges DEF Away
  <2>4. QED
    BY <2>1, <2>2, <2>3
    DEF TenancyNext, tenancyVars, Register, InsertOrganization, BecomeOwner, Walk, Enter,
        CreateKey, RevokeKey, Expire, CreateApplication, Archive
<1>6. QED
  BY <1>4, <1>5

(***************************************************************************)
(* The results.                                                            *)
(***************************************************************************)

(* The inductive invariant holds. *)
THEOREM TenancyInvariance == TenancySpec => []TenancyInv
BY TenancyInitEstablishes, TenancyStepPreserves, PTL DEF TenancySpec

(* Every variable of Tenancy keeps its type. *)
THEOREM TenancyTypeCorrect == TenancySpec => []TenancyTypeOK
<1>1. TenancyInv => TenancyTypeOK
  BY DEF TenancyInv
<1>2. QED
  BY <1>1, TenancyInvariance, PTL

(* Although register is three statements without a transaction, no account  *)
(* is taken over, no two come to share an organization, and one that was    *)
(* left behind stays nobody's.                                             *)
THEOREM OwnershipTheorem == TenancySpec => OwnOrganization
<1>1. TenancyInv /\ [TenancyNext]_tenancyVars =>
        [/\ \A e \in Email : owner[e] # 0 => owner'[e] = owner[e]
         /\ \A e, f \in Email : owner'[e] # owner[e] /\ e # f => owner'[e] # owner'[f]
         /\ \A o \in Organization : LeftBehind(o) => LeftBehind(o)'
        ]_tenancyVars
  BY StepKeepsOwners
<1>2. QED
  BY <1>1, TenancyInvariance, PTL DEF TenancySpec, OwnOrganization

(* A key is made or revoked only by a request of the organization its       *)
(* application belongs to, whatever ids the request put together.          *)
THEOREM KeysTheorem == TenancySpec => KeysStayInside
<1>1. TenancyInv /\ [TenancyNext]_tenancyVars =>
        [\A k \in ApiKey :
            apiKey'[k] # apiKey[k] =>
                \/ \E d \in Clerk :
                      /\ desk[d].stage = "entered" /\ desk'[d] = Free
                      /\ desk[d].organization = application'[apiKey'[k].application].organization
                \/ apiKey'[k] = [apiKey[k] EXCEPT !.expired = TRUE]
        ]_tenancyVars
  BY StepStaysInside
<1>2. QED
  BY <1>1, TenancyInvariance, PTL DEF TenancySpec, KeysStayInside

(* A revoked or expired key, or one of an archived application, is never    *)
(* accepted by findActiveByIdentifier again.                               *)
THEOREM DeadKeysTheorem == TenancySpec => DeadKeysStayDead
<1>1. TenancyInv /\ [TenancyNext]_tenancyVars =>
        [\A k \in ApiKey : DeadKey(k) =>
            /\ DeadKey(k)'
            /\ \A v \in Visitor : visit[v] = Away => visit'[v].apiKey # k
        ]_tenancyVars
  BY StepRevivesNothing
<1>2. QED
  BY <1>1, TenancyInvariance, PTL DEF TenancySpec, DeadKeysStayDead
=============================================================================
