----------------------------- MODULE SendingProofs -----------------------------
(***************************************************************************)
(* That the attempt ledger tells the truth about what the provider did,    *)
(* that nothing is sent twice in silence, and that delivery is what         *)
(* DeliveryContract promises: for every number of attempts and dispatches,  *)
(* whatever is answered, lost or interrupted.                              *)
(***************************************************************************)
EXTENDS Sending, TLAPS, SequenceTheorems, FiniteSetTheorems

(***************************************************************************)
(* The inductive invariant.                                                *)
(***************************************************************************)

(* Only a notification that waits is worked on, and none is before it is    *)
(* dispatched for the first time.                                          *)
WorkedOnWaiting ==
    /\ ~Is("nothing") => letter.status = "waiting"
    /\ turns = 0 => Is("nothing") /\ ledger = <<>>

(* Only the last attempt is open, and it is in hand or was when the worker  *)
(* died.                                                                   *)
OpenIsLast ==
    /\ \A n \in DOMAIN ledger : n < Number => ledger[n] # "open"
    /\ \A n \in DOMAIN ledger :
          letter.doing \in {"looking up", "typing", "beginning", "in doubt", "refused"} =>
              ledger[n] # "open"
    /\ letter.doing \in {"resolving unknown", "sending", "handling"} =>
          Number > 0 /\ ledger[Number] = "open"

(* What the code of an answer says of the message it answers.              *)
AnswerTells ==
    /\ Is("sending") => Number \notin accepted
    /\ Is("handling") =>
          /\ letter.code = "none" => Number \in accepted
          /\ Number \in accepted => letter.code \in UnknownOutcomeCodes \cup {"none"}

(* A message that is out stops everything, but for the attempt it was sent  *)
(* by, or is recorded as unknown.                                          *)
SuccessStops == letter.status # "sent" => \A n \in DOMAIN ledger : ledger[n] # "SUCCEEDED"

UnknownBefore == \A n \in accepted : n < Number => ledger[n] = "UNKNOWN"

(* An application that would rather miss a message stops at the first doubt,*)
(* or is about to, unless the worker that had it died there.               *)
DoubtStops ==
    failClosed /\ ~letter.forsaken =>
        /\ letter.status # "failed" /\ letter.doing # "in doubt" =>
              \A n \in DOMAIN ledger : ledger[n] # "UNKNOWN"
        /\ \A m, n \in accepted : m = n

SendingInv ==
    /\ SendingTypeOK /\ LedgerIsTruthful
    /\ WorkedOnWaiting /\ OpenIsLast /\ AnswerTells /\ SuccessStops /\ UnknownBefore /\ DoubtStops

(* The letter's own type. *)
Letter == [status : {"waiting", "sent", "failed"}, doing : Activity, code : Code, chat : BOOLEAN,
           forsaken : BOOLEAN]

(* What is true when nothing of the ledger, or of what was sent, changes. *)
Standing ==
    /\ ledger' = ledger /\ accepted' = accepted /\ failClosed' = failClosed

(* A doubt is acted on, if the worker that has it lives. *)
Steadfast ==
    \/ letter'.forsaken
    \/ /\ letter'.forsaken = letter.forsaken
       /\ Is("in doubt") /\ failClosed => letter'.status = "failed"

(***************************************************************************)
(* Operators.                                                              *)
(***************************************************************************)

LEMMA LedgerIsFunction ==
    ASSUME SendingTypeOK
    PROVE  /\ Number \in Nat /\ DOMAIN ledger = 1 .. Number
           /\ \A n \in 1 .. Number : ledger[n] \in Outcomes
           /\ Number > 0 => Number \in 1 .. Number
           /\ accepted \subseteq 1 .. Number
<1>1. ledger \in Seq(Outcomes)
  BY DEF SendingTypeOK
<1>2. Number \in Nat /\ DOMAIN ledger = 1 .. Number
  BY <1>1, LenProperties DEF Number
<1>3. \A n \in 1 .. Number : ledger[n] \in Outcomes
  BY <1>1, <1>2, ElementOfSeq DEF Number
<1>4. QED
  BY <1>2, <1>3 DEF SendingTypeOK

(* Every attempt is the last one or before it. *)
LEMMA LastOrBefore ==
    ASSUME SendingTypeOK, NEW n \in DOMAIN ledger
    PROVE  n \in Nat /\ (n = Number \/ n < Number)
<1>1. Number \in Nat /\ n \in 1 .. Number
  BY LedgerIsFunction
<1>2. QED
  BY <1>1

LEMMA ConcludesLast ==
    ASSUME SendingTypeOK, Number > 0, NEW outcome \in Outcomes, Concludes(outcome)
    PROVE  /\ ledger' \in Seq(Outcomes) /\ DOMAIN ledger' = DOMAIN ledger /\ Number' = Number
           /\ ledger'[Number] = outcome
           /\ \A n \in DOMAIN ledger : n < Number => ledger'[n] = ledger[n]
<1>1. ledger \in Seq(Outcomes) /\ Number \in Nat /\ DOMAIN ledger = 1 .. Number
  BY LedgerIsFunction DEF SendingTypeOK
<1>2. ledger' = [ledger EXCEPT ![Number] = outcome]
  BY DEF Concludes
<1>3. ledger' \in Seq(Outcomes) /\ Len(ledger') = Len(ledger)
  BY <1>1, <1>2, ExceptSeq DEF Number
<1>4. QED
  BY <1>1, <1>2, <1>3 DEF Number

(* Every code is one of the codes. *)
LEMMA CodesAreCodes ==
    /\ \A answer \in Refusals : ReadCode(answer) \in Code \ (UnknownOutcomeCodes \cup {"none"})
    /\ \A error \in Errors : ClassifyTransportError(error) \in Code
    /\ \A error \in Errors \ {"refused connection"} :
          ClassifyTransportError(error) \in UnknownOutcomeCodes
    /\ \A error \in Errors : ClassifyTransportError(error) # "none"
<1>1. \A status \in HttpStatus : CodeByStatus(status) \in Code \ (UnknownOutcomeCodes \cup {"none"})
  BY DEF HttpStatus, CodeByStatus, Code, Permanent, UnknownOutcomeCodes
<1>2. ASSUME NEW answer \in Refusals
      PROVE  ReadCode(answer) \in Code \ (UnknownOutcomeCodes \cup {"none"})
  BY <1>1 DEF Refusals, ReadCode, Code, Permanent, UnknownOutcomeCodes
<1>3. /\ \A error \in Errors : ClassifyTransportError(error) \in Code
      /\ \A error \in Errors \ {"refused connection"} :
            ClassifyTransportError(error) \in UnknownOutcomeCodes
      /\ \A error \in Errors : ClassifyTransportError(error) # "none"
  BY DEF Errors, ClassifyTransportError, Code, UnknownOutcomeCodes
<1>4. QED
  BY <1>2, <1>3

LEMMA SendingInitEstablishes == SendingInit => SendingInv
<1> SUFFICES ASSUME SendingInit PROVE SendingInv
  OBVIOUS
<1>1. ledger \in Seq(Outcomes) /\ DOMAIN ledger = {}
  BY DEF SendingInit
<1>2. SendingTypeOK
  <2>1. letter \in Letter
    BY DEF SendingInit, Letter, Activity, Code
  <2>2. turns \in 0 .. MaxTurns
    BY SendingAssumption DEF SendingInit
  <2>3. QED
    BY <1>1, <2>1, <2>2 DEF SendingInit, SendingTypeOK, Letter
<1>3. LedgerIsTruthful /\ OpenIsLast /\ SuccessStops
  BY <1>1 DEF SendingInit, LedgerIsTruthful, OpenIsLast, SuccessStops
<1>4. WorkedOnWaiting /\ AnswerTells /\ UnknownBefore /\ DoubtStops
  BY <1>1 DEF SendingInit, WorkedOnWaiting, AnswerTells, UnknownBefore, DoubtStops, Is
<1>5. QED
  BY <1>2, <1>3, <1>4 DEF SendingInv
(***************************************************************************)
(* The steps.                                                              *)
(***************************************************************************)

(* A step that changes the letter only. *)
LEMMA LetterPreserves ==
    ASSUME SendingInv, Standing, letter.status = "waiting", letter' \in Letter,
           turns' \in 0 .. MaxTurns, WorkedOnWaiting', OpenIsLast', AnswerTells',
           Steadfast
    PROVE  SendingInv'
<1> USE DEF SendingInv
<1>1. SendingTypeOK'
  BY DEF Standing, SendingTypeOK, Letter
<1>2. LedgerIsTruthful' /\ UnknownBefore'
  BY DEF Standing, LedgerIsTruthful, UnknownBefore, Number
<1>3. SuccessStops' /\ DoubtStops'
  BY DEF Standing, SuccessStops, DoubtStops, Steadfast, Is
<1>4. QED
  BY <1>1, <1>2, <1>3

LEMMA LetterTyped == SendingTypeOK => letter \in Letter
BY DEF SendingTypeOK, Letter

LEMMA TakePreserves ==
    ASSUME SendingInv, Take, UNCHANGED failClosed
    PROVE  SendingInv'
<1> USE DEF SendingInv
<1>1. Standing /\ letter.status = "waiting" /\ Number' = Number
  BY DEF Take, Standing, Number
<1>2. turns' \in 0 .. MaxTurns /\ turns' # 0
  <2>1. turns \in 0 .. MaxTurns /\ turns < MaxTurns /\ turns' = turns + 1
    BY DEF Take, SendingTypeOK
  <2>2. QED
    BY <2>1, SendingAssumption
<1> DEFINE open == Number > 0 /\ ledger[Number] = "open"
<1>3. /\ letter' \in Letter /\ letter'.status = "waiting"
      /\ letter'.doing \in {"resolving unknown", "looking up", "typing"}
      /\ letter'.doing = "resolving unknown" <=> open
  BY LetterTyped DEF Take, Letter, Activity
<1>4. WorkedOnWaiting'
  BY <1>2, <1>3 DEF WorkedOnWaiting
<1>5. OpenIsLast'
  <2>1. ~open => \A n \in DOMAIN ledger : ledger[n] # "open"
    <3> SUFFICES ASSUME ~open, NEW n \in DOMAIN ledger PROVE ledger[n] # "open"
      OBVIOUS
    <3>1. n < Number => ledger[n] # "open"
      BY DEF OpenIsLast
    <3>2. n = Number => Number > 0
      BY LedgerIsFunction
    <3>3. n = Number \/ n < Number
      BY LastOrBefore
    <3>4. QED
      BY <3>1, <3>2, <3>3
  <2>2. QED
    BY <1>1, <1>3, <2>1 DEF OpenIsLast, Standing
<1>6. AnswerTells'
  BY <1>3 DEF AnswerTells, Is
<1>7. Steadfast
  BY LetterTyped DEF Take, Steadfast, Is, Letter
<1>8. QED
  BY <1>1, <1>2, <1>3, <1>4, <1>5, <1>6, <1>7, LetterPreserves

(* A letter that becomes another and is put aside. *)
LEMMA BecomesPreserves ==
    ASSUME SendingInv, ~Is("nothing"), NEW status \in {"waiting", "failed"}, NEW code \in Code,
           Is("in doubt") /\ failClosed => status = "failed",
           Becomes(status, code), UNCHANGED <<ledger, accepted, turns, failClosed>>
    PROVE  SendingInv'
<1> USE DEF SendingInv
<1>1. Standing /\ letter.status = "waiting" /\ Number' = Number
  BY DEF Standing, WorkedOnWaiting, Number
<1>2. letter' \in Letter /\ letter'.doing = "nothing"
  BY LetterTyped DEF Becomes, Letter, Activity
<1>3. turns' \in 0 .. MaxTurns
  BY DEF SendingTypeOK
<1>4. WorkedOnWaiting' /\ OpenIsLast' /\ AnswerTells'
  BY <1>1, <1>2 DEF WorkedOnWaiting, OpenIsLast, AnswerTells, Is, Standing
<1>5. Steadfast
  BY LetterTyped DEF Becomes, Steadfast, Letter
<1>6. QED
  BY <1>1, <1>2, <1>3, <1>4, <1>5, LetterPreserves

(* A letter whose dispatch goes on before there is an attempt. *)
LEMMA GoesOnPreserves ==
    ASSUME SendingInv, letter.doing \in {"looking up", "typing"},
           NEW doing \in {"typing", "beginning"},
           letter' = [letter EXCEPT !.doing = doing],
           UNCHANGED <<ledger, accepted, turns, failClosed>>
    PROVE  SendingInv'
<1> USE DEF SendingInv
<1>1. Standing /\ letter.status = "waiting" /\ Number' = Number
  BY DEF Standing, WorkedOnWaiting, Is, Number
<1>2. letter' \in Letter /\ letter'.doing = doing /\ letter'.status = "waiting"
  BY <1>1, LetterTyped DEF Letter, Activity
<1>3. turns' \in 0 .. MaxTurns
  BY DEF SendingTypeOK
<1>4. WorkedOnWaiting' /\ AnswerTells'
  BY <1>2 DEF WorkedOnWaiting, AnswerTells, Is
<1>5. OpenIsLast'
  BY <1>1, <1>2 DEF OpenIsLast, Standing
<1>6. Steadfast
  BY LetterTyped DEF Steadfast, Is, Letter
<1>7. QED
  BY <1>1, <1>2, <1>3, <1>4, <1>5, <1>6, LetterPreserves

LEMMA ResolveRecipientPreserves ==
    ASSUME SendingInv, ResolveRecipient, UNCHANGED failClosed
    PROVE  SendingInv'
<1>1. /\ Is("looking up") /\ ~Is("nothing") /\ ~Is("in doubt")
      /\ UNCHANGED <<ledger, accepted, turns, failClosed>>
  BY DEF ResolveRecipient, Is
<1>2. CASE letter' = [letter EXCEPT !.doing = "typing"]
  BY <1>1, <1>2, GoesOnPreserves DEF Is
<1>3. CASE Becomes("failed", "recipient_not_on_whatsapp")
  <2>1. "recipient_not_on_whatsapp" \in Code
    BY DEF Code, Permanent
  <2>2. QED
    BY <1>1, <1>3, <2>1, BecomesPreserves
<1>4. ASSUME NEW code \in Code, AfterLookup(code) PROVE SendingInv'
  <2>1. PICK status \in {"waiting", "failed"}, c \in Code : Becomes(status, c)
    BY <1>4 DEF AfterLookup, Code
  <2>2. QED
    BY <1>1, <2>1, BecomesPreserves
<1>5. ASSUME NEW answer \in Refusals, AfterLookup(ReadCode(answer)) PROVE SendingInv'
  BY <1>4, <1>5, CodesAreCodes
<1>6. ASSUME NEW error \in Errors, AfterLookup(ClassifyTransportError(error)) PROVE SendingInv'
  BY <1>4, <1>6, CodesAreCodes
<1>7. QED
  BY <1>2, <1>3, <1>5, <1>6 DEF ResolveRecipient

LEMMA ShowTypingPreserves ==
    ASSUME SendingInv, ShowTyping, UNCHANGED failClosed
    PROVE  SendingInv'
<1>1. /\ Is("typing") /\ ~Is("nothing") /\ ~Is("in doubt")
      /\ UNCHANGED <<ledger, accepted, turns, failClosed>>
  BY DEF ShowTyping, Is
<1>2. CASE letter' = [letter EXCEPT !.doing = "beginning"]
  BY <1>1, <1>2, GoesOnPreserves DEF Is
<1>3. CASE Becomes("waiting", letter.code)
  <2>1. letter.code \in Code
    BY LetterTyped DEF SendingInv, Letter
  <2>2. QED
    BY <1>1, <1>3, <2>1, BecomesPreserves
<1>4. QED
  BY <1>2, <1>3 DEF ShowTyping

LEMMA BeginAttemptPreserves ==
    ASSUME SendingInv, BeginAttempt, UNCHANGED failClosed
    PROVE  SendingInv'
<1> USE DEF SendingInv
<1>1. /\ ledger \in Seq(Outcomes) /\ Number \in Nat /\ DOMAIN ledger = 1 .. Number
      /\ accepted \subseteq 1 .. Number /\ letter.status = "waiting"
      /\ \A n \in DOMAIN ledger : ledger[n] # "open"
  BY LedgerIsFunction DEF SendingTypeOK, BeginAttempt, WorkedOnWaiting, OpenIsLast, Is
<1>2. /\ ledger' \in Seq(Outcomes) /\ Number' = Number + 1 /\ DOMAIN ledger' = 1 .. (Number + 1)
      /\ ledger'[Number + 1] = "open"
      /\ \A n \in DOMAIN ledger : ledger'[n] = ledger[n]
  <2>1. "open" \in Outcomes
    BY DEF Outcomes
  <2>2. QED
    BY <1>1, <2>1, AppendProperties DEF BeginAttempt, Number
<1>3. /\ letter' \in Letter /\ letter'.status = "waiting"
      /\ letter'.doing \in {"sending", "exhausted"}
      /\ letter'.forsaken = letter.forsaken
      /\ UNCHANGED <<accepted, turns, failClosed>>
      /\ turns # 0
  BY <1>1, LetterTyped DEF BeginAttempt, Letter, Activity, WorkedOnWaiting, Is
<1>4. SendingTypeOK'
  BY <1>1, <1>2, <1>3 DEF SendingTypeOK, Letter
<1>5. LedgerIsTruthful'
  BY <1>1, <1>2, <1>3 DEF LedgerIsTruthful
<1>6. WorkedOnWaiting'
  BY <1>3 DEF WorkedOnWaiting
<1>7. OpenIsLast'
  <2>1. ASSUME NEW n \in DOMAIN ledger', n < Number' PROVE ledger'[n] # "open"
    BY <1>1, <1>2, <2>1
  <2>2. Number' > 0 /\ ledger'[Number'] = "open"
    BY <1>1, <1>2
  <2>3. letter'.doing \notin {"looking up", "typing", "beginning", "in doubt", "refused"}
    BY <1>3
  <2>4. QED
    BY <2>1, <2>2, <2>3 DEF OpenIsLast
<1>8. AnswerTells'
  BY <1>1, <1>2, <1>3 DEF AnswerTells, Is
<1>9. SuccessStops'
  BY <1>1, <1>2, <1>3 DEF SuccessStops
<1>10. UnknownBefore'
  <2>1. \A n \in accepted : ledger[n] = "UNKNOWN"
    BY <1>1, LedgerIsFunction DEF LedgerIsTruthful, SuccessStops, Outcomes
  <2>2. QED
    BY <1>1, <1>2, <1>3, <2>1 DEF UnknownBefore
<1>11. DoubtStops'
  <2>1. letter.doing # "in doubt" /\ letter.status # "failed"
    BY <1>1 DEF BeginAttempt, Is
  <2>2. failClosed /\ ~letter.forsaken =>
          /\ \A n \in DOMAIN ledger' : ledger'[n] # "UNKNOWN"
          /\ \A m, n \in accepted : m = n
    <3>1. failClosed /\ ~letter.forsaken =>
            /\ \A n \in DOMAIN ledger : ledger[n] # "UNKNOWN"
            /\ \A m, n \in accepted : m = n
      BY <2>1 DEF DoubtStops
    <3>2. \A n \in DOMAIN ledger' : n \in DOMAIN ledger \/ n = Number + 1
      BY <1>1, <1>2
    <3>3. QED
      BY <1>2, <3>1, <3>2
  <2>3. /\ failClosed' /\ ~letter'.forsaken => failClosed /\ ~letter.forsaken
        /\ accepted' = accepted
    BY <1>3
  <2>4. failClosed' /\ ~letter'.forsaken =>
          /\ \A n \in DOMAIN ledger' : ledger'[n] # "UNKNOWN"
          /\ \A m, n \in accepted' : m = n
    BY <2>2, <2>3
  <2>5. QED
    BY <2>4 DEF DoubtStops
<1>12. QED
  BY <1>4, <1>5, <1>6, <1>7, <1>8, <1>9, <1>10, <1>11

LEMMA ExhaustPreserves ==
    ASSUME SendingInv, Exhaust, UNCHANGED failClosed
    PROVE  SendingInv'
<1>1. "maximum_attempts_exhausted" \in Code
  BY DEF Code
<1>2. QED
  BY <1>1, BecomesPreserves DEF Exhaust, Is

(* An answer to a message the provider did not take. *)
LEMMA RefusedPreserves ==
    ASSUME SendingInv, Is("sending"), NEW code \in Code \ {"none"}, AnsweredWith(code),
           UNCHANGED <<ledger, accepted, turns, failClosed>>
    PROVE  SendingInv'
<1> USE DEF SendingInv
<1>1. /\ Standing /\ letter.status = "waiting" /\ Number' = Number /\ turns # 0
      /\ Number > 0 /\ ledger[Number] = "open" /\ Number \notin accepted
  BY DEF Standing, WorkedOnWaiting, OpenIsLast, AnswerTells, Is, Number
<1>2. /\ letter' \in Letter /\ letter'.doing = "handling" /\ letter'.code = code
      /\ letter'.status = "waiting"
  BY <1>1, LetterTyped DEF AnsweredWith, Letter, Activity
<1>3. turns' \in 0 .. MaxTurns
  BY DEF SendingTypeOK
<1>4. WorkedOnWaiting' /\ AnswerTells'
  BY <1>1, <1>2 DEF WorkedOnWaiting, AnswerTells, Is, Standing
<1>5. OpenIsLast'
  BY <1>1, <1>2 DEF OpenIsLast, Standing
<1>6. Steadfast
  BY LetterTyped DEF AnsweredWith, Steadfast, Is, Letter
<1>7. QED
  BY <1>1, <1>2, <1>3, <1>4, <1>5, <1>6, LetterPreserves

LEMMA RefuseToSendPreserves ==
    ASSUME SendingInv, RefuseToSend \/ MissProvider, UNCHANGED failClosed
    PROVE  SendingInv'
<1>1. Is("sending") /\ UNCHANGED <<ledger, accepted, turns, failClosed>>
  BY DEF RefuseToSend, MissProvider
<1>2. PICK code \in Code \ {"none"} : AnsweredWith(code)
  BY CodesAreCodes DEF RefuseToSend, MissProvider
<1>3. QED
  BY <1>1, <1>2, RefusedPreserves

(* What the message in hand changes of the ones that are out. *)
LEMMA AcceptedPreserves ==
    ASSUME SendingInv, Is("sending"),
           accepted' = accepted \/ accepted' = accepted \cup {Number},
           letter' \in Letter, letter'.status = "waiting",
           letter'.doing \in {"handling", "nothing"}, letter'.forsaken = letter.forsaken,
           letter'.doing = "handling" =>
               Number \in accepted' /\ letter'.code \in UnknownOutcomeCodes \cup {"none"},
           UNCHANGED <<ledger, turns, failClosed>>
    PROVE  SendingInv'
<1> USE DEF SendingInv
<1>1. /\ letter.status = "waiting" /\ Number' = Number /\ turns # 0
      /\ Number \in Nat /\ Number > 0 /\ ledger[Number] = "open" /\ DOMAIN ledger = 1 .. Number
      /\ Number \in DOMAIN ledger /\ accepted \subseteq 1 .. Number /\ Number \notin accepted
  BY LedgerIsFunction DEF WorkedOnWaiting, OpenIsLast, AnswerTells, Is, Number
<1>2. SendingTypeOK'
  BY <1>1 DEF SendingTypeOK, Letter
<1>3. LedgerIsTruthful'
  BY <1>1 DEF LedgerIsTruthful
<1>4. WorkedOnWaiting'
  BY <1>1 DEF WorkedOnWaiting
<1>5. OpenIsLast'
  BY <1>1 DEF OpenIsLast
<1>6. AnswerTells'
  BY <1>1 DEF AnswerTells, Is
<1>7. SuccessStops'
  BY <1>1 DEF SuccessStops
<1>8. UnknownBefore'
  <2> SUFFICES ASSUME NEW n \in accepted', n < Number' PROVE ledger'[n] = "UNKNOWN"
    BY DEF UnknownBefore
  <2>1. n \in accepted /\ n < Number
    BY <1>1
  <2>2. QED
    BY <1>1, <2>1 DEF UnknownBefore
<1>9. DoubtStops'
  <2>1. failClosed /\ ~letter.forsaken => accepted = {}
    BY <1>1 DEF DoubtStops, UnknownBefore, Is
  <2>2. QED
    BY <1>1, <2>1 DEF DoubtStops, Is
<1>10. QED
  BY <1>2, <1>3, <1>4, <1>5, <1>6, <1>7, <1>8, <1>9

LEMMA SendTextMessagePreserves ==
    ASSUME SendingInv, SendTextMessage, UNCHANGED failClosed
    PROVE  SendingInv'
<1>1. PICK code \in UnknownOutcomeCodes \cup {"none"} : AnsweredWith(code)
  <2>1. "provider_response_unreadable" \in UnknownOutcomeCodes
    BY DEF UnknownOutcomeCodes
  <2>2. QED
    BY <2>1, CodesAreCodes DEF SendTextMessage
<1>2. code \in Code
  BY DEF Code, UnknownOutcomeCodes
<1>3. /\ letter' \in Letter /\ letter'.status = "waiting" /\ letter'.doing = "handling"
      /\ letter'.code = code /\ letter'.forsaken = letter.forsaken
  BY <1>1, <1>2, LetterTyped
  DEF SendingInv, SendTextMessage, AnsweredWith, Letter, Activity, WorkedOnWaiting, Is
<1>4. QED
  BY <1>1, <1>3, AcceptedPreserves DEF SendTextMessage

LEMMA DieSendingPreserves ==
    ASSUME SendingInv, DieSending, UNCHANGED failClosed
    PROVE  SendingInv'
<1>1. /\ letter' \in Letter /\ letter'.status = "waiting" /\ letter'.doing = "nothing"
      /\ letter'.forsaken = (letter.forsaken \/ Is("in doubt"))
  BY LetterTyped DEF SendingInv, DieSending, Letter, Activity
<1>2. CASE Is("sending")
  <2>1. letter'.forsaken = letter.forsaken
    BY <1>2, LetterTyped DEF SendingInv, DieSending, Is, Letter
  <2>2. QED
    BY <1>1, <1>2, <2>1, AcceptedPreserves DEF DieSending
<1>3. CASE ~Is("sending")
  <2>1. Standing /\ letter.status = "waiting" /\ turns' \in 0 .. MaxTurns /\ Number' = Number
    BY <1>3 DEF SendingInv, SendingTypeOK, DieSending, Standing, Number
  <2>2. WorkedOnWaiting' /\ OpenIsLast' /\ AnswerTells'
    BY <1>1, <2>1
    DEF SendingInv, DieSending, WorkedOnWaiting, OpenIsLast, AnswerTells, Is, Standing
  <2>3. Steadfast
    <3>1. CASE Is("in doubt")
      BY <1>1, <3>1 DEF Steadfast
    <3>2. CASE ~Is("in doubt")
      BY <3>2, LetterTyped DEF SendingInv, DieSending, Steadfast, Is, Letter
    <3>3. QED
      BY <3>1, <3>2
  <2>4. QED
    BY <1>1, <2>1, <2>2, <2>3, LetterPreserves DEF SendingInv
<1>4. QED
  BY <1>2, <1>3

(* What is concluded of the attempt in hand. *)
LEMMA ConcludedPreserves ==
    ASSUME SendingInv, letter.doing \in {"resolving unknown", "handling"},
           NEW outcome \in {"SUCCEEDED", "FAILED", "UNKNOWN"}, Concludes(outcome),
           letter' \in Letter, letter'.doing \in {"nothing", "in doubt", "refused"},
           letter'.doing # "nothing" => letter'.status = "waiting",
           letter'.forsaken = letter.forsaken,
           outcome = "SUCCEEDED" => Number \in accepted /\ letter'.status = "sent",
           outcome = "FAILED" => Number \notin accepted,
           outcome = "UNKNOWN" => letter'.doing = "in doubt",
           UNCHANGED <<accepted, turns, failClosed>>
    PROVE  SendingInv'
<1> USE DEF SendingInv
<1>1. /\ letter.status = "waiting" /\ turns # 0
      /\ Number \in Nat /\ Number > 0 /\ ledger[Number] = "open" /\ DOMAIN ledger = 1 .. Number
      /\ Number \in DOMAIN ledger /\ accepted \subseteq 1 .. Number
  BY LedgerIsFunction DEF WorkedOnWaiting, OpenIsLast, Is
<1>2. /\ ledger' \in Seq(Outcomes) /\ DOMAIN ledger' = DOMAIN ledger /\ Number' = Number
      /\ ledger'[Number] = outcome
      /\ \A n \in DOMAIN ledger : n < Number => ledger'[n] = ledger[n]
  <2>1. outcome \in Outcomes
    BY DEF Outcomes
  <2>2. QED
    BY <1>1, <2>1, ConcludesLast
<1>3. \A n \in DOMAIN ledger : n = Number \/ n < Number
  BY LastOrBefore
<1>4. SendingTypeOK'
  BY <1>1, <1>2 DEF SendingTypeOK, Letter
<1>5. LedgerIsTruthful'
  BY <1>1, <1>2, <1>3 DEF LedgerIsTruthful
<1>6. WorkedOnWaiting'
  BY <1>1 DEF WorkedOnWaiting, Is
<1>7. OpenIsLast'
  BY <1>1, <1>2, <1>3 DEF OpenIsLast
<1>8. AnswerTells'
  BY DEF AnswerTells, Is
<1>9. SuccessStops'
  BY <1>1, <1>2, <1>3 DEF SuccessStops
<1>10. UnknownBefore'
  BY <1>1, <1>2 DEF UnknownBefore
<1>11. DoubtStops'
  BY <1>1, <1>2, <1>3 DEF DoubtStops, Is
<1>12. QED
  BY <1>4, <1>5, <1>6, <1>7, <1>8, <1>9, <1>10, <1>11

LEMMA RecordSentPreserves ==
    ASSUME SendingInv, RecordSent, UNCHANGED failClosed
    PROVE  SendingInv'
<1>1. /\ letter' \in Letter /\ letter'.status = "sent" /\ letter'.doing = "nothing"
      /\ letter'.forsaken = letter.forsaken
  BY LetterTyped DEF SendingInv, RecordSent, Becomes, Letter, Activity, Code
<1>2. Number \in accepted
  BY DEF SendingInv, RecordSent, AnswerTells
<1>3. QED
  BY <1>1, <1>2, ConcludedPreserves DEF RecordSent, Is

LEMMA UnknownPreserves ==
    ASSUME SendingInv, ResolveInterrupted \/ HandleUnknown, UNCHANGED failClosed
    PROVE  SendingInv'
<1>1. /\ Concludes("UNKNOWN") /\ UNCHANGED <<accepted, turns, failClosed>>
      /\ letter.doing \in {"resolving unknown", "handling"}
      /\ letter' = [letter EXCEPT !.doing = "in doubt"]
  BY DEF ResolveInterrupted, HandleUnknown, ConcludeUnknown, Is
<1>2. /\ letter' \in Letter /\ letter'.status = "waiting" /\ letter'.doing = "in doubt"
      /\ letter'.forsaken = letter.forsaken
  BY <1>1, LetterTyped DEF SendingInv, WorkedOnWaiting, Is, Letter, Activity
<1>3. QED
  BY <1>1, <1>2, ConcludedPreserves

LEMMA ResolveUnknownPreserves ==
    ASSUME SendingInv, ResolveUnknownOutcome, UNCHANGED failClosed
    PROVE  SendingInv'
<1>1. ~Is("nothing")
  BY DEF ResolveUnknownOutcome, Is
<1>2. PICK status \in {"waiting", "failed"}, code \in Code :
        Becomes(status, code) /\ (failClosed => status = "failed")
  BY DEF ResolveUnknownOutcome, Code
<1>3. QED
  BY <1>1, <1>2, BecomesPreserves DEF ResolveUnknownOutcome

LEMMA ResolveRefusedPreserves ==
    ASSUME SendingInv, ResolveRefused, UNCHANGED failClosed
    PROVE  SendingInv'
<1>1. /\ letter' \in Letter /\ letter'.status = "waiting" /\ letter'.doing = "refused"
      /\ letter'.forsaken = letter.forsaken
  BY LetterTyped
  DEF SendingInv, ResolveRefused, WorkedOnWaiting, Is, Letter, Activity
<1>2. Number \notin accepted
  BY DEF SendingInv, ResolveRefused, AnswerTells
<1>3. QED
  BY <1>1, <1>2, ConcludedPreserves DEF ResolveRefused, Is

LEMMA HandleSendFailurePreserves ==
    ASSUME SendingInv, HandleSendFailure, UNCHANGED failClosed
    PROVE  SendingInv'
<1>1. ~Is("nothing") /\ ~Is("in doubt") /\ letter.code \in Code
  BY LetterTyped DEF SendingInv, HandleSendFailure, Is, Letter
<1>2. PICK status \in {"waiting", "failed"}, code \in Code : Becomes(status, code)
  BY <1>1 DEF HandleSendFailure, Code
<1>3. QED
  BY <1>1, <1>2, BecomesPreserves DEF HandleSendFailure

LEMMA ChoosePolicyPreserves == ASSUME SendingInv, ChoosePolicy PROVE SendingInv'
<1> USE DEF SendingInv
<1>1. DOMAIN ledger = {} /\ accepted = {} /\ UNCHANGED <<letter, ledger, accepted, turns>>
  BY LedgerIsFunction DEF ChoosePolicy, WorkedOnWaiting, Number
<1>2. SendingTypeOK' /\ LedgerIsTruthful' /\ WorkedOnWaiting'
  BY <1>1 DEF ChoosePolicy, SendingTypeOK, LedgerIsTruthful, WorkedOnWaiting, Is
<1>3. OpenIsLast' /\ AnswerTells' /\ SuccessStops' /\ UnknownBefore' /\ DoubtStops'
  BY <1>1 DEF OpenIsLast, AnswerTells, SuccessStops, UnknownBefore, DoubtStops, Is, Number
<1>4. QED
  BY <1>2, <1>3

LEMMA SendingStepPreserves == SendingInv /\ [SendingNext]_sendingVars => SendingInv'
<1> SUFFICES ASSUME SendingInv, [SendingNext]_sendingVars PROVE SendingInv'
  OBVIOUS
<1>1. CASE UNCHANGED sendingVars
  <2>1. UNCHANGED <<letter, failClosed, ledger, accepted, turns>>
    BY <1>1 DEF sendingVars
  <2>2. SendingTypeOK' /\ LedgerIsTruthful' /\ WorkedOnWaiting'
    BY <2>1 DEF SendingInv, SendingTypeOK, LedgerIsTruthful, WorkedOnWaiting, Is
  <2>3. OpenIsLast' /\ AnswerTells' /\ SuccessStops' /\ UnknownBefore' /\ DoubtStops'
    BY <2>1
    DEF SendingInv, OpenIsLast, AnswerTells, SuccessStops, UnknownBefore, DoubtStops, Is, Number
  <2>4. QED
    BY <2>2, <2>3 DEF SendingInv
<1>2. CASE ChoosePolicy
  BY <1>2, ChoosePolicyPreserves
<1>3. CASE UNCHANGED failClosed
          /\ (Take \/ ResolveRecipient \/ ShowTyping \/ BeginAttempt \/ Exhaust)
  BY <1>3, TakePreserves, ResolveRecipientPreserves, ShowTypingPreserves, BeginAttemptPreserves,
     ExhaustPreserves
<1>4. CASE UNCHANGED failClosed /\ (RefuseToSend \/ MissProvider \/ SendTextMessage \/ DieSending)
  BY <1>4, RefuseToSendPreserves, SendTextMessagePreserves, DieSendingPreserves
<1>5. CASE /\ UNCHANGED failClosed
           /\ \/ RecordSent \/ ResolveInterrupted \/ HandleUnknown \/ ResolveUnknownOutcome
              \/ ResolveRefused \/ HandleSendFailure
  BY <1>5, RecordSentPreserves, UnknownPreserves, ResolveUnknownPreserves, ResolveRefusedPreserves,
     HandleSendFailurePreserves
<1>6. QED
  BY <1>1, <1>2, <1>3, <1>4, <1>5 DEF SendingNext

(***************************************************************************)
(* The results.                                                            *)
(***************************************************************************)

(* The inductive invariant holds. *)
THEOREM SendingInvariance == SendingSpec => []SendingInv
BY SendingInitEstablishes, SendingStepPreserves, PTL DEF SendingSpec

(* Every variable of Sending keeps its type. *)
THEOREM SendingTypeCorrect == SendingSpec => []SendingTypeOK
<1>1. SendingInv => SendingTypeOK
  BY DEF SendingInv
<1>2. QED
  BY <1>1, SendingInvariance, PTL

(* The ledger says FAILED of no message the provider accepted, and          *)
(* SUCCEEDED of none it did not.                                           *)
THEOREM TruthTheorem == SendingSpec => []LedgerIsTruthful
<1>1. SendingInv => LedgerIsTruthful
  BY DEF SendingInv
<1>2. QED
  BY <1>1, SendingInvariance, PTL

(* A second copy goes out only after an attempt recorded as unknown, and     *)
(* under FAIL_CLOSED only when a worker died before it could stop for one.  *)
THEOREM DuplicateTheorem == SendingSpec => []NoSilentDuplicate
<1>1. SendingInv => NoSilentDuplicate
  <2> SUFFICES ASSUME SendingInv PROVE NoSilentDuplicate
    OBVIOUS
  <2>1. failClosed /\ ~letter.forsaken => Cardinality(accepted) <= 1
    <3> SUFFICES ASSUME failClosed, ~letter.forsaken PROVE Cardinality(accepted) <= 1
      OBVIOUS
    <3>1. CASE accepted = {}
      BY <3>1, FS_EmptySet
    <3>2. ASSUME NEW n \in accepted PROVE accepted = {n}
      BY <3>2 DEF SendingInv, DoubtStops
    <3>3. ASSUME NEW n \in accepted PROVE Cardinality(accepted) = 1
      <4>1. Cardinality({n}) = 1
        BY FS_Singleton
      <4>2. QED
        BY <3>2, <4>1
    <3>4. QED
      BY <3>1, <3>3
  <2>2. \A m, n \in accepted : m < n => ledger[m] = "UNKNOWN"
    BY LedgerIsFunction DEF SendingInv, UnknownBefore
  <2>3. QED
    BY <2>1, <2>2 DEF NoSilentDuplicate
<1>2. QED
  BY <1>1, SendingInvariance, PTL

(***************************************************************************)
(* The contract of delivery.                                               *)
(***************************************************************************)

(* A worker goes to the provider only for an attempt of the allotment.      *)
SendsWithin == Is("sending") => Number \in 1 .. MaximumAttempts

LEMMA SendsWithinStep ==
    ASSUME SendingInv, SendsWithin, [SendingNext]_sendingVars
    PROVE  SendsWithin'
<1>1. letter \in Letter /\ ledger \in Seq(Outcomes)
  BY LetterTyped DEF SendingInv, SendingTypeOK
<1>2. CASE BeginAttempt
  <2>1. Number \in Nat /\ Number' = Number + 1
    BY <1>1, <1>2 DEF BeginAttempt, Number
  <2>2. Is("sending")' => Number < MaximumAttempts
    BY <1>1, <1>2 DEF BeginAttempt, Is, Letter
  <2>3. QED
    BY <2>1, <2>2, SendingAssumption DEF SendsWithin
<1>3. CASE UNCHANGED sendingVars \/ ChoosePolicy
  BY <1>3 DEF SendsWithin, ChoosePolicy, sendingVars, Is, Number
<1>4. CASE Take \/ ResolveRecipient \/ ShowTyping \/ Exhaust
  BY <1>1, <1>4
  DEF SendsWithin, Take, ResolveRecipient, ShowTyping, Exhaust, AfterLookup, Becomes, Is, Letter
<1>5. CASE RefuseToSend \/ MissProvider \/ SendTextMessage \/ DieSending
  BY <1>1, <1>5
  DEF SendsWithin, RefuseToSend, MissProvider, SendTextMessage, DieSending, AnsweredWith, Is,
      Letter
<1>6. CASE \/ RecordSent \/ ResolveInterrupted \/ HandleUnknown \/ ResolveUnknownOutcome
           \/ ResolveRefused \/ HandleSendFailure
  BY <1>1, <1>6
  DEF SendsWithin, RecordSent, ResolveInterrupted, HandleUnknown, ConcludeUnknown,
      ResolveUnknownOutcome, ResolveRefused, HandleSendFailure, Becomes, Is, Letter
<1>7. QED
  BY <1>2, <1>3, <1>4, <1>5, <1>6 DEF SendingNext

(* What a caller is shown, for a step that only works on the notification.  *)
Unseen ==
    /\ Number' = Number /\ accepted' = accepted
    /\ letter'.status = letter.status
    /\ ~Is("sending") /\ ~Is("sending")'

LEMMA UnseenStep ==
    ASSUME Unseen
    PROVE  UNCHANGED Delivery!contract
<1>1. Tried' = Tried
  BY DEF Unseen, Tried
<1>2. Verdict' = Verdict /\ accepted' = accepted
  BY DEF Unseen, Verdict
<1>3. QED
  BY <1>1, <1>2 DEF Delivery!contract

(* A step that gives a verdict.                                            *)
LEMMA VerdictStep ==
    ASSUME Number' = Number, accepted' = accepted, ~Is("sending"), ~Is("sending")',
           letter.status = "waiting", letter'.status \in {"sent", "failed"},
           letter'.status = "sent" => accepted # {}
    PROVE  Delivery!Next
<1>1. Tried' = Tried
  BY DEF Tried
<1>2. Verdict = "pending" /\ Verdict' = letter'.status
  BY DEF Verdict
<1>3. Delivery!Settle("letter")
  BY <1>1, <1>2 DEF Delivery!Settle
<1>4. QED
  BY <1>3 DEF Delivery!Next

(* A step that goes to the provider.                                       *)
LEMMA ContactStep ==
    ASSUME SendsWithin, Is("sending"), ~Is("sending")', ledger' = ledger,
           letter'.status = letter.status,
           accepted' = accepted \/ accepted' = accepted \cup {Number}
    PROVE  Delivery!Next
<1>1. Number \in 1 .. MaximumAttempts /\ Number' = Number
  BY DEF SendsWithin, Number
<1>2. Number \notin Tried /\ Tried' = Tried \cup {Number}
  BY <1>1, SendingAssumption DEF Tried
<1>3. Verdict' = Verdict
  BY DEF Verdict
<1>4. Delivery!Contact("letter")
  BY <1>1, <1>2, <1>3 DEF Delivery!Contact
<1>5. QED
  BY <1>4 DEF Delivery!Next

(* Every step of sending is one of the contract, or one that nobody outside *)
(* sees.                                                                   *)
LEMMA SendingContractStep ==
    ASSUME SendingInv, SendsWithin, [SendingNext]_sendingVars
    PROVE  [Delivery!Next]_(Delivery!contract)
<1>1. letter \in Letter /\ ledger \in Seq(Outcomes) /\ (~Is("nothing") => letter.status = "waiting")
  BY LetterTyped DEF SendingInv, SendingTypeOK, WorkedOnWaiting
<1>2. Concludes("UNKNOWN") \/ Concludes("FAILED") \/ Concludes("SUCCEEDED") => Number' = Number
  BY <1>1, ConcludesLast DEF Concludes, Number
<1>3. CASE UNCHANGED sendingVars \/ ChoosePolicy
  <2>1. letter' = letter /\ ledger' = ledger /\ accepted' = accepted
    BY <1>3 DEF sendingVars, ChoosePolicy
  <2>2. Tried' = Tried /\ Verdict' = Verdict
    BY <2>1 DEF Tried, Verdict, Number, Is
  <2>3. QED
    BY <2>1, <2>2 DEF Delivery!contract
<1>4. CASE Take
  <2>1. Unseen
    BY <1>1, <1>4 DEF Unseen, Take, Is, Letter, Number
  <2>2. QED
    BY <2>1, UnseenStep
<1>5. CASE ResolveRecipient \/ ShowTyping
  <2>1. /\ Number' = Number /\ accepted' = accepted /\ ~Is("sending") /\ ~Is("sending")'
        /\ letter.status = "waiting" /\ letter'.status \in {"waiting", "failed"}
    BY <1>1, <1>5
    DEF ResolveRecipient, ShowTyping, AfterLookup, Becomes, Is, Letter, Number
  <2>2. letter'.status = "waiting" => Unseen
    BY <2>1 DEF Unseen
  <2>3. QED
    BY <2>1, <2>2, UnseenStep, VerdictStep
<1>6. CASE BeginAttempt
  <2>1. Number \in Nat /\ Number' = Number + 1
    BY <1>1, <1>6 DEF BeginAttempt, Number
  <2>2. /\ accepted' = accepted /\ letter'.status = letter.status /\ ~Is("sending")
        /\ ~Is("sending")' => ~(Number < MaximumAttempts)
    BY <1>1, <1>6 DEF BeginAttempt, Is, Letter
  <2>3. Tried' = Tried
    BY <2>1, <2>2, SendingAssumption DEF Tried
  <2>4. Verdict' = Verdict
    BY <2>2 DEF Verdict
  <2>5. QED
    BY <2>2, <2>3, <2>4 DEF Delivery!contract
<1>7. CASE Exhaust
  BY <1>1, <1>7, VerdictStep DEF Exhaust, Becomes, Is, Letter, Number
<1>8. CASE RefuseToSend \/ MissProvider \/ SendTextMessage
  BY <1>1, <1>8, ContactStep
  DEF RefuseToSend, MissProvider, SendTextMessage, AnsweredWith, Is, Letter
<1>9. CASE DieSending
  <2>1. ledger' = ledger /\ letter'.status = letter.status /\ ~Is("sending")'
    BY <1>1, <1>9 DEF DieSending, Is, Letter
  <2>2. CASE Is("sending")
    BY <1>9, <2>1, <2>2, ContactStep DEF DieSending
  <2>3. CASE ~Is("sending")
    BY <1>9, <2>1, <2>3, UnseenStep DEF DieSending, Unseen, Number
  <2>4. QED
    BY <2>2, <2>3
<1>10. CASE RecordSent
  <2>1. Number \in accepted
    BY <1>10 DEF RecordSent, SendingInv, AnswerTells
  <2>2. QED
    BY <1>1, <1>2, <1>10, <2>1, VerdictStep DEF RecordSent, Becomes, Is, Letter
<1>11. CASE ResolveInterrupted \/ HandleUnknown \/ ResolveRefused
  <2>1. Unseen
    BY <1>1, <1>2, <1>11
    DEF Unseen, ResolveInterrupted, HandleUnknown, ResolveRefused, ConcludeUnknown, Is, Letter
  <2>2. QED
    BY <2>1, UnseenStep
<1>12. CASE ResolveUnknownOutcome \/ HandleSendFailure
  <2>1. /\ Number' = Number /\ accepted' = accepted /\ ~Is("sending") /\ ~Is("sending")'
        /\ letter.status = "waiting" /\ letter'.status \in {"waiting", "failed"}
    BY <1>1, <1>12 DEF ResolveUnknownOutcome, HandleSendFailure, Becomes, Is, Letter, Number
  <2>2. letter'.status = "waiting" => Unseen
    BY <2>1 DEF Unseen
  <2>3. QED
    BY <2>1, <2>2, UnseenStep, VerdictStep
<1>13. QED
  BY <1>3, <1>4, <1>5, <1>6, <1>7, <1>8, <1>9, <1>10, <1>11, <1>12 DEF SendingNext

(* Whatever the provider answers and wherever the worker dies, a caller     *)
(* sees the contract of delivery: one verdict that stays, "sent" only for a *)
(* message the provider accepted, and no attempt used twice or beyond the   *)
(* allotment.                                                              *)
THEOREM SendingContract == SendingSpec => SendingKeepsContract
<1>1. SendingInit => SendsWithin /\ Delivery!Init
  <2> SUFFICES ASSUME SendingInit PROVE SendsWithin /\ Delivery!Init
    OBVIOUS
  <2>1. Number = 0 /\ ~Is("sending") /\ Verdict = "pending" /\ accepted = {}
    BY DEF SendingInit, Number, Is, Verdict
  <2>2. Tried = {}
    BY <2>1, SendingAssumption DEF Tried
  <2>3. QED
    BY <2>1, <2>2 DEF SendsWithin, Delivery!Init
<1>2. SendingInv /\ SendsWithin /\ [SendingNext]_sendingVars => SendsWithin'
  BY SendsWithinStep
<1>3. SendingInv /\ SendsWithin /\ [SendingNext]_sendingVars => [Delivery!Next]_(Delivery!contract)
  BY SendingContractStep
<1>4. QED
  BY <1>1, <1>2, <1>3, SendingInvariance, PTL
  DEF SendingSpec, SendingKeepsContract, Delivery!Spec
=============================================================================
