-------------------------------- MODULE Sending --------------------------------
(***************************************************************************)
(* What dispatch makes of the provider's answers: one notification, from   *)
(* the lookup of its recipient to what the attempt ledger says of each     *)
(* send.  Module Dispatch takes the answer to a send as one of accepted,    *)
(* refused and unknown; here is how a status, a text or an error becomes    *)
(* one, and what the provider had really done.                             *)
(*                                                                         *)
(* The provider is the one in tools/waha-stub with its failure modes, and   *)
(* may besides answer any other status; of a text only the refusals it is   *)
(* searched for matter.  The connection to it may fail before the request  *)
(* is written, or at any time after.                                       *)
(*                                                                         *)
(* A definition that stands just before the one it resembles, and that     *)
(* nothing uses, is a mistake that one could have.                         *)
(***************************************************************************)
EXTENDS Integers, FiniteSets, Sequences

CONSTANTS
    OtherStatus,        \* a status without a code of its own
    MaximumAttempts,    \* the notification's
    MaxTurns            \* bound: dispatches of the notification

ASSUME SendingAssumption ==
    /\ OtherStatus \notin {401, 403, 404, 422, 429, 500, 502, 503, 504}
    /\ MaximumAttempts \in Nat \ {0} /\ MaxTurns \in Nat

VARIABLES
    letter,         \* the notification, and what its dispatch is doing
    failClosed,     \* its application's unknownOutcomePolicy is FAIL_CLOSED
    ledger,         \* the outcome of each attempt, "open" until it is resolved
    accepted,       \* of which attempts the provider accepted the message
    turns           \* how often it was dispatched

sendingVars == <<letter, failClosed, ledger, accepted, turns>>

(* What an answer says: a status and the gist of its text; or an error of   *)
(* the transport.                                                          *)
HttpStatus == {401, 403, 404, 422, 429, 500, 502, 503, 504, OtherStatus}
Gist       == {"plain", "reachout timelock", "message capping", "session state"}
Refusals   == [status : HttpStatus, gist : Gist]
Errors     == {"refused connection", "connection reset", "timeout", "aborted"}

-----------------------------------------------------------------------------
CodeByStatus(status) ==
    CASE status \in {401, 403}           -> "provider_unauthorized"
      [] status = 404                    -> "session_missing"
      [] status = 422                    -> "provider_invalid_request"
      [] status = 429                    -> "provider_rate_limited"
      [] status \in {500, 502, 503, 504} -> "provider_server_error"
      [] OTHER                           -> "provider_unknown_error"

ReadCode(answer) ==
    CASE answer.gist = "reachout timelock" -> "connection_restricted"
      [] answer.gist = "message capping"   -> "new_chat_quota_exceeded"
      [] answer.status = 422 /\ answer.gist = "session state" -> "session_not_ready"
      [] OTHER -> CodeByStatus(answer.status)

ClassifyLostAsUnreachable(error) ==
    CASE error = "aborted" -> "provider_aborted"
      [] error = "timeout" -> "provider_timeout"
      [] OTHER             -> "provider_unreachable"

ClassifyTransportError(error) ==
    CASE error = "aborted"            -> "provider_aborted"
      [] error = "timeout"            -> "provider_timeout"
      [] error = "refused connection" -> "provider_unreachable"
      [] OTHER                        -> "provider_connection_lost"

Permanent == {"provider_unauthorized", "provider_invalid_request", "session_missing",
              "recipient_not_on_whatsapp", "connection_restricted", "new_chat_quota_exceeded"}

UnknownOutcomeCodes == {"provider_connection_lost", "provider_timeout", "provider_aborted",
                        "provider_response_unreadable"}

-----------------------------------------------------------------------------
SendingInit ==
    /\ failClosed = FALSE
    /\ letter = [status |-> "waiting", doing |-> "nothing", code |-> "none", chat |-> FALSE,
                  forsaken |-> FALSE]
    /\ ledger = <<>>
    /\ accepted = {}
    /\ turns = 0

Number  == Len(ledger)
Is(what) == letter.doing = what

(* The application's settings are what they are before anything is sent.    *)
ChoosePolicy ==
    /\ turns = 0 /\ ~failClosed
    /\ failClosed' = TRUE
    /\ UNCHANGED <<letter, ledger, accepted, turns>>

(* Leaves PROCESSING: to RETRYING, to FAILED or to SENT.                    *)
Becomes(status, code) ==
    letter' = [letter EXCEPT !.status = status, !.doing = "nothing", !.code = code]

Concludes(outcome) == ledger' = [ledger EXCEPT ![Number] = outcome]

TakeAnyway ==
    /\ letter.status = "waiting" /\ Is("nothing")
    /\ turns < MaxTurns /\ turns' = turns + 1
    /\ letter' = [letter EXCEPT !.doing = IF letter.chat THEN "typing" ELSE "looking up"]
    /\ UNCHANGED <<ledger, accepted>>

(* An attempt left open by a worker that is gone is resolved before anything*)
(* else happens.                                                           *)
Take ==
    /\ letter.status = "waiting" /\ Is("nothing")
    /\ turns < MaxTurns /\ turns' = turns + 1
    /\ letter' = [letter EXCEPT !.doing =
           IF Number > 0 /\ ledger[Number] = "open" THEN "resolving unknown"
           ELSE IF letter.chat THEN "typing" ELSE "looking up"]
    /\ UNCHANGED <<ledger, accepted>>

(* resolveRecipient: what is not permanent becomes recipient_check_failed;  *)
(* a session the provider lost is waited for, as a disconnected one is.     *)
AfterLookup(code) ==
    IF code \in Permanent \ {"session_missing"}
    THEN Becomes("failed", code)
    ELSE Becomes("waiting", IF code = "session_missing" THEN code ELSE "recipient_check_failed")

ResolveRecipient ==
    /\ Is("looking up")
    /\ \/ letter' = [letter EXCEPT !.doing = "typing"]
       \/ Becomes("failed", "recipient_not_on_whatsapp")
       \/ \E answer \in Refusals : AfterLookup(ReadCode(answer))
       \/ \E error \in Errors : AfterLookup(ClassifyTransportError(error))
    /\ UNCHANGED <<ledger, accepted, turns>>

(* Whether the indicator appeared is not looked at, but a worker that is    *)
(* stopping puts the notification back.                                    *)
ShowTyping ==
    /\ Is("typing")
    /\ \/ letter' = [letter EXCEPT !.doing = "beginning"]
       \/ Becomes("waiting", letter.code)
    /\ UNCHANGED <<ledger, accepted, turns>>

(* The attempt is committed, with the identifier, before the provider is    *)
(* contacted.                                                              *)
BeginAttempt ==
    /\ Is("beginning")
    /\ ledger' = Append(ledger, "open")
    /\ letter' = [letter EXCEPT !.chat = TRUE,
           !.doing = IF Number < MaximumAttempts THEN "sending" ELSE "exhausted"]
    /\ UNCHANGED <<accepted, turns>>

Exhaust ==
    /\ Is("exhausted")
    /\ Becomes("failed", "maximum_attempts_exhausted")
    /\ UNCHANGED <<ledger, accepted, turns>>

AnsweredWith(code) == letter' = [letter EXCEPT !.doing = "handling", !.code = code]

(* The provider refuses without having sent anything.                      *)
RefuseToSend ==
    /\ Is("sending")
    /\ \E answer \in Refusals : AnsweredWith(ReadCode(answer))
    /\ UNCHANGED <<ledger, accepted, turns>>

(* Or the request does not reach it.                                       *)
MissProvider ==
    /\ Is("sending")
    /\ \E error \in Errors : AnsweredWith(ClassifyTransportError(error))
    /\ UNCHANGED <<ledger, accepted, turns>>

(* Or it accepts the message, and says so; in a shape that cannot be read;  *)
(* or not so that anybody hears it.                                        *)
SendTextMessage ==
    /\ Is("sending")
    /\ accepted' = accepted \cup {Number}
    /\ \/ AnsweredWith("none")
       \/ AnsweredWith("provider_response_unreadable")
       \/ \E error \in Errors \ {"refused connection"} : AnsweredWith(ClassifyTransportError(error))
    /\ UNCHANGED <<ledger, turns>>

-----------------------------------------------------------------------------
(* The SENT row and the ledger are one transaction.                        *)
RecordSent ==
    /\ Is("handling") /\ letter.code = "none"
    /\ Concludes("SUCCEEDED")
    /\ Becomes("sent", "none")
    /\ UNCHANGED <<accepted, turns>>

(* resolveUnknownOutcome: one transaction for the attempt, ...              *)
ConcludeUnknown ==
    /\ Concludes("UNKNOWN")
    /\ letter' = [letter EXCEPT !.doing = "in doubt"]
    /\ UNCHANGED <<accepted, turns>>

ResolveInterrupted == Is("resolving unknown") /\ ConcludeUnknown

HandleUnknown ==
    /\ Is("handling") /\ letter.code \in UnknownOutcomeCodes
    /\ ConcludeUnknown

(* ... and another for the row.                                            *)
ResolveUnknownOutcome ==
    /\ Is("in doubt")
    /\ IF failClosed THEN Becomes("failed", "unknown_outcome_fail_closed")
       ELSE IF Number >= MaximumAttempts THEN Becomes("failed", "maximum_attempts_exhausted")
       ELSE Becomes("waiting", "provider_outcome_unknown")
    /\ UNCHANGED <<ledger, accepted, turns>>

(* Here too the attempt is resolved first, in a transaction of its own.    *)
ResolveRefused ==
    /\ Is("handling") /\ letter.code \notin UnknownOutcomeCodes \cup {"none"}
    /\ Concludes("FAILED")
    /\ letter' = [letter EXCEPT !.doing = "refused"]
    /\ UNCHANGED <<accepted, turns>>

HandleSendFailure ==
    /\ Is("refused")
    /\ IF letter.code = "session_missing" THEN Becomes("waiting", "session_not_ready")
       ELSE IF letter.code \in Permanent THEN Becomes("failed", letter.code)
       ELSE IF Number >= MaximumAttempts THEN Becomes("failed", "maximum_attempts_exhausted")
       ELSE Becomes("waiting", letter.code)
    /\ UNCHANGED <<ledger, accepted, turns>>

(* The worker dies, and the claim is given back in time.  Whether it did so *)
(* between the two transactions of a doubt is kept, and read by no step.    *)
DieSending ==
    /\ letter.status = "waiting" /\ ~Is("nothing")
    /\ letter' = [letter EXCEPT !.doing = "nothing", !.forsaken = @ \/ Is("in doubt")]
    /\ UNCHANGED <<ledger, turns>>
    /\ accepted' \in {accepted} \cup IF Is("sending") THEN {accepted \cup {Number}} ELSE {}

SendingNext ==
    \/ ChoosePolicy
    \/ /\ \/ Take \/ ResolveRecipient \/ ShowTyping \/ BeginAttempt \/ Exhaust
          \/ RefuseToSend \/ MissProvider \/ SendTextMessage
          \/ RecordSent \/ ResolveInterrupted \/ HandleUnknown \/ ResolveUnknownOutcome
          \/ ResolveRefused \/ HandleSendFailure \/ DieSending
       /\ UNCHANGED failClosed

SendingSpec == SendingInit /\ [][SendingNext]_sendingVars

-----------------------------------------------------------------------------
Outcomes == {"open", "SUCCEEDED", "FAILED", "UNKNOWN"}

Activity == {"nothing", "resolving unknown", "looking up", "typing", "beginning", "sending",
             "exhausted", "handling", "in doubt", "refused"}
Code == Permanent \cup UnknownOutcomeCodes \cup
        {"none", "provider_rate_limited", "provider_server_error", "provider_unknown_error",
         "provider_unreachable", "session_not_ready", "recipient_check_failed",
         "provider_outcome_unknown", "unknown_outcome_fail_closed", "maximum_attempts_exhausted"}

SendingTypeOK ==
    /\ letter \in [status : {"waiting", "sent", "failed"}, doing : Activity, code : Code,
                   chat : BOOLEAN, forsaken : BOOLEAN]
    /\ failClosed \in BOOLEAN
    /\ ledger \in Seq(Outcomes)
    /\ accepted \subseteq DOMAIN ledger
    /\ turns \in 0 .. MaxTurns

(* "A refused connection is deliberately excluded", "the message was almost *)
(* certainly sent": whatever an answer looked like, or did not, the ledger  *)
(* never says FAILED of a message the provider accepted, nor SUCCEEDED of   *)
(* one it did not.                                                         *)
LedgerIsTruthful ==
    \A n \in DOMAIN ledger :
        /\ ledger[n] = "FAILED" => n \notin accepted
        /\ ledger[n] = "SUCCEEDED" => n \in accepted

(* "Configured to stop rather than risk sending the same message twice": of *)
(* such an application no message is accepted twice, but for a worker that  *)
(* dies between recording a doubt and stopping for it; of another, none     *)
(* without an attempt before it that says the outcome is unknown.          *)
NoSilentDuplicate ==
    /\ failClosed /\ ~letter.forsaken => Cardinality(accepted) <= 1
    /\ \A m, n \in accepted : m < n => ledger[m] = "UNKNOWN"

(* The contract of DeliveryContract holds whatever the provider answers too: *)
(* an attempt counts as used once a worker has gone to send it, and one past *)
(* the allotment never does.                                               *)
Tried == {n \in 1 .. MaximumAttempts : n < Number \/ (n = Number /\ ~Is("sending"))}

Verdict == IF letter.status = "waiting" THEN "pending" ELSE letter.status

Delivery == INSTANCE DeliveryContract
              WITH Notifications <- {"letter"},
                   outcome <- [n \in {"letter"} |-> Verdict],
                   tried <- [n \in {"letter"} |-> Tried],
                   taken <- [n \in {"letter"} |-> accepted]

SendingKeepsContract == Delivery!Spec
=============================================================================
