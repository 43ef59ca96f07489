--------------------------- MODULE DeliveryContract ---------------------------
(***************************************************************************)
(* What the delivery pipeline promises a caller, and nothing of how.       *)
(*                                                                         *)
(* A notification has a fixed allotment of attempts.  Each may be used to  *)
(* contact WhatsApp at most once, which may or may not get the message     *)
(* through.  The notification is pending until one verdict is given; the   *)
(* verdict is never taken back, and "sent" is given only on a message that *)
(* WhatsApp took.  The contract is for at-least-once delivery: an attempt  *)
(* already under way may still reach WhatsApp after a verdict.             *)
(***************************************************************************)
EXTENDS Integers

CONSTANTS Notifications, MaximumAttempts

VARIABLES
    outcome,    \* "pending", or the verdict
    tried,      \* the attempts used up at WhatsApp
    taken       \* those of them whose message WhatsApp took

contract == <<outcome, tried, taken>>

Init ==
    /\ outcome = [n \in Notifications |-> "pending"]
    /\ tried = [n \in Notifications |-> {}]
    /\ taken = [n \in Notifications |-> {}]

Contact(n) ==
    \E k \in 1 .. MaximumAttempts :
        /\ k \notin tried[n]
        /\ tried' = [tried EXCEPT ![n] = @ \cup {k}]
        /\ \/ taken' = [taken EXCEPT ![n] = @ \cup {k}]
           \/ UNCHANGED taken
        /\ UNCHANGED outcome

Settle(n) ==
    /\ outcome[n] = "pending"
    /\ \E v \in {"sent", "failed", "cancelled"} :
          /\ v = "sent" => taken[n] # {}
          /\ outcome' = [outcome EXCEPT ![n] = v]
    /\ UNCHANGED <<tried, taken>>

Next == \E n \in Notifications : Contact(n) \/ Settle(n)

Spec == Init /\ [][Next]_contract
=============================================================================
