------------------------------ MODULE Idempotency ------------------------------
(***************************************************************************)
(* What an idempotency key promises its client: one request takes effect   *)
(* under it, in one step and for good, however often and however closely   *)
(* together it is made.                                                    *)
(***************************************************************************)
CONSTANTS Key, Identifier

VARIABLE outcome    \* the notifications made under each key

ContractInit == outcome = [k \in Key |-> {}]

Settle(k) ==
    /\ outcome[k] = {}
    /\ \E made \in SUBSET Identifier : outcome' = [outcome EXCEPT ![k] = made]

ContractNext == \E k \in Key : Settle(k)

ContractSpec == ContractInit /\ [][ContractNext]_outcome
=============================================================================
