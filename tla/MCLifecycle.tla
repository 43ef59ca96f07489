------------------------------ MODULE MCLifecycle ------------------------------
(* Lifecycle on a small instance.                                          *)
EXTENDS Lifecycle, TLC

(* One for whatever connection is best, and two through a chosen one.      *)
SomePayloads == {[size |-> 1, session |-> None], [size |-> 2, session |-> 1]}

(* Handlers are interchangeable.                                            *)
Interchangeable == Permutations(Caller) \cup Permutations(Client)
=============================================================================
