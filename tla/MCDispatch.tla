------------------------------ MODULE MCDispatch ------------------------------
(* Dispatch on small instances: workers are interchangeable.               *)
EXTENDS Dispatch, TLC

WorkerSymmetry == Permutations(Workers)
=============================================================================
