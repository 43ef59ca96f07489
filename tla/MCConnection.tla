----------------------------- MODULE MCConnection -----------------------------
(* Connection on small instances: workers are interchangeable.             *)
EXTENDS Connection, TLC

WorkerSymmetry == Permutations(Workers)
=============================================================================
