-------------------------- MODULE MCAcknowledgements --------------------------
(* Acknowledgements on small instances: workers, and receipts before they  *)
(* arrive, are interchangeable.                                            *)
EXTENDS Acknowledgements, TLC

Interchangeable == Permutations(Workers) \cup Permutations(Receipts)
=============================================================================
