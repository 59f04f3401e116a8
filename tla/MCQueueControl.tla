--------------------------- MODULE MCQueueControl ---------------------------
(* Instances of QueueControl for TLC. *)
EXTENDS QueueControl, TLC

Symmetry == Permutations(Keys)
=============================================================================
