----------------------------- MODULE MCBatcher -----------------------------
(* Two batched workers (or one) and a worker without batches.              *)
EXTENDS Batcher

MCKeyOf == [j \in Jobs |-> IF j = 2 THEN Single ELSE "a"]
=============================================================================
