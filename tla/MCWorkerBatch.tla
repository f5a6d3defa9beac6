--------------------------- MODULE MCWorkerBatch ---------------------------
(* Instances of WorkerBatch for TLC: i2 has as many samples as the budget. *)
EXTENDS WorkerBatch, TLC

CONSTANTS w1, w2, i1, i2, i3

TwoSamples == [i \in Item |-> IF i = i2 THEN 2 ELSE 1]

=============================================================================
