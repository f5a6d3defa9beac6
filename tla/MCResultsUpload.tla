-------------------------- MODULE MCResultsUpload --------------------------
(* Instances of ResultsUpload for TLC. *)
EXTENDS ResultsUpload, TLC

CONSTANTS t1, t2

Symmetry == Permutations(Task)

=============================================================================
