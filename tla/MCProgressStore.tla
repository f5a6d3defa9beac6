-------------------------- MODULE MCProgressStore --------------------------
(***************************************************************************)
(* A small instance of ProgressStore.  A record's trace tells what it says *)
(* from what another record says, so two tasks with one instance each and  *)
(* one with two are enough to lose, mix up or misread entries.             *)
(***************************************************************************)
EXTENDS ProgressStore, TLC

CONSTANTS t1, t2, i1, i2, none, other

\* No definition of ProgressStore tells tasks, or instances, apart.
Symmetry == Permutations({t1, t2}) \cup Permutations({i1, i2})
=============================================================================
