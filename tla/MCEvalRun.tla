----------------------------- MODULE MCEvalRun -----------------------------
(***************************************************************************)
(* Small instances of EvalRun: one task of two instances, where results,   *)
(* scoring and completion can interleave and half of the instances is      *)
(* exactly the failure budget.  Two workers let one die or exit while the  *)
(* other still holds an item.                                              *)
(***************************************************************************)
EXTENDS EvalRun

CONSTANTS t1, i1, i2, w1, w2

=============================================================================
