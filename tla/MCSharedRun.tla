---------------------------- MODULE MCSharedRun ----------------------------
(* Instances of SharedRun for TLC. *)
EXTENDS SharedRun, TLC

CONSTANTS j1, j2, j3

=============================================================================
