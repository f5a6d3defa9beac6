-------------------------- MODULE MCSandboxManager --------------------------
(***************************************************************************)
(* Two slots, one of which alone has a capability; three callers, so that  *)
(* one holds a slot, one waits for it and a third gets in between.         *)
(***************************************************************************)
EXTENDS SandboxManager

CONSTANTS s1, s2, c1, c2, c3

=============================================================================
