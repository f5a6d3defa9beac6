-------------------------- MODULE MCSandboxCommand --------------------------
(* Two commands in one sandbox, one reconnection and two probes.            *)
EXTENDS SandboxCommand

CONSTANTS c1, c2

=============================================================================
