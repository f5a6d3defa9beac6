--------------------------- MODULE MCProgressLock ---------------------------
(***************************************************************************)
(* Runs on two hosts, with and without a Beaker job, in and outside the    *)
(* job's results directory.  One run that died, and two that find its      *)
(* lock, is the least that makes a takeover race.                          *)
(***************************************************************************)
EXTENDS ProgressLock, TLC

CONSTANTS p1, p2, p3, h1, h2, n1, n2, j1

=============================================================================
