---------------------------- MODULE MCLifecycle ----------------------------
(***************************************************************************)
(* Instances of Lifecycle for TLC: two rows, two workers, and a pool that  *)
(* is smaller, or larger, than what the goroutines ask for.                *)
(***************************************************************************)
EXTENDS Lifecycle, TLC

CONSTANTS u1, u2, w1, w2

MCURL == {u1, u2}
MCWorker == {w1, w2}
=============================================================================
