------------------------------ MODULE MCRunLock ------------------------------
(* RunLock on small instances: the timing of setRunLockTiming scaled down. *)
EXTENDS RunLock, TLC

\* Legs are interchangeable: every property quantifies over all of them.
LegSymmetry == Permutations(Leg)
=============================================================================
