--------------------------- MODULE MCDurableRuns ---------------------------
(* DurableRuns on small instances; replicas are interchangeable.           *)
EXTENDS DurableRuns, TLC

\* Sound for the runs that check no liveness.
ReplicaSymmetry == Permutations(Replica)
=============================================================================
