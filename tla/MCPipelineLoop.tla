---------------------------- MODULE MCPipelineLoop ----------------------------
(* PipelineLoop on a few runs of two sessions, neither of which is special. *)
EXTENDS PipelineLoop, TLC

Alike == Permutations(Procs) \cup Permutations(Sessions)
=============================================================================
