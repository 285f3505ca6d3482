---------------------------- MODULE MCBranchMerge ----------------------------
(* Two branches over two variables and two objects. *)
EXTENDS BranchMerge

Alike == Permutations(Ids) \cup Permutations(Vars)
=============================================================================
