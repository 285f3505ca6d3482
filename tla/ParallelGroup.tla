----------------------------- MODULE ParallelGroup -----------------------------
(* The branches of one parallel group, numbered in the order they are declared: *)
(* StepGroup runs them, BranchMerge merges what they wrote.                     *)
EXTENDS Naturals, FiniteSets

CONSTANT Branches   \* branches of the group

Branch == 1..Branches
=============================================================================
