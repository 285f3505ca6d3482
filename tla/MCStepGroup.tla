------------------------------ MODULE MCStepGroup ------------------------------
(* StepGroup on small groups.                                              *)
EXTENDS StepGroup
=============================================================================
