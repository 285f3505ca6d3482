------------------------------ MODULE MCStepBody ------------------------------
(* Bodies of a few statements over one local name, one input, one pipeline variable. *)
EXTENDS StepBody
=============================================================================
