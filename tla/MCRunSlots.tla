------------------------------ MODULE MCRunSlots ------------------------------
(* RunSlots on a few runs and one synchronous client.                      *)
EXTENDS RunSlots
=============================================================================
