-------------------------- MODULE MCExtensionProcess --------------------------
(* ExtensionProcess on a few calls.                                        *)
EXTENDS ExtensionProcess
=============================================================================
