----------------------------- MODULE MCAgentCalls -----------------------------
(* AgentCalls with a fallback and a few calls.                             *)
EXTENDS AgentCalls
=============================================================================
