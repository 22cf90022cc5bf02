-------------------------- MODULE MCAgentHarness --------------------------
(* The module the run of AgentHarness checks.                              *)
EXTENDS AgentHarness
============================================================================
