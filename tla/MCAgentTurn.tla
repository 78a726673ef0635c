---------------------------- MODULE MCAgentTurn ----------------------------
(* The instance of AgentTurn that TLC checks.                              *)
EXTENDS AgentTurn
=============================================================================
