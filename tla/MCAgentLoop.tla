---------------------------- MODULE MCAgentLoop ----------------------------
(* Small instances of AgentLoop for TLC.                                   *)
EXTENDS AgentLoop, TLC

\* The chats are interchangeable where no property names one.
ChatSymmetry == Permutations(Chats)
=============================================================================
