--------------------------- MODULE MCAgentService ---------------------------
(* Small instance of AgentService for TLC. *)
EXTENDS AgentService, TLC
=============================================================================
