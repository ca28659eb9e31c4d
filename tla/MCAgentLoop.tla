---------------------------- MODULE MCAgentLoop ----------------------------
(* Instance of AgentLoop for TLC: see agent_loop.cfg for the bounds. *)
EXTENDS AgentLoop
=============================================================================
