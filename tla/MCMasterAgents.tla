--------------------------- MODULE MCMasterAgents ---------------------------
(* Instance of MasterAgents for TLC: see ms_agents.cfg for the bounds. *)
EXTENDS MasterAgents
=============================================================================
