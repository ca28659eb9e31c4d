------------------------- MODULE MCMasterWorkspace -------------------------
(* Instance of MasterWorkspace for TLC: see ms_workspace.cfg for the bound. *)
EXTENDS MasterWorkspace
=============================================================================
