--------------------------- MODULE MCMasterTasks ---------------------------
(* An instance of MasterTasks for TLC: see ms_tasks.cfg for its bounds, two  *)
(* launches, or one with two other requests or restarts.                    *)
EXTENDS MasterTasks
=============================================================================
