------------------------------ MODULE MCTaskMgr ------------------------------
(* Small instance of TaskMgr for TLC; no symmetry, since the run checks     *)
(* liveness.                                                                *)
EXTENDS TaskMgr
==============================================================================
