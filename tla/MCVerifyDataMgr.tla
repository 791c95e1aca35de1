-------------------------- MODULE MCVerifyDataMgr --------------------------
(* Small instance of VerifyDataMgr for TLC. *)
EXTENDS VerifyDataMgr, TLC

MCSymmetry == Permutations(Bundle) \cup Permutations(Host) \cup Permutations(App)
=============================================================================
