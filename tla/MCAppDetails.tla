---------------------------- MODULE MCAppDetails ----------------------------
(* Small instance of AppDetails for TLC. *)
EXTENDS AppDetails

MCSymmetry == Permutations(Url) \cup Permutations(Bundle) \cup Permutations(Thread)
=============================================================================
