-------------------------- MODULE MCDeferredLinkMgr --------------------------
(* Small instance of DeferredLinkMgr for TLC.                               *)
EXTENDS DeferredLinkMgr

MCSymmetry == Permutations(Link) \cup Permutations(Caller)
==============================================================================
