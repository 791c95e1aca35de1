----------------------------- MODULE MCAssetFile -----------------------------
(* Small instance of AssetFile for TLC: each field empty, the app's or      *)
(* another's.                                                               *)
EXTENDS AssetFile

MCName == {"", "mine", "other"}
MCOwn == {"", "mine"}
MCPriority == {PRIORITY_UNSET, 5}
==============================================================================
