----------------------------- MODULE MCRdbMigrate -----------------------------
(* Small instance of RdbMigrate for TLC. *)
EXTENDS RdbMigrate
===============================================================================
