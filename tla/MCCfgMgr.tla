------------------------------ MODULE MCCfgMgr ------------------------------
(* Small instances of the configuration manager for TLC. *)
EXTENDS CfgMgr
=============================================================================
