---------------------------- MODULE MCCfgClient ----------------------------
(* Small instances of the request path for TLC. *)
EXTENDS CfgClient
=============================================================================
