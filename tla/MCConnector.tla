---------------------------- MODULE MCConnector ----------------------------
(* A model of Connector for TLC.  A timer id is used again once nothing     *)
(* refers to it.                                                           *)
EXTENDS Connector
============================================================================
