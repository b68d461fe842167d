---------------------------- MODULE MCPowerDaemon ----------------------------
(* PowerDaemon for TLC: the .cfg files choose LIMIT and the kind of COMMAND. *)
EXTENDS PowerDaemon
=============================================================================
