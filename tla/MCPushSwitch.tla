---------------------------- MODULE MCPushSwitch ----------------------------
(* PushSwitch for TLC: the .cfg file gives times, backlog and restarts. *)
EXTENDS PushSwitch
=============================================================================
