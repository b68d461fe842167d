--------------------------- MODULE MCIotMachine ---------------------------
(* IotMachine for TLC: the .cfg file gives the times and the bounds. *)
EXTENDS IotMachine
=============================================================================
