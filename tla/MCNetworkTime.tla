--------------------------- MODULE MCNetworkTime ---------------------------
(* NetworkTime for TLC: the .cfg file gives the times and the bounds. *)
EXTENDS NetworkTime
=============================================================================
