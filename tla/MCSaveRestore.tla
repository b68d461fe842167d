--------------------------- MODULE MCSaveRestore ---------------------------
(* SaveRestore for TLC: the .cfg file gives the settings. *)
EXTENDS SaveRestore
=============================================================================
