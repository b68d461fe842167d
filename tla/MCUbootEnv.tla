----------------------------- MODULE MCUbootEnv -----------------------------
(* UbootEnv for TLC: the .cfg files choose the flag scheme and the calls. *)
EXTENDS UbootEnv
=============================================================================
