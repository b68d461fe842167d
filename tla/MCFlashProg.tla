----------------------------- MODULE MCFlashProg -----------------------------
(* FlashProg for TLC: the .cfg files choose the flash chips and their size. *)
EXTENDS FlashProg
=============================================================================
