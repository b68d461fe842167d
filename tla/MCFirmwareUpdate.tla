-------------------------- MODULE MCFirmwareUpdate --------------------------
(***************************************************************************)
(* FirmwareUpdate for TLC, with the inductive invariant of the proofs; the *)
(* .cfg files choose versions, attempts, branch and MD5 files.             *)
(***************************************************************************)
EXTENDS FirmwareUpdateProofs
=============================================================================
