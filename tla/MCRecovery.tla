----------------------------- MODULE MCRecovery -----------------------------
(* Small instances of Recovery.                                             *)
EXTENDS Recovery
=============================================================================
