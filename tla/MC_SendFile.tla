----------------------------- MODULE MC_SendFile -----------------------------
(* Instances of SendFile for TLC.                                             *)
EXTENDS SendFile
=============================================================================
