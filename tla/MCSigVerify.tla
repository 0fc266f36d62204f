----------------------------- MODULE MCSigVerify -----------------------------
(* Instances of SigVerify for TLC.                                         *)
EXTENDS SigVerify
=============================================================================
