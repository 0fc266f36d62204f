--------------------------- MODULE MCManagerSwitch ---------------------------
(* Instances of ManagerSwitch for TLC.                                     *)
EXTENDS ManagerSwitch
=============================================================================
