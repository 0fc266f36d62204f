---------------------------- MODULE MCReplication ----------------------------
(* Instances of Replication for TLC.                                       *)
EXTENDS Replication, TLC

(* Uploads are interchangeable: used by the run without liveness only.     *)
UploadSymmetry == Permutations(Uploads)
=============================================================================
