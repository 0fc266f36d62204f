--------------------------- MODULE MCDatasetSplit ---------------------------
(* Instances of DatasetSplit for TLC.                                      *)
EXTENDS DatasetSplit
=============================================================================
