---------------------------- MODULE MCEnrollStore ----------------------------
(* Two threads, which build up to four managers between them.              *)
EXTENDS EnrollStore
===============================================================================
