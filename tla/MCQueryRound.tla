---------------------------- MODULE MCQueryRound ----------------------------
(* Instances of QueryRound for TLC.  A made-up answer has the hash of the  *)
(* honest one it was made after, as lists have that differ only in where   *)
(* one part ends; honest answers have hashes of their own.                 *)
EXTENDS QueryRound

TheHash == [r \in Replies |-> IF r.kind = "madeUp" THEN [r EXCEPT !.kind = "found"] ELSE r]
=============================================================================
