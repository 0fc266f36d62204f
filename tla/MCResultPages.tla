---------------------------- MODULE MCResultPages ----------------------------
(***************************************************************************)
(* Ledgers of two days over the attackers (applications) 4 and 6 and the   *)
(* hosts (URLs) 6 and 10; all but one of these links are in the pages'     *)
(* graphs.                                                                 *)
(***************************************************************************)
EXTENDS ResultPages

Cross == {4, 6} \X {6, 10}

TheLedgers ==
  { <<{<<4, 6>>}, {<<4, 10>>}>>,                 \* A3 finds fewer than A2 and A1
    <<{<<4, 6>>, <<6, 6>>, <<6, 10>>}, {}>>,     \* one day with data
    <<{<<4, 6>>, <<6, 6>>}, {<<6, 10>>}>>,
    <<Cross, {<<4, 6>>}>>,
    <<{}, {<<6, 10>>}>>,
    <<{<<4, 6>>, <<6, 16>>}, {<<16, 6>>}>>,      \* hosts that no page shows
    <<{<<4, 6>>}, NoData>> }
===============================================================================
