---------------------------- MODULE MCAttackGraph ----------------------------
(* Instances of AttackGraph for TLC.                                       *)
EXTENDS AttackGraph, FiniteSetsExt

CONSTANTS v, h, x,    \* two hosts of the internal network, one outside
          MaxAlerts   \* bound on the alerts of a ledger

TheHosts == {v, h, x}

(* The cells that may hold an alert.                                       *)
Cells == {<<"G2", <<v, h>>>>, <<"G2", <<h, v>>>>, <<"G2", <<x, h>>>>,
          <<"G1", <<x, v>>>>, <<"G1", <<x, h>>>>, <<"G1", <<h, v>>>>,
          <<"G3", <<v, h>>>>, <<"G3", <<h, x>>>>}

(* Two bands of rows by two bands of columns.                              *)
Stocked(r, c, alerts) == [rowIPs |-> r, columnIPs |-> c, alerts |-> alerts]
Split(alerts) == << Stocked(<<v, h>>, <<v, h>>, alerts), Stocked(<<v, h>>, <<x>>, alerts),
                    Stocked(<<x>>, <<v, h>>, alerts), Stocked(<<x>>, <<x>>, alerts) >>

Store(alerts) == [d \in Days |-> [g \in Graphs |->
  [blocks |-> 4, units |-> Split({a[2][2] : a \in {b \in alerts : b[1] = d /\ b[2][1] = g}})]]]

Whole == {Store(S) : S \in UNION {kSubset(n, Days \X Cells) : n \in 0..MaxAlerts}}

(* Ledgers that lack the index of a graph, or one of its units.            *)
Chain == Store({<<LastDay, <<"G2", <<h, v>>>>>>, <<LastDay, <<"G1", <<x, h>>>>>>})
Partial == {[Chain EXCEPT ![d][g].blocks = NoData] : d \in Days, g \in Graphs}
             \union {[Chain EXCEPT ![d][g].units[k] = NoData] :
                       d \in Days, g \in Graphs, k \in 1..4}

TheLedgers == Whole \union Partial
=============================================================================
