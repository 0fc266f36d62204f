----------------------------- MODULE AttackGraph -----------------------------
(***************************************************************************)
(* inferAttackPaths and inferDamages, the searches of the nids chaincode.  *)
(* From one host they follow the alerts of three graphs, day by day: all   *)
(* the way in G2, the internal network, and one step in G1 and G3, between *)
(* it and the outside.  Paths are followed backwards from a victim, damage *)
(* forwards from an attacker.  The graphs are read unit by unit from the   *)
(* ledger, of which an invocation sees one state.  One action is one pass  *)
(* through the body of a loop.                                             *)
(***************************************************************************)
EXTENDS Naturals, Sequences, Functions

CONSTANTS Hosts,      \* IP addresses
          Victims,    \* the hosts whose attack paths may be asked for
          Internal,   \* the hosts whose damage may not be asked for
          LastDay,
          Ledgers,    \* the world states explored
          NoData      \* value of a key that was never written

Days == 1..LastDay
Graphs == {"G1", "G2", "G3"}

(* A unit: its labels, and the alerts (attacker, victim) it stores.        *)
UnitType == [rowIPs : Seq(Hosts), columnIPs : Seq(Hosts), alerts : SUBSET (Hosts \X Hosts)]

(* A graph of one day: the number of its units and the units.              *)
GraphType == [blocks : Nat \union {NoData}, units : Seq(UnitType \union {NoData})]

ASSUME HostsAssumption == Victims \subseteq Hosts /\ Internal \subseteq Hosts
ASSUME DaysAssumption == LastDay \in Nat
ASSUME NoDataAssumption == NoData \notin Nat /\ NoData \notin UnitType
ASSUME LedgersAssumption ==
  \A l \in Ledgers : /\ l \in [Days -> [Graphs -> GraphType]]
                     /\ \A d \in Days, g \in Graphs :
                          l[d][g].blocks # NoData => l[d][g].blocks = Len(l[d][g].units)

(* No pair of hosts has two cells in a graph, as the labels of a dataset   *)
(* are distinct and ImportCSV puts each of its cells into one unit (see    *)
(* EveryCellOnce in DatasetSplit).                                         *)
CellsOnce(l) ==
  \A k, m \in {n \in DOMAIN l.units : l.units[n] # NoData} :
    LET u == l.units[k]
        w == l.units[m] IN
    \A p \in DOMAIN u.rowIPs, q \in DOMAIN u.columnIPs :
      \A r \in DOMAIN w.rowIPs, s \in DOMAIN w.columnIPs :
        u.rowIPs[p] = w.rowIPs[r] /\ u.columnIPs[q] = w.columnIPs[s]
          => k = m /\ p = r /\ q = s

ASSUME CellsAssumption == \A l \in Ledgers, d \in Days, g \in Graphs : CellsOnce(l[d][g])

VARIABLES query,      \* the invocation: algorithm, host, days
          ledger,     \* the world state it sees
          pc,
          day, phase, \* the loops over the days and over the graphs
          queue,      \* hosts still to be visited; its head is being visited
          searched,   \* searchedNodes
          unit, pos,  \* the loops over the units and over a unit's labels
          nodes,      \* AG.nodes
          edges       \* AG.edges, each alert known by its day and graph

inputs == <<query, ledger>>
vars == <<query, ledger, pc, day, phase, queue, searched, unit, pos, nodes, edges>>

Queries == [kind : {"paths", "damages"}, host : Hosts, start : Days, end : Days]

Paths == query.kind = "paths"

Init == /\ query \in Queries
        /\ ledger \in Ledgers
        /\ pc = "check"
        /\ day = query.start
        /\ phase = 1
        /\ queue = <<>>
        /\ searched = {}
        /\ unit = 1
        /\ pos = 1
        /\ nodes = <<>>
        /\ edges = [e \in Hosts \X Hosts |-> <<>>]

Acceptable == /\ query.start <= query.end
              /\ IF Paths THEN query.host \in Victims ELSE query.host \notin Internal

Refuse == /\ pc = "check"
          /\ ~ Acceptable
          /\ pc' = "error"
          /\ UNCHANGED <<inputs, day, phase, queue, searched, unit, pos, nodes, edges>>

(* AG.AddNode(root), and the first graph's queue.                          *)
Begin == /\ pc = "check"
         /\ Acceptable
         /\ pc' = "search"
         /\ day' = IF Paths THEN query.end ELSE query.start
         /\ nodes' = <<query.host>>
         /\ queue' = nodes'
         /\ UNCHANGED <<inputs, phase, searched, unit, pos, edges>>

(* The order of the graphs within a day.                                   *)
Order == IF Paths THEN <<"G2", "G1", "G3">> ELSE <<"G1", "G3", "G2">>
Graph == Order[phase]
Stored == ledger[day][Graph]
Visited == Head(queue)

Visiting == pc = "search" /\ queue # <<>>

NoIndex == /\ Visiting
           /\ Stored.blocks = NoData
           /\ pc' = "error"
           /\ UNCHANGED <<inputs, day, phase, queue, searched, unit, pos, nodes, edges>>

AtUnit == Visiting /\ Stored.blocks # NoData /\ unit <= Stored.blocks
Unit == Stored.units[unit]

(* Mutant: a unit that is not there is passed over.                        *)
NoUnitIgnored == /\ AtUnit
                 /\ Unit = NoData
                 /\ unit' = unit + 1
                 /\ UNCHANGED <<inputs, pc, day, phase, queue, searched, pos, nodes, edges>>

NoUnit == /\ AtUnit
          /\ Unit = NoData
          /\ pc' = "error"
          /\ UNCHANGED <<inputs, day, phase, queue, searched, unit, pos, nodes, edges>>

(* The labels among which the visited host is looked up, and those of the  *)
(* hosts across: victims are columns, attackers rows.                      *)
Labels(u) == IF Paths THEN u.columnIPs ELSE u.rowIPs
Across(u) == IF Paths THEN u.rowIPs ELSE u.columnIPs

Concerned == AtUnit /\ Unit # NoData /\ Visited \in Range(Labels(Unit))

Looking == Concerned /\ pos <= Len(Across(Unit))
Other == Across(Unit)[pos]

(* contain == -1, or all labels across were looked at.                     *)
NextUnit == /\ AtUnit /\ Unit # NoData
            /\ Visited \notin Range(Labels(Unit)) \/ pos > Len(Across(Unit))
            /\ unit' = unit + 1
            /\ pos' = 1
            /\ UNCHANGED <<inputs, pc, day, phase, queue, searched, nodes, edges>>

(* An edge leads from an attacker to a victim.                             *)
Between(other, host) == IF Paths THEN <<other, host>> ELSE <<host, other>>
Edge == Between(Other, Visited)

(* Mutant: the hosts of the edge are swapped.                              *)
RecordSwapped(e) ==
  edges' = [edges EXCEPT ![<<e[2], e[1]>>] = Append(@, <<day, Graph>>)]

Record(e) == edges' = [edges EXCEPT ![e] = Append(@, <<day, Graph>>)]

(* Mutants: what was searched is queued again; a new host is not queued.   *)
EnqueueAgain(other) ==
  queue' = IF Graph = "G2" /\ other \notin Range(queue)
           THEN Append(queue, other) ELSE queue
EnqueueNothing(other) == queue' = queue

(* Only the search of the internal network goes on from a host it meets.   *)
Enqueue(other) ==
  queue' = IF Graph = "G2" /\ other \notin Range(queue) \union searched
           THEN Append(queue, other) ELSE queue

NoAlert == /\ Looking
           /\ Edge \notin Unit.alerts
           /\ pos' = pos + 1
           /\ UNCHANGED <<inputs, pc, day, phase, queue, searched, unit, nodes, edges>>

(* Mutant: hosts are added without an alert.                               *)
DiscoverAny == /\ Looking
               /\ Other \notin Range(nodes)
               /\ nodes' = Append(nodes, Other)
               /\ Record(Edge)
               /\ Enqueue(Other)
               /\ pos' = pos + 1
               /\ UNCHANGED <<inputs, pc, day, phase, searched, unit>>

(* An alert about a host that is not in the graph yet.                     *)
Discover == /\ Looking
            /\ Edge \in Unit.alerts
            /\ Other \notin Range(nodes)
            /\ nodes' = Append(nodes, Other)
            /\ Record(Edge)
            /\ Enqueue(Other)
            /\ pos' = pos + 1
            /\ UNCHANGED <<inputs, pc, day, phase, searched, unit>>

(* An alert about a host already in the graph: only the attack paths from  *)
(* the outside get another edge.                                           *)
Meet == /\ Looking
        /\ Edge \in Unit.alerts
        /\ Other \in Range(nodes)
        /\ IF Paths /\ Graph # "G2" THEN Record(Edge)
                                    ELSE UNCHANGED edges
        /\ Enqueue(Other)
        /\ pos' = pos + 1
        /\ UNCHANGED <<inputs, pc, day, phase, searched, unit, nodes>>

(* Mutant: the last host of the queue is removed, not the one visited.     *)
NextHostRemoveLast ==
  /\ Visiting /\ Stored.blocks # NoData /\ unit > Stored.blocks
  /\ searched' = searched \union {Visited}
  /\ queue' = SubSeq(queue, 1, Len(queue) - 1)
  /\ unit' = 1
  /\ UNCHANGED <<inputs, pc, day, phase, pos, nodes, edges>>

(* All units were looked at: the visited host is done with.                *)
NextHost == /\ Visiting /\ Stored.blocks # NoData /\ unit > Stored.blocks
            /\ searched' = searched \union {Visited}
            /\ queue' = Tail(queue)
            /\ unit' = 1
            /\ UNCHANGED <<inputs, pc, day, phase, pos, nodes, edges>>

(* The next graph starts from all hosts found so far.                      *)
Restart == queue' = nodes /\ searched' = {}

NextGraph == /\ pc = "search" /\ queue = <<>>
             /\ phase < 3
             /\ phase' = phase + 1
             /\ Restart
             /\ UNCHANGED <<inputs, pc, day, unit, pos, nodes, edges>>

LastOne == IF Paths THEN day = query.start ELSE day = query.end

NextDay == /\ pc = "search" /\ queue = <<>>
           /\ phase = 3 /\ ~ LastOne
           /\ day' = IF Paths THEN day - 1 ELSE day + 1
           /\ phase' = 1
           /\ Restart
           /\ UNCHANGED <<inputs, pc, unit, pos, nodes, edges>>

Answer == /\ pc = "search" /\ queue = <<>>
          /\ phase = 3 /\ LastOne
          /\ pc' = "done"
          /\ UNCHANGED <<inputs, day, phase, queue, searched, unit, pos, nodes, edges>>

Next == \/ Refuse \/ Begin \/ NoIndex \/ NoUnit \/ NextUnit \/ NoAlert
        \/ Discover \/ Meet \/ NextHost \/ NextGraph \/ NextDay \/ Answer

SafetySpec == Init /\ [][Next]_vars

(* The peer lets the chaincode run.                                        *)
Spec == SafetySpec /\ WF_vars(Next)

-----------------------------------------------------------------------------
(* The types of the variables.                                             *)
TypeOK == /\ query \in Queries
          /\ ledger \in Ledgers
          /\ pc \in {"check", "search", "done", "error"}
          /\ day \in Days
          /\ phase \in 1..3
          /\ queue \in Seq(Hosts)
          /\ searched \subseteq Hosts
          /\ unit \in Nat \ {0}
          /\ pos \in Nat \ {0}
          /\ nodes \in Seq(Hosts)
          /\ edges \in [Hosts \X Hosts -> Seq(Days \X Graphs)]

(* Every host the search found hangs together with the one it started      *)
(* from: an edge leads on, in the direction of the search, to a host found *)
(* before.                                                                 *)
Connected == \A k \in DOMAIN nodes \ {1} : \E m \in 1..(k - 1) :
               edges[Between(nodes[k], nodes[m])] # <<>>

Units(l) == {l.units[k] : k \in {n \in DOMAIN l.units : l.blocks # NoData}} \ {NoData}

(* The alerts of a graph of one day that its units hold under their labels.*)
Alerts(l) == {e \in Hosts \X Hosts : \E u \in Units(l) :
                /\ e \in u.alerts
                /\ e[1] \in Range(u.rowIPs) /\ e[2] \in Range(u.columnIPs)}

(* Every edge stands for alerts the ledger holds for a day of the query,   *)
(* between two hosts of the graph.                                         *)
EdgesAreAlerts == \A e \in Hosts \X Hosts : \A a \in Range(edges[e]) :
  /\ query.start <= a[1] /\ a[1] <= query.end
  /\ e \in Alerts(ledger[a[1]][a[2]])
  /\ e[1] \in Range(nodes) /\ e[2] \in Range(nodes)

(* No alert is reported twice on an edge, though hosts are met again and   *)
(* again and every graph is searched anew from all of them.                *)
AlertsOnce == \A e \in Hosts \X Hosts : IsInjective(edges[e])

(* The answer is made from whole graphs: if a graph of a day is missing or *)
(* lacks a unit, as while it is being replicated, there is none.           *)
AnswerIsComplete == pc = "done" =>
  \A d \in query.start..query.end, g \in Graphs :
    /\ ledger[d][g].blocks # NoData
    /\ NoData \notin Range(ledger[d][g].units)

(* A host that was searched has all its neighbours in the graph; the       *)
(* attack paths from the outside then show all their alerts.               *)
SearchedIsClosed == pc \in {"search", "done"} =>
  \A h \in searched, other \in Hosts :
    Between(other, h) \in Alerts(Stored) =>
      /\ other \in Range(nodes)
      /\ Paths /\ Graph # "G2" => <<day, Graph>> \in Range(edges[Between(other, h)])

(* Hosts that alerts of one graph connect with those of S, in one step and *)
(* in any number of steps.                                                 *)
Across1(S, l) == S \union {h \in Hosts : \E s \in S : Between(h, s) \in Alerts(l)}
AcrossAll(S, l) == {h \in Hosts : \A T \in SUBSET Hosts :
                      (S \subseteq T /\ Across1(T, l) \subseteq T) => h \in T}

(* The hosts that should be found on the k-th day of the search.           *)
DayOf(k) == IF Paths THEN query.end + 1 - k ELSE query.start + k - 1
FoundOn(S, l) == IF Paths THEN Across1(Across1(AcrossAll(S, l["G2"]), l["G1"]), l["G3"])
                          ELSE AcrossAll(Across1(Across1(S, l["G1"]), l["G3"]), l["G2"])
Found[k \in Nat] == IF k = 0 THEN {query.host} ELSE FoundOn(Found[k - 1], ledger[DayOf(k)])

(* The answer's hosts are those the alerts connect with the one asked for, *)
(* whatever the order of the units, labels and hosts in the queue.         *)
FindsTheHosts == pc = "done" =>
                   Range(nodes) = Found[query.end + 1 - query.start]

(* Every query ends, also when the alerts run in circles.                  *)
QueryEnds == <>(pc \in {"done", "error"})
=============================================================================
