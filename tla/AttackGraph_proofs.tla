-------------------------- MODULE AttackGraph_proofs --------------------------
(***************************************************************************)
(* Safety of AttackGraph for any hosts, days, ledgers and units.           *)
(***************************************************************************)
EXTENDS AttackGraph, WellFoundedInduction, TLAPS

-----------------------------------------------------------------------------
(* Induction, and functions defined by it.                                 *)

(* The natural numbers lie in every set that has 0 and each successor.     *)
LEMMA LessThanWF == IsWellFoundedOn({p \in Nat \X Nat : p[1] < p[2]}, Nat)
BY NatLessThanWellFounded DEF OpToRel

LEMMA SetInduction ==
  ASSUME NEW S, 0 \in S, \A n \in Nat : n \in S => n + 1 \in S
  PROVE  Nat \subseteq S
<1> DEFINE R == {p \in Nat \X Nat : p[1] < p[2]}
           T == Nat \ S
<1>1. SUFFICES ASSUME T # {} PROVE FALSE
  OBVIOUS
<1>2. PICK x \in T : \A y \in T : <<y, x>> \notin R
  <2> HIDE DEF T, R
  <2>1. IsWellFoundedOn(R, Nat)
    BY LessThanWF DEF R
  <2>2. T \subseteq Nat
    BY DEF T
  <2>3. QED BY <2>1, <2>2, <1>1, WFMin
<1>3. x \in Nat /\ x # 0 /\ x - 1 \in Nat
  OBVIOUS
<1>4. x - 1 \in T
  BY <1>3
<1>5. <<x - 1, x>> \in R
  BY <1>3
<1>6. QED BY <1>2, <1>4, <1>5

(* g follows the definition by base and step as far as n; as far as both   *)
(* go, two such functions agree.                                           *)
UpTo(n, g, T, base, step) == /\ g \in [0..n -> T]
                             /\ g[0] = base
                             /\ \A k \in 0..n : k # n => g[k + 1] = step[<<k, g[k]>>]

LEMMA UpToNext ==
  ASSUME NEW T, NEW base \in T, NEW step \in [Nat \X T -> T],
         NEW n \in Nat, NEW g, UpTo(n, g, T, base, step)
  PROVE  \E h : UpTo(n + 1, h, T, base, step)
<1> DEFINE last == step[<<n, g[n]>>]
           h == [k \in 0..(n + 1) |-> IF k = n + 1 THEN last ELSE g[k]]
<1>1. last \in T /\ \A k \in 0..n : g[k] \in T
  BY DEF UpTo
<1> HIDE DEF last
<1>2. h \in [0..(n + 1) -> T] /\ h[n + 1] = last /\ \A k \in 0..n : h[k] = g[k]
  BY <1>1
<1> HIDE DEF h
<1>3. ASSUME NEW k \in 0..(n + 1), k # n + 1
      PROVE  h[k + 1] = step[<<k, h[k]>>]
  <2>1. k \in 0..n
    BY <1>3
  <2>2. CASE k = n
    BY <1>2, <2>1, <2>2 DEF last
  <2>3. CASE k # n
    <3>1. k + 1 \in 0..n
      BY <2>1, <2>3
    <3>2. h[k + 1] = g[k + 1] /\ h[k] = g[k]
      BY <1>2, <2>1, <3>1
    <3>3. QED BY <2>1, <2>3, <3>2 DEF UpTo
  <2>4. QED BY <2>2, <2>3
<1>4. h[0] = base
  BY <1>2 DEF UpTo
<1>5. UpTo(n + 1, h, T, base, step)
  BY <1>2, <1>3, <1>4 DEF UpTo
<1>6. QED BY <1>5

LEMMA UpToAgree ==
  ASSUME NEW T, NEW base, NEW step, NEW n \in Nat, NEW m \in Nat, n <= m,
         NEW g, UpTo(n, g, T, base, step), NEW h, UpTo(m, h, T, base, step)
  PROVE  g[n] = h[n]
<1> DEFINE S == {k \in Nat : k <= n => g[k] = h[k]}
<1>1. 0 \in S
  BY DEF UpTo
<1>2. ASSUME NEW k \in Nat, k \in S
      PROVE  k + 1 \in S
  <2>1. SUFFICES ASSUME k + 1 <= n PROVE g[k + 1] = h[k + 1]
    OBVIOUS
  <2>2. /\ k \in 0..n /\ k # n /\ k \in 0..m /\ k # m
        /\ g[k] = h[k]
    BY <1>2, <2>1
  <2>3. QED BY <2>2 DEF UpTo
<1> HIDE DEF S
<1>3. Nat \subseteq S
  BY <1>1, <1>2, SetInduction
<1>4. QED BY <1>3 DEF S

(* A function may be defined by its value at 0 and a step.                 *)
Defined(f, T, base, step) == /\ f \in [Nat -> T]
                             /\ f[0] = base
                             /\ \A n \in Nat : f[n + 1] = step[<<n, f[n]>>]

LEMMA RecursionDefines ==
  ASSUME NEW T, NEW base \in T, NEW step \in [Nat \X T -> T]
  PROVE  \E f : Defined(f, T, base, step)
<1> DEFINE S == {n \in Nat : \E g : UpTo(n, g, T, base, step)}
           G(n) == CHOOSE g : UpTo(n, g, T, base, step)
           f == [n \in Nat |-> G(n)[n]]
<1>1. 0 \in S
  <2>1. UpTo(0, [k \in 0..0 |-> base], T, base, step)
    BY DEF UpTo
  <2>2. QED BY <2>1
<1>2. \A n \in Nat : n \in S => n + 1 \in S
  BY UpToNext
<1>3. Nat \subseteq S
  <2> HIDE DEF S
  <2>1. QED BY <1>1, <1>2, SetInduction
<1>4. \A n \in Nat : UpTo(n, G(n), T, base, step)
  BY <1>3
<1> HIDE DEF G
<1>5. ASSUME NEW n \in Nat
      PROVE  f[n] \in T
  <2>1. G(n) \in [0..n -> T]
    BY <1>4 DEF UpTo
  <2>2. QED BY <2>1
<1>6. f[0] = base
  BY <1>4 DEF UpTo
<1>7. ASSUME NEW n \in Nat
      PROVE  f[n + 1] = step[<<n, f[n]>>]
  <2>1. UpTo(n, G(n), T, base, step) /\ UpTo(n + 1, G(n + 1), T, base, step)
    BY <1>4
  <2>2. G(n)[n] = G(n + 1)[n]
    BY <2>1, UpToAgree
  <2>3. G(n + 1)[n + 1] = step[<<n, G(n + 1)[n]>>]
    BY <2>1 DEF UpTo
  <2>4. QED BY <2>2, <2>3
<1>8. Defined(f, T, base, step)
  BY <1>5, <1>6, <1>7 DEF Defined
<1>9. QED BY <1>8

-----------------------------------------------------------------------------

Searching == pc \in {"search", "done"}

(* The loops are where the queue says: between hosts they are at their     *)
(* start.                                                                  *)
Loops == /\ Searching => /\ query.start <= day /\ day <= query.end
                         /\ nodes # <<>>
                         /\ Range(queue) \subseteq Range(nodes)
                         /\ queue = <<>> => searched # {} /\ unit = 1
                         /\ unit > 1 => Stored.blocks # NoData
                         /\ pos > 1 => Concerned
         /\ pc = "check" => /\ nodes = <<>> /\ queue = <<>> /\ searched = {}
                            /\ unit = 1 /\ pos = 1 /\ phase = 1
         /\ pc = "done" => queue = <<>> /\ phase = 3 /\ LastOne

Whole(l) == l.blocks # NoData /\ \A k \in DOMAIN l.units : l.units[k] # NoData

(* The graphs searched before the current one.                             *)
Passed(d, g) == \/ IF Paths THEN d > day /\ d <= query.end
                            ELSE query.start <= d /\ d < day
                \/ d = day /\ \E k \in 1..(phase - 1) : Order[k] = g

(* What was searched was complete.                                         *)
Covered == Searching =>
  /\ \A d \in Days, g \in Graphs : Passed(d, g) => Whole(ledger[d][g])
  /\ searched # {} => Whole(Stored)
  /\ \A k \in 1..(unit - 1) : k \in DOMAIN Stored.units => Stored.units[k] # NoData

(* A host is in the graph, and if the search shows all alerts, this one.   *)
Known(other, host) ==
  /\ other \in Range(nodes)
  /\ Paths /\ Graph # "G2" => <<day, Graph>> \in Range(edges[Between(other, host)])

Neighbours(u, host, p) == host \in Range(Labels(u)) /\ Between(Across(u)[p], host) \in u.alerts

(* The visited host's neighbours up to where the loops are were seen.      *)
Progress == (pc = "search" /\ queue # <<>>) =>
  /\ \A k \in 1..(unit - 1) :
       (k \in DOMAIN Stored.units /\ Stored.units[k] # NoData) =>
          \A p \in DOMAIN Across(Stored.units[k]) :
             Neighbours(Stored.units[k], Visited, p)
                => Known(Across(Stored.units[k])[p], Visited)
  /\ Concerned => \A p \in 1..(pos - 1) :
                    (p \in DOMAIN Across(Unit) /\ Neighbours(Unit, Visited, p))
                       => Known(Across(Unit)[p], Visited)

IInv == /\ TypeOK
        /\ Loops
        /\ Covered
        /\ Progress
        /\ Connected
        /\ EdgesAreAlerts
        /\ SearchedIsClosed

USE HostsAssumption, DaysAssumption, NoDataAssumption, LedgersAssumption DEF Days, Graphs

(* The graph being searched is one of the ledger's.                        *)
LEMMA StoredType ==
  ASSUME TypeOK
  PROVE  /\ Graph \in Graphs
         /\ Stored \in GraphType
         /\ Stored.blocks # NoData => /\ Stored.blocks \in Nat
                                      /\ Stored.blocks = Len(Stored.units)
         /\ \A k \in DOMAIN Stored.units :
              Stored.units[k] # NoData => Stored.units[k] \in UnitType
<1>1. Graph \in Graphs
  BY DEF TypeOK, Graph, Order
<1>2. /\ ledger \in [Days -> [Graphs -> GraphType]]
      /\ \A d \in Days, g \in Graphs :
           ledger[d][g].blocks # NoData => ledger[d][g].blocks = Len(ledger[d][g].units)
  BY DEF TypeOK
<1>3. day \in Days
  BY DEF TypeOK
<1>4. Stored \in GraphType
  BY <1>1, <1>2, <1>3 DEF Stored
<1>5. /\ Stored.blocks \in Nat \union {NoData}
      /\ Stored.units \in Seq(UnitType \union {NoData})
  BY <1>4 DEF GraphType
<1>6. Stored.blocks # NoData => Stored.blocks = Len(Stored.units)
  BY <1>1, <1>2, <1>3 DEF Stored
<1>7. QED BY <1>1, <1>4, <1>5, <1>6

(* A unit's labels are hosts.                                              *)
LEMMA UnitLabels ==
  ASSUME NEW u \in UnitType
  PROVE  /\ Labels(u) \in Seq(Hosts)
         /\ Across(u) \in Seq(Hosts)
         /\ u.alerts \subseteq Hosts \X Hosts
         /\ \A host, p : (p \in DOMAIN Across(u) /\ Neighbours(u, host, p)) =>
              /\ Between(Across(u)[p], host)[1] \in Range(u.rowIPs)
              /\ Between(Across(u)[p], host)[2] \in Range(u.columnIPs)
BY DEF UnitType, Labels, Across, Neighbours, Between, Range

(* The unit the loops are at.                                              *)
LEMMA AtTheUnit ==
  ASSUME TypeOK, AtUnit
  PROVE  /\ unit \in DOMAIN Stored.units
         /\ Unit # NoData => Unit \in UnitType
         /\ Visited \in Range(queue)
         /\ Visited \in Hosts
<1>1. unit \in 1..Len(Stored.units) /\ Stored.units \in Seq(UnitType \union {NoData})
  BY StoredType DEF TypeOK, AtUnit, GraphType
<1>2. unit \in DOMAIN Stored.units
  BY <1>1
<1>3. Visited = queue[1] /\ 1 \in DOMAIN queue
  BY DEF TypeOK, AtUnit, Visiting, Visited
<1>4. QED BY <1>2, <1>3, StoredType DEF TypeOK, Unit, Range

(* The alert the loops look at.                                            *)
LEMMA LookingAt ==
  ASSUME TypeOK, Looking
  PROVE  /\ pos \in DOMAIN Across(Unit)
         /\ Other \in Hosts
         /\ Edge \in Hosts \X Hosts
         /\ Edge \in Unit.alerts => Edge \in Alerts(Stored)
<1>1. /\ Unit \in UnitType /\ Visited \in Hosts /\ unit \in DOMAIN Stored.units
      /\ Stored.blocks # NoData
  BY AtTheUnit DEF Looking, Concerned, AtUnit
<1>2. Across(Unit) \in Seq(Hosts)
  BY <1>1, UnitLabels
<1>3. pos \in DOMAIN Across(Unit)
  BY <1>2 DEF Looking, TypeOK
<1>4. Other \in Hosts
  BY <1>2, <1>3 DEF Other
<1>5. Edge \in Hosts \X Hosts
  BY <1>1, <1>4 DEF Edge, Between
<1>6. ASSUME Edge \in Unit.alerts
      PROVE  Edge \in Alerts(Stored)
  <2>1. Neighbours(Unit, Visited, pos)
    BY <1>6 DEF Looking, Concerned, Neighbours, Edge, Other
  <2>2. Edge[1] \in Range(Unit.rowIPs) /\ Edge[2] \in Range(Unit.columnIPs)
    BY <1>1, <1>3, <2>1, UnitLabels DEF Edge, Other
  <2>3. Unit \in Units(Stored)
    BY <1>1, NoDataAssumption DEF Units, Unit
  <2>4. QED BY <1>5, <1>6, <2>2, <2>3 DEF Alerts
<1>7. QED BY <1>3, <1>4, <1>5, <1>6

(* An alert of the graph is in one of its units.                           *)
LEMMA AlertInUnit ==
  ASSUME TypeOK, NEW host, NEW other, Between(other, host) \in Alerts(Stored)
  PROVE  \E k \in DOMAIN Stored.units :
           /\ Stored.units[k] # NoData
           /\ \E p \in DOMAIN Across(Stored.units[k]) :
                /\ Across(Stored.units[k])[p] = other
                /\ Neighbours(Stored.units[k], host, p)
<1>1. PICK u \in Units(Stored) : /\ Between(other, host) \in u.alerts
                                 /\ Between(other, host)[1] \in Range(u.rowIPs)
                                 /\ Between(other, host)[2] \in Range(u.columnIPs)
  BY DEF Alerts
<1>2. PICK k \in DOMAIN Stored.units : u = Stored.units[k] /\ u # NoData
  BY <1>1 DEF Units
<1>3. other \in Range(Across(u)) /\ host \in Range(Labels(u))
  BY <1>1 DEF Between, Across, Labels
<1>4. PICK p \in DOMAIN Across(u) : Across(u)[p] = other
  BY <1>3 DEF Range
<1>5. Neighbours(u, host, p)
  BY <1>1, <1>3, <1>4 DEF Neighbours
<1>6. QED BY <1>2, <1>4, <1>5

(* The invariant holds at the start.                                       *)
LEMMA InitIInv == Init => IInv
<1> SUFFICES ASSUME Init PROVE IInv
  OBVIOUS
<1>1. TypeOK
  BY DEF Init, TypeOK, Queries
<1>2. Loops
  BY DEF Init, Loops, Searching
<1>3. Covered /\ Progress /\ SearchedIsClosed
  BY DEF Init, Covered, Searching, Progress, SearchedIsClosed
<1>4. Connected /\ EdgesAreAlerts
  BY DEF Init, Connected, EdgesAreAlerts, Range
<1>5. QED BY <1>1, <1>2, <1>3, <1>4 DEF IInv

(* A query that fails leaves its graph alone.                              *)
LEMMA FailStep ==
  ASSUME IInv, Refuse \/ NoIndex \/ NoUnit
  PROVE  IInv'
<1>1. /\ pc' = "error"
      /\ UNCHANGED <<query, ledger, day, phase, queue, searched, unit, pos, nodes, edges>>
  BY DEF Refuse, NoIndex, NoUnit, inputs
<1>2. TypeOK'
  BY <1>1 DEF IInv, TypeOK
<1>3. Loops' /\ Covered' /\ Progress' /\ SearchedIsClosed'
  BY <1>1 DEF Loops, Covered, Searching, Progress, SearchedIsClosed
<1>4. Connected' /\ EdgesAreAlerts'
  BY <1>1 DEF IInv, Connected, EdgesAreAlerts, Between, Paths, Alerts, Units
<1>5. QED BY <1>2, <1>3, <1>4 DEF IInv

(* The search begins with a graph of one host and no edges.                *)
LEMMA BeginStep ==
  ASSUME IInv, Begin
  PROVE  IInv'
<1>1. /\ pc = "check" /\ pc' = "search"
      /\ query \in Queries /\ ledger \in Ledgers
      /\ UNCHANGED <<query, ledger, phase, searched, unit, pos, edges>>
      /\ nodes' = <<query.host>> /\ queue' = <<query.host>>
      /\ searched = {} /\ unit = 1 /\ pos = 1 /\ phase = 1
  BY DEF IInv, TypeOK, Loops, Begin, inputs
<1>2. /\ query.host \in Hosts /\ query.start \in Days /\ query.end \in Days
      /\ query.start <= query.end
      /\ day' = IF Paths THEN query.end ELSE query.start
  BY <1>1 DEF Queries, Begin, Acceptable
<1>3. TypeOK'
  BY <1>1, <1>2 DEF IInv, TypeOK
<1>4. Loops'
  BY <1>1, <1>2 DEF Loops, Searching, Range
<1>5. Covered'
  BY <1>1, <1>2 DEF Covered, Passed, Paths
<1>6. Progress' /\ SearchedIsClosed'
  BY <1>1 DEF Progress, SearchedIsClosed
<1>7. Connected'
  BY <1>1 DEF Connected
<1>8. EdgesAreAlerts'
  <2>1. \A e \in Hosts \X Hosts : edges[e] = <<>>
    <3>1. SUFFICES ASSUME NEW e \in Hosts \X Hosts, edges[e] # <<>>
                   PROVE  FALSE
      OBVIOUS
    <3>2. edges[e] \in Seq(Days \X Graphs)
      BY DEF IInv, TypeOK
    <3>3. edges[e][1] \in Range(edges[e])
      BY <3>1, <3>2 DEF Range
    <3>4. e[1] \in Range(nodes)
      BY <3>3 DEF IInv, EdgesAreAlerts
    <3>5. nodes = <<>>
      BY <1>1 DEF IInv, Loops
    <3>6. QED BY <3>4, <3>5 DEF Range
  <2>2. QED BY <1>1, <2>1 DEF EdgesAreAlerts, Range
<1>9. QED BY <1>3, <1>4, <1>5, <1>6, <1>7, <1>8 DEF IInv

(* Connected and EdgesAreAlerts are about the graph only.                  *)
LEMMA SameGraph ==
  ASSUME IInv, UNCHANGED <<query, ledger, nodes, edges>>
  PROVE  Connected' /\ EdgesAreAlerts'
BY DEF IInv, Connected, EdgesAreAlerts, Between, Paths, Alerts, Units

(* While one graph is searched it stays the one that is searched, and what *)
(* is known stays known.                                                   *)
LEMMA SameStored ==
  ASSUME UNCHANGED <<query, ledger, day, phase>>
  PROVE  /\ Paths' = Paths /\ Graph' = Graph /\ Stored' = Stored
         /\ (Alerts(Stored))' = Alerts(Stored)
         /\ LastOne' = LastOne
         /\ \A u : Labels(u)' = Labels(u) /\ Across(u)' = Across(u)
         /\ \A u, host, p : Neighbours(u, host, p)' = Neighbours(u, host, p)
         /\ \A other, host : Between(other, host)' = Between(other, host)
         /\ \A d, g : Passed(d, g)' = Passed(d, g)
BY DEF Paths, Graph, Order, Stored, Alerts, Units, LastOne, Labels, Across,
       Neighbours, Between, Passed

LEMMA StaysKnown ==
  ASSUME UNCHANGED <<query, ledger, day, phase>>,
         Range(nodes) \subseteq Range(nodes'),
         \A e \in Hosts \X Hosts : Range(edges[e]) \subseteq Range(edges'[e]),
         NEW other, NEW host, Between(other, host) \in Hosts \X Hosts,
         Known(other, host)
  PROVE  Known(other, host)'
BY SameStored DEF Known

(* Going on to the next unit: the one left behind was there, and was       *)
(* looked through if it names the visited host.                            *)
LEMMA NextUnitStep ==
  ASSUME IInv, NextUnit
  PROVE  IInv'
<1>1. /\ TypeOK /\ AtUnit /\ Unit # NoData /\ pc = "search" /\ queue # <<>>
      /\ Visited \notin Range(Labels(Unit)) \/ pos > Len(Across(Unit))
      /\ unit' = unit + 1 /\ pos' = 1
      /\ UNCHANGED <<query, ledger, pc, day, phase, queue, searched, nodes, edges>>
  BY DEF IInv, NextUnit, inputs, AtUnit, Visiting
<1>2. /\ UNCHANGED <<Paths, Graph, Stored, LastOne, Visited>>
      /\ (Alerts(Stored))' = Alerts(Stored)
      /\ \A d, g : Passed(d, g)' = Passed(d, g)
  BY <1>1, SameStored DEF Visited
<1>3. TypeOK'
  BY <1>1 DEF TypeOK
<1>4. Loops'
  BY <1>1, <1>2 DEF IInv, Loops, Searching, AtUnit, TypeOK
<1>5. Covered'
  <2>1. \A k \in 1..unit : k \in DOMAIN Stored.units => Stored.units[k] # NoData
    <3>1. \A k \in 1..(unit - 1) : k \in DOMAIN Stored.units => Stored.units[k] # NoData
      BY <1>1 DEF IInv, Covered, Searching
    <3>2. \A k \in 1..unit : k = unit \/ k \in 1..(unit - 1)
      BY <1>1 DEF TypeOK
    <3>3. Stored.units[unit] # NoData
      BY <1>1 DEF Unit
    <3>4. QED BY <3>1, <3>2, <3>3
  <2>2. (unit - 1)' = unit
    BY <1>1 DEF TypeOK
  <2>3. /\ \A d \in Days, g \in Graphs : Passed(d, g) => Whole(ledger[d][g])
        /\ searched # {} => Whole(Stored)
    BY <1>1 DEF IInv, Covered, Searching
  <2>4. \A d \in Days, g \in Graphs : Passed(d, g)' => Whole(ledger[d][g])'
    BY <1>1, <1>2, <2>3 DEF Whole
  <2>5. searched' # {} => Whole(Stored)'
    BY <1>1, <1>2, <2>3 DEF Whole
  <2>6. \A k \in 1..(unit - 1)' :
          (k \in DOMAIN Stored.units => Stored.units[k] # NoData)'
    BY <1>2, <2>1, <2>2
  <2>7. QED BY <2>4, <2>5, <2>6 DEF Covered
<1>6. Progress'
  <2>1. ASSUME NEW p \in DOMAIN Across(Unit), Neighbours(Unit, Visited, p)
        PROVE  Known(Across(Unit)[p], Visited)
    <3>1. Visited \in Range(Labels(Unit))
      BY <2>1 DEF Neighbours
    <3>2. Across(Unit) \in Seq(Hosts)
      BY <1>1, AtTheUnit, UnitLabels
    <3>3. p \in 1..(pos - 1)
      BY <1>1, <2>1, <3>1, <3>2 DEF TypeOK
    <3>4. QED BY <1>1, <2>1, <3>1, <3>3 DEF IInv, Progress, Concerned
  <2>2. \A k \in 1..unit : (k \in DOMAIN Stored.units /\ Stored.units[k] # NoData) =>
          \A p \in DOMAIN Across(Stored.units[k]) :
             Neighbours(Stored.units[k], Visited, p)
                => Known(Across(Stored.units[k])[p], Visited)
    <3>1. SUFFICES ASSUME NEW k \in 1..unit,
                          k \in DOMAIN Stored.units, Stored.units[k] # NoData,
                          NEW p \in DOMAIN Across(Stored.units[k]),
                          Neighbours(Stored.units[k], Visited, p)
                   PROVE  Known(Across(Stored.units[k])[p], Visited)
      OBVIOUS
    <3>2. CASE k = unit
      BY <2>1, <3>1, <3>2 DEF Unit
    <3>3. CASE k # unit
      <4>1. k \in 1..(unit - 1)
        BY <1>1, <3>3 DEF TypeOK
      <4>2. QED BY <1>1, <3>1, <4>1 DEF IInv, Progress
    <3>4. QED BY <3>2, <3>3
  <2>3. \A u : Labels(u)' = Labels(u) /\ Across(u)' = Across(u)
    BY <1>1, SameStored
  <2>4. \A u, host, p : Neighbours(u, host, p)' = Neighbours(u, host, p)
    BY <1>1, SameStored
  <2>5. \A other, host : Known(other, host)' = Known(other, host)
    BY <1>1, <1>2, SameStored DEF Known
  <2>6. (unit - 1)' = unit /\ (pos - 1)' = 0
    BY <1>1 DEF TypeOK
  <2>7. QED BY <1>1, <1>2, <2>2, <2>3, <2>4, <2>5, <2>6 DEF Progress
<1>7. SearchedIsClosed'
  BY <1>1, <1>2, SameStored DEF IInv, SearchedIsClosed
<1>8. QED BY <1>1, <1>3, <1>4, <1>5, <1>6, <1>7, SameGraph DEF IInv

(* Another label without an alert.                                         *)
LEMMA NoAlertStep ==
  ASSUME IInv, NoAlert
  PROVE  IInv'
<1>1. /\ TypeOK /\ Looking /\ Concerned /\ pc = "search" /\ queue # <<>>
      /\ Edge \notin Unit.alerts
      /\ pos' = pos + 1
      /\ UNCHANGED <<query, ledger, pc, day, phase, queue, searched, unit, nodes, edges>>
  BY DEF IInv, NoAlert, inputs, Looking, Concerned, AtUnit, Visiting
<1>2. /\ UNCHANGED <<Paths, Graph, Stored, LastOne, Visited, Unit, Concerned>>
      /\ (Alerts(Stored))' = Alerts(Stored)
      /\ \A d, g : Passed(d, g)' = Passed(d, g)
  BY <1>1, SameStored DEF Visited, Unit, Concerned, AtUnit, Visiting
<1>3. TypeOK'
  BY <1>1 DEF TypeOK
<1>4. Loops'
  BY <1>1, <1>2 DEF IInv, Loops, Searching
<1>5. Covered'
  BY <1>1, <1>2 DEF IInv, Covered, Searching
<1>6. Progress'
  <2>1. ~ Neighbours(Unit, Visited, pos)
    BY <1>1 DEF Neighbours, Edge, Other
  <2>2. \A p \in 1..pos : (p \in DOMAIN Across(Unit) /\ Neighbours(Unit, Visited, p))
                             => Known(Across(Unit)[p], Visited)
    <3>1. \A p \in 1..pos : p = pos \/ p \in 1..(pos - 1)
      BY <1>1 DEF TypeOK
    <3>2. QED BY <1>1, <2>1, <3>1 DEF IInv, Progress
  <2>3. \A u : Labels(u)' = Labels(u) /\ Across(u)' = Across(u)
    BY <1>1, SameStored
  <2>4. \A u, host, p : Neighbours(u, host, p)' = Neighbours(u, host, p)
    BY <1>1, SameStored
  <2>5. \A other, host : Known(other, host)' = Known(other, host)
    BY <1>1, <1>2, SameStored DEF Known
  <2>6. (unit - 1)' = unit - 1 /\ (pos - 1)' = pos
    BY <1>1 DEF TypeOK
  <2>7. QED BY <1>1, <1>2, <2>2, <2>3, <2>4, <2>5, <2>6 DEF IInv, Progress
<1>7. SearchedIsClosed'
  BY <1>1, <1>2, SameStored DEF IInv, SearchedIsClosed
<1>8. QED BY <1>1, <1>3, <1>4, <1>5, <1>6, <1>7, SameGraph DEF IInv

(* What Append does to the elements of a sequence.                         *)
LEMMA AppendRange ==
  ASSUME NEW S, NEW s \in Seq(S), NEW e \in S
  PROVE  /\ Append(s, e) \in Seq(S)
         /\ Range(Append(s, e)) = Range(s) \union {e}
         /\ Append(s, e) # <<>>
         /\ \A k \in DOMAIN s : Append(s, e)[k] = s[k]
         /\ s # <<>> => Head(Append(s, e)) = Head(s)
<1>1. /\ Append(s, e) \in Seq(S)
      /\ DOMAIN Append(s, e) = 1..(Len(s) + 1)
      /\ \A k \in 1..Len(s) : Append(s, e)[k] = s[k]
      /\ Append(s, e)[Len(s) + 1] = e
      /\ Len(s) \in Nat /\ DOMAIN s = 1..Len(s)
  OBVIOUS
<1>2. Range(Append(s, e)) \subseteq Range(s) \union {e}
  <2>1. SUFFICES ASSUME NEW k \in 1..(Len(s) + 1)
                 PROVE  Append(s, e)[k] \in Range(s) \union {e}
    BY <1>1 DEF Range
  <2>2. CASE k = Len(s) + 1
    BY <1>1, <2>2
  <2>3. CASE k \in 1..Len(s)
    BY <1>1, <2>3 DEF Range
  <2>4. QED BY <1>1, <2>2, <2>3
<1>3. Range(s) \subseteq Range(Append(s, e))
  <2>1. SUFFICES ASSUME NEW k \in 1..Len(s)
                 PROVE  s[k] \in Range(Append(s, e))
    BY <1>1 DEF Range
  <2>2. k \in DOMAIN Append(s, e) /\ Append(s, e)[k] = s[k]
    BY <1>1
  <2>3. QED BY <2>2 DEF Range
<1>4. e \in Range(Append(s, e))
  <2>1. Len(s) + 1 \in DOMAIN Append(s, e)
    BY <1>1
  <2>2. QED BY <1>1, <2>1 DEF Range
<1>5. Append(s, e) # <<>> /\ (s # <<>> => Head(Append(s, e)) = Head(s))
  OBVIOUS
<1>6. QED BY <1>1, <1>2, <1>3, <1>4, <1>5

(* An alert puts at most one host into the graph and one record on one     *)
(* edge, and may queue the host; nothing that was known is lost.           *)
Noted == /\ Looking
         /\ Edge \in Unit.alerts
         /\ nodes' \in {nodes, Append(nodes, Other)}
         /\ Other \in Range(nodes')
         /\ \/ Record(Edge)
            \/ UNCHANGED edges /\ ~ (Paths /\ Graph # "G2") /\ UNCHANGED nodes
         /\ queue' \in {queue, Append(queue, Other)}
         /\ pos' = pos + 1
         /\ UNCHANGED <<query, ledger, pc, day, phase, searched, unit>>

LEMMA DiscoverNotes ==
  ASSUME TypeOK, Discover
  PROVE  Noted
<1>1. Other \in Hosts
  BY LookingAt DEF Discover
<1>2. Other \in Range(Append(nodes, Other))
  BY <1>1, AppendRange DEF TypeOK
<1>3. QED BY <1>2 DEF Discover, Noted, Enqueue, inputs

LEMMA MeetNotes ==
  ASSUME TypeOK, Meet
  PROVE  Noted
BY DEF Meet, Noted, Enqueue, inputs

(* What a step that notes an alert does to hosts and edges.                *)
LEMMA NotedGraph ==
  ASSUME IInv, Noted
  PROVE  /\ Other \in Hosts /\ Edge \in Hosts \X Hosts /\ <<day, Graph>> \in Days \X Graphs
         /\ nodes' \in Seq(Hosts) /\ Range(nodes') = Range(nodes) \union {Other}
         /\ \A k \in DOMAIN nodes : nodes'[k] = nodes[k]
         /\ queue' \in Seq(Hosts) /\ queue' # <<>>
         /\ Range(queue') \subseteq Range(queue) \union {Other}
         /\ Visited' = Visited
         /\ edges' \in [Hosts \X Hosts -> Seq(Days \X Graphs)]
         /\ \A e \in Hosts \X Hosts :
              /\ Range(edges[e]) \subseteq Range(edges'[e])
              /\ Range(edges'[e]) \subseteq Range(edges[e])
                     \union {a \in Days \X Graphs : e = Edge /\ a = <<day, Graph>>}
              /\ edges[e] # <<>> => edges'[e] # <<>>
         /\ \/ /\ <<day, Graph>> \in Range(edges'[Edge])
               /\ edges'[Edge] # <<>>
            \/ /\ ~ (Paths /\ Graph # "G2")
               /\ nodes' = nodes
<1>1. /\ TypeOK /\ Other \in Hosts /\ Edge \in Hosts \X Hosts
      /\ nodes \in Seq(Hosts) /\ queue \in Seq(Hosts) /\ queue # <<>>
  BY LookingAt DEF IInv, Noted, TypeOK, Looking, Concerned, AtUnit, Visiting
<1>2. <<day, Graph>> \in Days \X Graphs
  BY <1>1, StoredType DEF TypeOK
<1>3. /\ nodes' \in Seq(Hosts) /\ Range(nodes') = Range(nodes) \union {Other}
      /\ \A k \in DOMAIN nodes : nodes'[k] = nodes[k]
  <2>1. CASE nodes' = nodes
    BY <1>1, <2>1 DEF Noted
  <2>2. CASE nodes' = Append(nodes, Other)
    <3>1. /\ Append(nodes, Other) \in Seq(Hosts)
          /\ Range(Append(nodes, Other)) = Range(nodes) \union {Other}
          /\ \A k \in DOMAIN nodes : Append(nodes, Other)[k] = nodes[k]
      BY <1>1, AppendRange
    <3>2. QED BY <2>2, <3>1
  <2>3. QED BY <2>1, <2>2 DEF Noted
<1>4. /\ queue' \in Seq(Hosts) /\ queue' # <<>>
      /\ Range(queue') \subseteq Range(queue) \union {Other}
      /\ Visited' = Visited
  <2>1. CASE queue' = queue
    BY <1>1, <2>1 DEF Visited
  <2>2. CASE queue' = Append(queue, Other)
    <3>1. /\ Append(queue, Other) \in Seq(Hosts)
          /\ Range(Append(queue, Other)) = Range(queue) \union {Other}
          /\ Append(queue, Other) # <<>>
          /\ Head(Append(queue, Other)) = Head(queue)
      BY <1>1, AppendRange
    <3>2. QED BY <2>2, <3>1 DEF Visited
  <2>3. QED BY <2>1, <2>2 DEF Noted
<1>5. CASE Record(Edge)
  <2>1. edges[Edge] \in Seq(Days \X Graphs)
    BY <1>1 DEF TypeOK
  <2>2. /\ Append(edges[Edge], <<day, Graph>>) \in Seq(Days \X Graphs)
        /\ Range(Append(edges[Edge], <<day, Graph>>)) = Range(edges[Edge]) \union {<<day, Graph>>}
        /\ Append(edges[Edge], <<day, Graph>>) # <<>>
    <3> DEFINE Alert == Days \X Graphs
               q == edges[Edge]
               a == <<day, Graph>>
    <3>1. q \in Seq(Alert) /\ a \in Alert
      BY <1>2, <2>1
    <3> HIDE DEF Alert, q, a
    <3>2. /\ Append(q, a) \in Seq(Alert)
          /\ Range(Append(q, a)) = Range(q) \union {a}
          /\ Append(q, a) # <<>>
      BY <3>1, AppendRange
    <3>3. QED BY <3>2 DEF Alert, q, a
  <2>3. edges' = [edges EXCEPT ![Edge] = Append(edges[Edge], <<day, Graph>>)]
    BY <1>5 DEF Record
  <2>4. /\ edges'[Edge] = Append(edges[Edge], <<day, Graph>>)
        /\ \A e \in Hosts \X Hosts : e # Edge => edges'[e] = edges[e]
        /\ edges' \in [Hosts \X Hosts -> Seq(Days \X Graphs)]
    BY <1>1, <2>2, <2>3 DEF TypeOK
  <2>5. \A e \in Hosts \X Hosts :
          /\ Range(edges[e]) \subseteq Range(edges'[e])
          /\ Range(edges'[e]) \subseteq Range(edges[e])
                 \union {a \in Days \X Graphs : e = Edge /\ a = <<day, Graph>>}
          /\ edges[e] # <<>> => edges'[e] # <<>>
    <3>1. SUFFICES ASSUME NEW e \in Hosts \X Hosts
                   PROVE  /\ Range(edges[e]) \subseteq Range(edges'[e])
                          /\ Range(edges'[e]) \subseteq Range(edges[e])
                               \union {a \in Days \X Graphs : e = Edge /\ a = <<day, Graph>>}
                          /\ edges[e] # <<>> => edges'[e] # <<>>
      OBVIOUS
    <3>2. CASE e = Edge
      BY <1>2, <2>2, <2>4, <3>2
    <3>3. CASE e # Edge
      BY <2>4, <3>3
    <3>4. QED BY <3>2, <3>3
  <2>6. QED BY <1>1, <1>2, <1>3, <1>4, <2>2, <2>4, <2>5
<1>6. CASE UNCHANGED edges /\ ~ (Paths /\ Graph # "G2") /\ UNCHANGED nodes
  BY <1>1, <1>2, <1>3, <1>4, <1>6 DEF TypeOK
<1>7. QED BY <1>5, <1>6 DEF Noted

(* Noting an alert keeps the invariant.                                    *)
LEMMA NotedStep ==
  ASSUME IInv, Noted
  PROVE  IInv'
<1>1. /\ TypeOK /\ Looking /\ Concerned /\ AtUnit /\ pc = "search" /\ queue # <<>>
      /\ Edge \in Unit.alerts /\ Unit # NoData
      /\ pos' = pos + 1
      /\ UNCHANGED <<query, ledger, pc, day, phase, searched, unit>>
  BY DEF IInv, Noted, Looking, Concerned, AtUnit, Visiting
<1>2. /\ UNCHANGED <<Paths, Graph, Stored, LastOne, Visited, Unit, Concerned>>
      /\ (Alerts(Stored))' = Alerts(Stored)
      /\ \A d, g : Passed(d, g)' = Passed(d, g)
  BY <1>1, NotedGraph, SameStored DEF Unit, Concerned, AtUnit, Visiting
<1>3. TypeOK'
  BY <1>1, NotedGraph DEF TypeOK
<1>4. nodes # <<>> /\ nodes' # <<>> /\ Range(queue) \subseteq Range(nodes)
  BY <1>1 DEF IInv, Loops, Searching, Noted, TypeOK
<1>5. Loops'
  BY <1>1, <1>2, <1>4, NotedGraph DEF IInv, Loops, Searching
<1>6. Covered'
  BY <1>1, <1>2 DEF IInv, Covered, Searching
<1>7. \A other, host : (Between(other, host) \in Hosts \X Hosts /\ Known(other, host))
                          => Known(other, host)'
  BY <1>1, NotedGraph, StaysKnown
<1>8. \A other, host : (other = Other /\ host = Visited) => Known(other, host)'
  BY <1>1, <1>2, NotedGraph, SameStored DEF Known, Edge
<1>9. Progress'
  <2>1. ASSUME NEW k \in 1..(unit - 1), k \in DOMAIN Stored.units, Stored.units[k] # NoData,
               NEW p \in DOMAIN Across(Stored.units[k]),
               Neighbours(Stored.units[k], Visited, p)
        PROVE  /\ Known(Across(Stored.units[k])[p], Visited)
               /\ Between(Across(Stored.units[k])[p], Visited) \in Hosts \X Hosts
    <3>1. Stored.units[k] \in UnitType
      BY <1>1, <2>1, StoredType
    <3>2. Between(Across(Stored.units[k])[p], Visited) \in Hosts \X Hosts
      BY <2>1, <3>1, UnitLabels DEF Neighbours
    <3>3. QED BY <1>1, <2>1, <3>2 DEF IInv, Progress
  <2>2. ASSUME NEW p \in 1..pos, p \in DOMAIN Across(Unit), Neighbours(Unit, Visited, p)
        PROVE  \/ Across(Unit)[p] = Other
               \/ /\ Known(Across(Unit)[p], Visited)
                  /\ Between(Across(Unit)[p], Visited) \in Hosts \X Hosts
    <3>1. CASE p = pos
      BY <3>1 DEF Other
    <3>2. CASE p # pos
      <4>1. p \in 1..(pos - 1)
        BY <1>1, <3>2 DEF TypeOK
      <4>2. Between(Across(Unit)[p], Visited) \in Hosts \X Hosts
        BY <1>1, <2>2, AtTheUnit, UnitLabels DEF Neighbours
      <4>3. QED BY <1>1, <2>2, <4>1, <4>2 DEF IInv, Progress
    <3>3. QED BY <3>1, <3>2
  <2>3. \A u : Labels(u)' = Labels(u) /\ Across(u)' = Across(u)
    BY <1>1, SameStored
  <2>4. \A u, host, p : Neighbours(u, host, p)' = Neighbours(u, host, p)
    BY <1>1, SameStored
  <2>5. (unit - 1)' = unit - 1 /\ (pos - 1)' = pos
    BY <1>1 DEF TypeOK
  <2>6. QED BY <1>1, <1>2, <1>7, <1>8, <2>1, <2>2, <2>3, <2>4, <2>5 DEF Progress
<1>10. Connected'
  <2>1. SUFFICES ASSUME NEW k \in DOMAIN nodes', k # 1
                 PROVE  \E m \in 1..(k - 1) : edges'[Between(nodes'[k], nodes'[m])] # <<>>
    BY <1>1, SameStored DEF Connected
  <2>2. CASE k \in DOMAIN nodes
    <3>1. PICK m \in 1..(k - 1) : edges[Between(nodes[k], nodes[m])] # <<>>
      BY <2>1, <2>2 DEF IInv, Connected
    <3>2. /\ m \in DOMAIN nodes /\ nodes[m] \in Hosts /\ nodes[k] \in Hosts
          /\ nodes'[m] = nodes[m] /\ nodes'[k] = nodes[k]
      <4>1. nodes \in Seq(Hosts)
        BY <1>1 DEF TypeOK
      <4>2. m \in DOMAIN nodes
        BY <2>2, <4>1
      <4>3. QED BY <2>2, <4>1, <4>2, NotedGraph
    <3>3. Between(nodes[k], nodes[m]) \in Hosts \X Hosts
      BY <3>2 DEF Between
    <3>4. QED BY <3>1, <3>2, <3>3, NotedGraph
  <2>3. CASE k \notin DOMAIN nodes
    <3>1. /\ k = Len(nodes) + 1 /\ nodes' = Append(nodes, Other) /\ nodes'[k] = Other
      BY <1>1, <2>1, <2>3, NotedGraph DEF TypeOK, Noted
    <3>2. PICK m \in DOMAIN nodes : nodes[m] = Visited
      BY <1>1, <1>4, AtTheUnit DEF Range
    <3>3. m \in 1..(k - 1) /\ nodes'[m] = Visited
      BY <1>1, <3>1, <3>2, NotedGraph DEF TypeOK
    <3>4. nodes' # nodes
      BY <2>1, <2>3
    <3>5. edges'[Edge] # <<>>
      BY <3>4, NotedGraph
    <3>6. QED BY <3>1, <3>3, <3>5 DEF Edge
  <2>4. QED BY <2>2, <2>3
<1>11. EdgesAreAlerts'
  <2>1. SUFFICES ASSUME NEW e \in Hosts \X Hosts, NEW a \in Range(edges'[e])
                 PROVE  /\ query.start <= a[1] /\ a[1] <= query.end
                        /\ e \in Alerts(ledger[a[1]][a[2]])
                        /\ e[1] \in Range(nodes') /\ e[2] \in Range(nodes')
    BY <1>1 DEF EdgesAreAlerts, Alerts, Units
  <2>2. CASE a \in Range(edges[e])
    BY <2>2, NotedGraph DEF IInv, EdgesAreAlerts
  <2>3. CASE e = Edge /\ a = <<day, Graph>>
    <3>1. query.start <= day /\ day <= query.end
      BY <1>1 DEF IInv, Loops, Searching
    <3>2. Edge \in Alerts(ledger[day][Graph])
      BY <1>1, LookingAt DEF Stored
    <3>3. Other \in Range(nodes') /\ Visited \in Range(nodes')
      BY <1>1, <1>4, NotedGraph, AtTheUnit
    <3>4. Edge[1] \in Range(nodes') /\ Edge[2] \in Range(nodes')
      BY <3>3 DEF Edge, Between
    <3>5. QED BY <2>3, <3>1, <3>2, <3>4
  <2>4. QED BY <2>1, <2>2, <2>3, NotedGraph
<1>12. SearchedIsClosed'
  <2>1. SUFFICES ASSUME NEW host \in searched, NEW other \in Hosts,
                        Between(other, host) \in Alerts(Stored)
                 PROVE  /\ other \in Range(nodes')
                        /\ Paths /\ Graph # "G2"
                             => <<day, Graph>> \in Range(edges'[Between(other, host)])
    BY <1>1, <1>2, SameStored DEF SearchedIsClosed
  <2>2. /\ other \in Range(nodes)
        /\ Paths /\ Graph # "G2"
             => <<day, Graph>> \in Range(edges[Between(other, host)])
    BY <1>1, <2>1 DEF IInv, SearchedIsClosed
  <2>3. Between(other, host) \in Hosts \X Hosts
    BY <2>1 DEF Alerts
  <2>4. QED BY <2>2, <2>3, NotedGraph
<1>13. QED BY <1>3, <1>5, <1>6, <1>9, <1>10, <1>11, <1>12 DEF IInv

(* When the visited host is done with, all units were there and all its    *)
(* neighbours are known.                                                   *)
LEMMA HostDone ==
  ASSUME IInv, NextHost
  PROVE  /\ Whole(Stored) /\ pos = 1
         /\ \A other \in Hosts : Between(other, Visited) \in Alerts(Stored)
                                   => Known(other, Visited)
<1>1. /\ TypeOK /\ pc = "search" /\ queue # <<>>
      /\ Stored.blocks # NoData /\ unit > Stored.blocks
  BY DEF IInv, NextHost, Visiting
<1>2. Stored.blocks \in Nat /\ Stored.blocks = Len(Stored.units)
      /\ DOMAIN Stored.units = 1..Len(Stored.units)
  BY <1>1, StoredType DEF GraphType
<1>3. \A k \in DOMAIN Stored.units : k \in 1..(unit - 1)
  BY <1>1, <1>2 DEF TypeOK
<1>4. Whole(Stored)
  BY <1>1, <1>3 DEF IInv, Covered, Searching, Whole
<1>5. pos = 1
  <2>1. ~ Concerned
    BY <1>1, <1>2 DEF Concerned, AtUnit, TypeOK
  <2>2. QED BY <1>1, <2>1 DEF IInv, Loops, Searching, TypeOK
<1>6. ASSUME NEW other \in Hosts, Between(other, Visited) \in Alerts(Stored)
      PROVE  Known(other, Visited)
  <2>1. PICK k \in DOMAIN Stored.units :
          /\ Stored.units[k] # NoData
          /\ \E p \in DOMAIN Across(Stored.units[k]) :
               /\ Across(Stored.units[k])[p] = other
               /\ Neighbours(Stored.units[k], Visited, p)
    BY <1>1, <1>6, AlertInUnit
  <2>2. QED BY <1>1, <1>3, <2>1 DEF IInv, Progress
<1>7. QED BY <1>4, <1>5, <1>6

(* Going on to the next host of the queue.                                 *)
LEMMA NextHostStep ==
  ASSUME IInv, NextHost
  PROVE  IInv'
<1>1. /\ TypeOK /\ pc = "search" /\ queue # <<>> /\ queue \in Seq(Hosts)
      /\ searched' = searched \union {Visited}
      /\ queue' = Tail(queue) /\ unit' = 1
      /\ pos = 1 /\ Whole(Stored)
      /\ UNCHANGED <<query, ledger, pc, day, phase, pos, nodes, edges>>
  BY HostDone DEF IInv, TypeOK, NextHost, Visiting, inputs
<1>2. /\ UNCHANGED <<Paths, Graph, Stored, LastOne>>
      /\ (Alerts(Stored))' = Alerts(Stored)
      /\ \A d, g : Passed(d, g)' = Passed(d, g)
  BY <1>1, SameStored
<1>3. Visited \in Hosts /\ Tail(queue) \in Seq(Hosts) /\ Range(Tail(queue)) \subseteq Range(queue)
  BY <1>1 DEF Visited, Range
<1>4. TypeOK'
  BY <1>1, <1>3 DEF TypeOK
<1>5. Loops'
  BY <1>1, <1>2, <1>3 DEF IInv, Loops, Searching
<1>6. Covered'
  BY <1>1, <1>2 DEF IInv, Covered, Searching, Whole
<1>7. Progress'
  BY <1>1 DEF Progress
<1>8. SearchedIsClosed'
  <2>1. SUFFICES ASSUME NEW host \in searched \union {Visited}, NEW other \in Hosts,
                        Between(other, host) \in Alerts(Stored)
                 PROVE  Known(other, host)
    BY <1>1, <1>2, SameStored DEF SearchedIsClosed, Known
  <2>2. CASE host \in searched
    BY <1>1, <2>1, <2>2 DEF IInv, SearchedIsClosed, Known
  <2>3. CASE host = Visited
    BY <2>1, <2>3, HostDone
  <2>4. QED BY <2>2, <2>3
<1>9. QED BY <1>1, <1>4, <1>5, <1>6, <1>7, <1>8, SameGraph DEF IInv

(* The next graph, or the next day, starts anew from what was found; all   *)
(* that was searched before was complete.                                  *)
LEMMA RestartStep ==
  ASSUME IInv, NextGraph \/ NextDay
  PROVE  IInv'
<1>1. /\ TypeOK /\ pc = "search" /\ queue = <<>> /\ searched # {} /\ unit = 1 /\ pos = 1
      /\ queue' = nodes /\ searched' = {}
      /\ nodes # <<>> /\ nodes \in Seq(Hosts)
      /\ query.start <= day /\ day <= query.end
      /\ UNCHANGED <<query, ledger, pc, unit, pos, nodes, edges>>
  <2>1. /\ TypeOK /\ pc = "search" /\ queue = <<>> /\ queue' = nodes /\ searched' = {}
        /\ UNCHANGED <<query, ledger, pc, unit, pos, nodes, edges>>
    BY DEF IInv, NextGraph, NextDay, Restart, inputs
  <2>2. /\ searched # {} /\ unit = 1 /\ nodes # <<>>
        /\ query.start <= day /\ day <= query.end
    BY <2>1 DEF IInv, Loops, Searching
  <2>3. pos = 1
    BY <2>1 DEF IInv, Loops, Searching, Concerned, AtUnit, Visiting, TypeOK
  <2>4. QED BY <2>1, <2>2, <2>3 DEF TypeOK
<1>2. /\ query.start \in Nat /\ query.end \in Nat /\ day \in Nat /\ phase \in 1..3
      /\ query.start \in Days /\ query.end \in Days
  BY <1>1 DEF TypeOK, Queries
<1>3. \/ day' = day /\ phase' = phase + 1 /\ phase < 3
      \/ /\ phase = 3 /\ phase' = 1
         /\ \/ Paths /\ day # query.start /\ day' = day - 1
            \/ ~ Paths /\ day # query.end /\ day' = day + 1
  BY DEF NextGraph, NextDay, LastOne
<1>4. /\ query.start <= day' /\ day' <= query.end /\ day' \in Days /\ phase' \in 1..3
  BY <1>1, <1>2, <1>3
<1>5. TypeOK'
  BY <1>1, <1>4 DEF TypeOK
<1>6. Loops'
  BY <1>1, <1>4 DEF Loops, Searching
<1>7. Whole(Stored)
  BY <1>1 DEF IInv, Covered, Searching
<1>8. Covered'
  <2>1. \A d \in Days, g \in Graphs :
          Passed(d, g)' => Passed(d, g) \/ (d = day /\ g = Graph)
    BY <1>1, <1>2, <1>3 DEF Passed, Paths, Graph, Order
  <2>2. \A d \in Days, g \in Graphs : Passed(d, g)' => Whole(ledger[d][g])
    BY <1>1, <1>7, <2>1 DEF IInv, Covered, Searching, Stored
  <2>3. QED BY <1>1, <2>2 DEF Covered, Whole
<1>9. Progress'
  BY <1>1 DEF Progress
<1>10. SearchedIsClosed'
  BY <1>1 DEF SearchedIsClosed
<1>11. QED BY <1>1, <1>5, <1>6, <1>8, <1>9, <1>10, SameGraph DEF IInv

(* The answer changes nothing but pc.                                      *)
LEMMA AnswerStep ==
  ASSUME IInv, Answer
  PROVE  IInv'
<1>1. /\ TypeOK /\ pc = "search" /\ queue = <<>> /\ phase = 3 /\ LastOne
      /\ pc' = "done"
      /\ UNCHANGED <<query, ledger, day, phase, queue, searched, unit, pos, nodes, edges>>
  BY DEF IInv, Answer, inputs
<1>2. /\ UNCHANGED <<Paths, Graph, Stored, LastOne>>
      /\ (Alerts(Stored))' = Alerts(Stored)
      /\ \A d, g : Passed(d, g)' = Passed(d, g)
  BY <1>1, SameStored
<1>3. ~ Concerned
  BY <1>1 DEF Concerned, AtUnit, Visiting
<1>4. TypeOK'
  BY <1>1 DEF TypeOK
<1>5. Loops'
  BY <1>1, <1>2, <1>3 DEF IInv, Loops, Searching
<1>6. Covered'
  BY <1>1, <1>2 DEF IInv, Covered, Searching
<1>7. Progress'
  BY <1>1 DEF Progress
<1>8. SearchedIsClosed'
  <2>1. SearchedIsClosed
    BY DEF IInv
  <2>2. \A other, host : Between(other, host)' = Between(other, host)
    BY <1>1, SameStored
  <2>3. QED BY <1>1, <1>2, <2>1, <2>2 DEF SearchedIsClosed
<1>9. QED BY <1>1, <1>4, <1>5, <1>6, <1>7, <1>8, SameGraph DEF IInv

(* Every step keeps the invariant.                                         *)
LEMMA NextIInv == IInv /\ [Next]_vars => IInv'
<1> SUFFICES ASSUME IInv, [Next]_vars
             PROVE  IInv'
  OBVIOUS
<1>1. CASE Next
  <2>1. TypeOK
    BY DEF IInv
  <2>2. CASE Discover \/ Meet
    BY <2>1, <2>2, DiscoverNotes, MeetNotes, NotedStep
  <2>3. QED BY <1>1, <2>2, FailStep, BeginStep, NextUnitStep, NoAlertStep,
               NextHostStep, RestartStep, AnswerStep DEF Next
<1>2. CASE UNCHANGED vars
  <2>1. UNCHANGED <<query, ledger, pc, day, phase, queue, searched, unit, pos, nodes, edges>>
    BY <1>2 DEF vars, inputs
  <2>2. /\ UNCHANGED <<Paths, Graph, Stored, LastOne, Visited, Unit, Concerned>>
        /\ (Alerts(Stored))' = Alerts(Stored)
        /\ \A d, g : Passed(d, g)' = Passed(d, g)
    BY <2>1, SameStored DEF Visited, Unit, Concerned, AtUnit, Visiting
  <2>3. TypeOK' /\ Loops' /\ Covered'
    BY <2>1, <2>2 DEF IInv, TypeOK, Loops, Covered, Searching
  <2>4. Progress'
    <3>1. \A other, host : Known(other, host)' = Known(other, host)
      BY <2>1, <2>2, SameStored DEF Known
    <3>2. \A u : Labels(u)' = Labels(u) /\ Across(u)' = Across(u)
      BY <2>1, SameStored
    <3>3. \A u, host, p : Neighbours(u, host, p)' = Neighbours(u, host, p)
      BY <2>1, SameStored
    <3>4. QED BY <2>1, <2>2, <3>1, <3>2, <3>3 DEF IInv, Progress
  <2>5. SearchedIsClosed'
    BY <2>1, <2>2, SameStored DEF IInv, SearchedIsClosed
  <2>6. QED BY <2>1, <2>3, <2>4, <2>5, SameGraph DEF IInv
<1>3. QED BY <1>1, <1>2

(* The invariant holds always.                                             *)
LEMMA InvariantHolds == SafetySpec => []IInv
BY InitIInv, NextIInv, PTL DEF SafetySpec

(* The variables keep their types.                                         *)
THEOREM TypeCorrect == SafetySpec => []TypeOK
<1>1. IInv => TypeOK
  BY DEF IInv
<1>2. QED BY <1>1, InvariantHolds, PTL

(* Every host found hangs together with the one asked for.                 *)
THEOREM GraphIsConnected == SafetySpec => []Connected
<1>1. IInv => Connected
  BY DEF IInv
<1>2. QED BY <1>1, InvariantHolds, PTL

(* Every edge stands for alerts of the ledger.                             *)
THEOREM EdgesAreReal == SafetySpec => []EdgesAreAlerts
<1>1. IInv => EdgesAreAlerts
  BY DEF IInv
<1>2. QED BY <1>1, InvariantHolds, PTL

(* No search leaves out a neighbour of a host it has visited.              *)
THEOREM SearchIsExhaustive == SafetySpec => []SearchedIsClosed
<1>1. IInv => SearchedIsClosed
  BY DEF IInv
<1>2. QED BY <1>1, InvariantHolds, PTL

(* No answer is made from a graph that lacks its index or a unit.          *)
THEOREM AnswersAreComplete == SafetySpec => []AnswerIsComplete
<1>1. IInv => AnswerIsComplete
  <2>1. SUFFICES ASSUME IInv, pc = "done",
                        NEW d \in query.start..query.end, NEW g \in Graphs
                 PROVE  Whole(ledger[d][g])
    BY DEF AnswerIsComplete, Whole, Range
  <2>2. /\ queue = <<>> /\ phase = 3 /\ LastOne /\ searched # {}
        /\ query.start \in Days /\ query.end \in Days /\ day \in Days
        /\ query.start <= day /\ day <= query.end
    BY <2>1 DEF IInv, Loops, Searching, TypeOK, Queries
  <2>3. d \in Days
    BY <2>2
  <2>4. Passed(d, g) \/ (d = day /\ g = Graph)
    BY <2>2, <2>3 DEF Passed, LastOne, Graph, Order
  <2>5. QED BY <2>1, <2>2, <2>3, <2>4 DEF IInv, Covered, Searching, Stored
<1>2. QED BY <1>1, InvariantHolds, PTL
-----------------------------------------------------------------------------
(* AlertsOnce: a host is visited once per graph, and a visit looks at each *)
(* cell once.                                                              *)

(* The cell of a pair of hosts is in what the visit has looked at.         *)
Behind(other, host) ==
  \E k \in DOMAIN Stored.units :
    /\ Stored.units[k] # NoData
    /\ host \in Range(Labels(Stored.units[k]))
    /\ \E p \in DOMAIN Across(Stored.units[k]) :
         /\ Across(Stored.units[k])[p] = other
         /\ k < unit \/ (k = unit /\ p < pos)

(* Nobody is in the graph twice, or queued twice, or queued again.         *)
VisitsOnce == Searching => /\ IsInjective(nodes)
                           /\ IsInjective(queue)
                           /\ Range(queue) \intersect searched = {}

LookedAt(e) == e[2] \in searched \/ (queue # <<>> /\ e[2] = Visited /\ Behind(e[1], e[2]))

(* What is recorded is of a graph that was passed, or of the present one;  *)
(* then, if this search records every alert, its cell was looked at.       *)
Recorded == Searching =>
  \A e \in Hosts \X Hosts : \A a \in Range(edges[e]) :
    \/ Passed(a[1], a[2])
    \/ a = <<day, Graph>> /\ (Paths /\ Graph # "G2" => LookedAt(e))

OnceInv == VisitsOnce /\ Recorded /\ AlertsOnce

(* Adding what is not there keeps a sequence free of repetitions.          *)
LEMMA AppendFresh ==
  ASSUME NEW S, NEW s \in Seq(S), NEW e \in S, IsInjective(s), e \notin Range(s)
  PROVE  IsInjective(Append(s, e))
<1>1. /\ DOMAIN Append(s, e) = 1..(Len(s) + 1) /\ DOMAIN s = 1..Len(s) /\ Len(s) \in Nat
      /\ \A k \in 1..Len(s) : Append(s, e)[k] = s[k]
      /\ Append(s, e)[Len(s) + 1] = e
  OBVIOUS
<1>2. \A k \in 1..Len(s) : s[k] # e
  BY <1>1 DEF Range
<1>3. \A k \in 1..(Len(s) + 1) : k \in 1..Len(s) \/ k = Len(s) + 1
  BY <1>1
<1>4. QED BY <1>1, <1>2, <1>3 DEF IsInjective

(* The rest of a sequence without repetitions lacks its head.              *)
LEMMA TailFresh ==
  ASSUME NEW S, NEW s \in Seq(S), s # <<>>, IsInjective(s)
  PROVE  IsInjective(Tail(s)) /\ Head(s) \notin Range(Tail(s))
<1>1. /\ Head(s) = s[1] /\ Len(s) \in Nat /\ Len(s) > 0 /\ DOMAIN s = 1..Len(s)
      /\ DOMAIN Tail(s) = 1..(Len(s) - 1)
      /\ \A k \in 1..(Len(s) - 1) : Tail(s)[k] = s[k + 1]
  OBVIOUS
<1>2. \A k \in 1..(Len(s) - 1) : k + 1 \in DOMAIN s /\ k + 1 # 1
  BY <1>1
<1>3. IsInjective(Tail(s))
  <2>1. SUFFICES ASSUME NEW a \in 1..(Len(s) - 1), NEW b \in 1..(Len(s) - 1),
                        Tail(s)[a] = Tail(s)[b]
                 PROVE  a = b
    BY <1>1 DEF IsInjective
  <2>2. a + 1 = b + 1
    BY <1>1, <1>2, <2>1 DEF IsInjective
  <2>3. QED BY <2>2
<1>4. Head(s) \notin Range(Tail(s))
  BY <1>1, <1>2 DEF IsInjective, Range
<1>5. QED BY <1>3, <1>4

(* No graph is passed while it is searched.                                *)
LEMMA NotPassed ==
  ASSUME TypeOK
  PROVE  ~ Passed(day, Graph)
<1>1. phase \in 1..3 /\ day \in Nat
  BY DEF TypeOK
<1>2. \A k \in 1..(phase - 1) : k \in {1, 2} /\ k < phase
  BY <1>1
<1>3. QED BY <1>1, <1>2 DEF Passed, Graph, Order

(* There are no records before the search begins.                          *)
LEMMA NoRecords ==
  ASSUME IInv, nodes = <<>>, NEW e \in Hosts \X Hosts
  PROVE  edges[e] = <<>>
<1>1. edges[e] \in Seq(Days \X Graphs)
  BY DEF IInv, TypeOK
<1>2. SUFFICES ASSUME edges[e] # <<>> PROVE FALSE
  OBVIOUS
<1>3. edges[e][1] \in Range(edges[e])
  BY <1>1, <1>2 DEF Range
<1>4. e[1] \in Range(nodes)
  BY <1>3 DEF IInv, EdgesAreAlerts
<1>5. QED BY <1>4 DEF Range

(* A query that fails, and one that begins.                                *)
LEMMA FailOnce ==
  ASSUME OnceInv, Refuse \/ NoIndex \/ NoUnit
  PROVE  OnceInv'
<1>1. pc' = "error" /\ UNCHANGED edges
  BY DEF Refuse, NoIndex, NoUnit, inputs
<1>2. QED BY <1>1 DEF OnceInv, VisitsOnce, Recorded, AlertsOnce, Searching

LEMMA BeginOnce ==
  ASSUME IInv, Begin
  PROVE  OnceInv'
<1>1. /\ nodes = <<>> /\ searched' = {} /\ edges' = edges
      /\ nodes' = <<query.host>> /\ queue' = <<query.host>>
  BY DEF IInv, Loops, Begin
<1>2. \A e \in Hosts \X Hosts : edges'[e] = <<>>
  BY <1>1, NoRecords
<1>3. Recorded' /\ AlertsOnce'
  BY <1>2 DEF Recorded, AlertsOnce, IsInjective, Range
<1>4. VisitsOnce'
  BY <1>1 DEF VisitsOnce, IsInjective
<1>5. QED BY <1>3, <1>4 DEF OnceInv

(* Going on within a unit, or to the next one, leaves more cells behind.   *)
LEMMA StaysBehind ==
  ASSUME TypeOK, UNCHANGED <<query, ledger, day, phase>>,
         \/ unit' = unit + 1
         \/ unit' = unit /\ pos' = pos + 1,
         NEW other, NEW host, Behind(other, host)
  PROVE  Behind(other, host)'
<1>1. PICK k \in DOMAIN Stored.units :
        /\ Stored.units[k] # NoData
        /\ host \in Range(Labels(Stored.units[k]))
        /\ \E p \in DOMAIN Across(Stored.units[k]) :
             /\ Across(Stored.units[k])[p] = other
             /\ k < unit \/ (k = unit /\ p < pos)
  BY DEF Behind
<1>2. PICK p \in DOMAIN Across(Stored.units[k]) :
        /\ Across(Stored.units[k])[p] = other
        /\ k < unit \/ (k = unit /\ p < pos)
  BY <1>1
<1>3. Stored.units \in Seq(UnitType \union {NoData}) /\ k \in Nat
  BY StoredType DEF GraphType
<1>4. Across(Stored.units[k]) \in Seq(Hosts) /\ p \in Nat
  BY <1>1, <1>3, StoredType, UnitLabels
<1>5. k < unit' \/ (k = unit' /\ p < pos')
  BY <1>2, <1>3, <1>4 DEF TypeOK
<1>6. Stored' = Stored /\ \A u : Labels(u)' = Labels(u) /\ Across(u)' = Across(u)
  BY SameStored
<1>7. QED BY <1>1, <1>2, <1>5, <1>6 DEF Behind

LEMMA NoAlertOnce ==
  ASSUME IInv, OnceInv, NextUnit \/ NoAlert
  PROVE  OnceInv'
<1>1. /\ TypeOK
      /\ UNCHANGED <<query, ledger, pc, day, phase, queue, searched, nodes, edges>>
      /\ \/ unit' = unit + 1
         \/ unit' = unit /\ pos' = pos + 1
  BY DEF IInv, NextUnit, NoAlert, inputs
<1>2. VisitsOnce' /\ AlertsOnce'
  BY <1>1 DEF OnceInv, VisitsOnce, AlertsOnce, Searching
<1>3. \A e : LookedAt(e) => LookedAt(e)'
  BY <1>1, StaysBehind DEF LookedAt, Visited
<1>4. Recorded'
  BY <1>1, <1>3, SameStored DEF OnceInv, Recorded, Searching
<1>5. QED BY <1>2, <1>4 DEF OnceInv

(* An alert is found in a cell the visit has not looked at.                *)
LEMMA CellIsNew ==
  ASSUME TypeOK, Looking
  PROVE  ~ Behind(Other, Visited)
<1>1. /\ unit \in DOMAIN Stored.units /\ Unit = Stored.units[unit]
      /\ Unit # NoData /\ Unit \in UnitType
      /\ pos \in DOMAIN Across(Unit) /\ Other = Across(Unit)[pos]
      /\ Visited \in Range(Labels(Unit))
  BY AtTheUnit, LookingAt DEF Looking, Concerned, Unit, Other
<1>2. CellsOnce(Stored)
  BY StoredType, CellsAssumption DEF TypeOK, Stored
<1>3. PICK q \in DOMAIN Labels(Unit) : Labels(Unit)[q] = Visited
  BY <1>1 DEF Range
<1>4. ASSUME NEW k \in DOMAIN Stored.units, NEW p \in DOMAIN Across(Stored.units[k]),
             Stored.units[k] # NoData,
             Visited \in Range(Labels(Stored.units[k])),
             Across(Stored.units[k])[p] = Other
      PROVE  k = unit /\ p = pos
  <2>1. PICK s \in DOMAIN Labels(Stored.units[k]) : Labels(Stored.units[k])[s] = Visited
    BY <1>4 DEF Range
  <2>2. CASE Paths
    BY <1>1, <1>2, <1>3, <1>4, <2>1, <2>2 DEF CellsOnce, Labels, Across
  <2>3. CASE ~ Paths
    BY <1>1, <1>2, <1>3, <1>4, <2>1, <2>3 DEF CellsOnce, Labels, Across
  <2>4. QED BY <2>2, <2>3
<1>5. unit \in Nat /\ pos \in Nat
  BY DEF TypeOK
<1>6. QED BY <1>4, <1>5 DEF Behind

(* So it was not recorded before, where a search records every alert; and  *)
(* where it does not, a record comes with a host that was not there.       *)
LEMMA RecordIsNew ==
  ASSUME IInv, OnceInv, Discover \/ Meet, edges' # edges
  PROVE  /\ Record(Edge)
         /\ <<day, Graph>> \notin Range(edges[Edge])
<1>1. TypeOK /\ Looking /\ pc = "search" /\ Edge \in Hosts \X Hosts
  BY LookingAt DEF IInv, Discover, Meet, Looking, Concerned, AtUnit, Visiting
<1>2. CASE Discover
  <2>1. Record(Edge) /\ Other \notin Range(nodes) /\ Other \in {Edge[1], Edge[2]}
    BY <1>2 DEF Discover, Edge, Between
  <2>2. QED BY <1>1, <2>1 DEF IInv, EdgesAreAlerts
<1>3. CASE Meet
  <2>1. Record(Edge) /\ Paths /\ Graph # "G2"
    BY <1>3 DEF Meet
  <2>2. Edge[1] = Other /\ Edge[2] = Visited
    BY <2>1 DEF Edge, Between
  <2>3. Visited \in Range(queue)
    BY <1>1, AtTheUnit DEF Looking, Concerned
  <2>4. ~ LookedAt(Edge)
    BY <1>1, <2>2, <2>3, CellIsNew DEF LookedAt, OnceInv, VisitsOnce, Searching
  <2>5. ~ Passed(day, Graph)
    BY <1>1, NotPassed
  <2>6. QED BY <1>1, <2>1, <2>4, <2>5 DEF OnceInv, Recorded, Searching
<1>4. QED BY <1>2, <1>3

(* Noting an alert.                                                        *)
LEMMA NotedOnce ==
  ASSUME IInv, OnceInv, Discover \/ Meet
  PROVE  OnceInv'
<1>1. TypeOK /\ Noted
  BY DiscoverNotes, MeetNotes DEF IInv
<1>2. /\ pc = "search" /\ Looking /\ queue # <<>>
      /\ unit' = unit /\ pos' = pos + 1
      /\ UNCHANGED <<query, ledger, pc, day, phase, searched>>
      /\ nodes \in Seq(Hosts) /\ queue \in Seq(Hosts)
      /\ Other \in Hosts /\ Edge \in Hosts \X Hosts
  BY <1>1, LookingAt DEF Noted, Looking, Concerned, AtUnit, Visiting, TypeOK
<1>3. /\ nodes' = nodes \/ (nodes' = Append(nodes, Other) /\ Other \notin Range(nodes))
      /\ queue' = queue \/ (queue' = Append(queue, Other)
                              /\ Other \notin Range(queue) \union searched)
  BY DEF Discover, Meet, Enqueue
<1>4. VisitsOnce'
  <2>1. IsInjective(nodes) /\ IsInjective(queue) /\ Range(queue) \intersect searched = {}
    BY <1>2 DEF OnceInv, VisitsOnce, Searching
  <2>2. \A s \in Seq(Hosts), h \in Hosts :
          /\ IsInjective(s) /\ h \notin Range(s) => IsInjective(Append(s, h))
          /\ Range(Append(s, h)) = Range(s) \union {h}
    BY AppendFresh, AppendRange
  <2>3. IsInjective(nodes')
    BY <1>2, <1>3, <2>1, <2>2
  <2>4. IsInjective(queue') /\ Range(queue') \intersect searched = {}
    <3>1. CASE queue' = queue
      BY <2>1, <3>1
    <3>2. CASE queue' = Append(queue, Other) /\ Other \notin Range(queue) \union searched
      <4>1. Range(queue') = Range(queue) \union {Other} /\ IsInjective(queue')
        BY <1>2, <2>1, <2>2, <3>2
      <4>2. QED BY <2>1, <3>2, <4>1
    <3>3. QED BY <1>3, <3>1, <3>2
  <2>5. QED BY <1>2, <2>3, <2>4 DEF VisitsOnce
<1>5. Visited' = Visited /\ queue' # <<>>
  BY <1>1, NotedGraph
<1>6. \A e : LookedAt(e) => LookedAt(e)'
  BY <1>1, <1>2, <1>5, StaysBehind DEF LookedAt
<1>7. ASSUME NEW e, e = Edge, Paths
      PROVE  LookedAt(e)'
  <2>1. e[1] = Other /\ e[2] = Visited
    BY <1>7 DEF Edge, Between
  <2>2. /\ unit \in DOMAIN Stored.units /\ Unit = Stored.units[unit] /\ Unit # NoData
        /\ Visited \in Range(Labels(Unit))
        /\ pos \in DOMAIN Across(Unit) /\ Other = Across(Unit)[pos] /\ pos < pos'
    BY <1>1, <1>2, AtTheUnit, LookingAt DEF Looking, Concerned, Unit, Other, TypeOK
  <2>3. Stored' = Stored /\ \A u : Labels(u)' = Labels(u) /\ Across(u)' = Across(u)
    BY <1>2, SameStored
  <2>4. Behind(e[1], e[2])'
    <3>1. /\ Stored.units[unit] # NoData
          /\ e[2] \in Range(Labels(Stored.units[unit]))
          /\ pos \in DOMAIN Across(Stored.units[unit])
          /\ Across(Stored.units[unit])[pos] = e[1]
      BY <2>1, <2>2
    <3>2. unit = unit' /\ pos < pos'
      BY <1>2, <2>2
    <3>3. QED BY <2>2, <2>3, <3>1, <3>2 DEF Behind
  <2>5. QED BY <1>5, <2>1, <2>4 DEF LookedAt
<1>8. /\ Paths' = Paths /\ Graph' = Graph /\ \A d, g : Passed(d, g)' = Passed(d, g)
  BY <1>2, SameStored
<1>9. Recorded'
  <2>1. SUFFICES ASSUME NEW e \in Hosts \X Hosts, NEW a \in Range(edges'[e])
                 PROVE  \/ Passed(a[1], a[2])
                        \/ a = <<day, Graph>> /\ (Paths /\ Graph # "G2" => LookedAt(e)')
    BY <1>2, <1>8 DEF Recorded
  <2>2. CASE a \in Range(edges[e])
    BY <1>2, <1>6, <2>2 DEF OnceInv, Recorded, Searching
  <2>3. CASE a \notin Range(edges[e])
    <3>1. e = Edge /\ a = <<day, Graph>>
      BY <1>1, <2>1, <2>3, NotedGraph
    <3>2. QED BY <1>7, <3>1
  <2>4. QED BY <2>2, <2>3
<1>10. AlertsOnce'
  <2>1. CASE edges' = edges
    BY <2>1 DEF OnceInv, AlertsOnce
  <2>2. CASE edges' # edges
    <3>1. Record(Edge) /\ <<day, Graph>> \notin Range(edges[Edge])
      BY <2>2, RecordIsNew
    <3> DEFINE a == <<day, Graph>>
               S == Days \X Graphs
    <3>2. /\ edges'[Edge] = Append(edges[Edge], a)
          /\ \A e \in Hosts \X Hosts : e # Edge => edges'[e] = edges[e]
      BY <1>1, <1>2, <3>1 DEF Record, TypeOK
    <3>3. IsInjective(edges[Edge]) /\ edges[Edge] \in Seq(S) /\ a \in S
      BY <1>1, <1>2, StoredType DEF OnceInv, AlertsOnce, TypeOK
    <3> HIDE DEF a, S
    <3>4. IsInjective(Append(edges[Edge], a))
      BY <3>1, <3>3, AppendFresh DEF a
    <3>5. QED BY <3>2, <3>4 DEF OnceInv, AlertsOnce
  <2>3. QED BY <2>1, <2>2
<1>11. QED BY <1>4, <1>9, <1>10 DEF OnceInv

(* Going on to the next host of the queue.                                 *)
LEMMA NextHostOnce ==
  ASSUME IInv, OnceInv, NextHost
  PROVE  OnceInv'
<1>1. /\ pc = "search" /\ queue # <<>> /\ queue \in Seq(Hosts)
      /\ searched' = searched \union {Visited} /\ queue' = Tail(queue)
      /\ Visited = Head(queue)
      /\ UNCHANGED <<query, ledger, pc, day, phase, nodes, edges>>
  BY DEF IInv, TypeOK, NextHost, Visiting, inputs, Visited
<1>2. IsInjective(nodes) /\ IsInjective(queue) /\ Range(queue) \intersect searched = {}
  BY <1>1 DEF OnceInv, VisitsOnce, Searching
<1>3. IsInjective(Tail(queue)) /\ Visited \notin Range(Tail(queue))
  BY <1>1, <1>2, TailFresh
<1>4. Range(Tail(queue)) \subseteq Range(queue)
  BY <1>1 DEF Range
<1>5. VisitsOnce'
  BY <1>1, <1>2, <1>3, <1>4 DEF VisitsOnce
<1>6. \A e : LookedAt(e) => LookedAt(e)'
  BY <1>1 DEF LookedAt
<1>7. Recorded'
  BY <1>1, <1>6, SameStored DEF OnceInv, Recorded, Searching
<1>8. AlertsOnce'
  BY <1>1 DEF OnceInv, AlertsOnce
<1>9. QED BY <1>5, <1>7, <1>8 DEF OnceInv

(* The next graph, or day: what is recorded is of graphs that were passed. *)
LEMMA RestartOnce ==
  ASSUME IInv, OnceInv, NextGraph \/ NextDay
  PROVE  OnceInv'
<1>1. /\ TypeOK /\ pc = "search" /\ queue' = nodes /\ searched' = {}
      /\ UNCHANGED <<query, ledger, pc, nodes, edges>>
      /\ query.start <= day /\ day <= query.end
  BY DEF IInv, Loops, Searching, NextGraph, NextDay, Restart, inputs
<1>2. /\ query.start \in Nat /\ query.end \in Nat /\ day \in Nat /\ phase \in 1..3
  BY <1>1 DEF TypeOK, Queries
<1>3. \/ day' = day /\ phase' = phase + 1 /\ phase < 3
      \/ /\ phase = 3 /\ phase' = 1
         /\ \/ Paths /\ day # query.start /\ day' = day - 1
            \/ ~ Paths /\ day # query.end /\ day' = day + 1
  BY DEF NextGraph, NextDay, LastOne
<1>4. VisitsOnce'
  BY <1>1 DEF OnceInv, VisitsOnce, Searching
<1>5. \A d \in Days, g \in Graphs :
        Passed(d, g) \/ (d = day /\ g = Graph) => Passed(d, g)'
  BY <1>1, <1>2, <1>3 DEF Passed, Paths, Graph, Order
<1>6. Recorded'
  <2>1. SUFFICES ASSUME NEW e \in Hosts \X Hosts, NEW a \in Range(edges[e])
                 PROVE  Passed(a[1], a[2])'
    BY <1>1 DEF Recorded
  <2>2. a \in Days \X Graphs
    <3>1. edges[e] \in Seq(Days \X Graphs)
      BY <1>1 DEF TypeOK
    <3>2. QED BY <3>1, <2>1 DEF Range
  <2>3. Passed(a[1], a[2]) \/ a = <<day, Graph>>
    BY <1>1, <2>1 DEF OnceInv, Recorded, Searching
  <2>4. QED BY <1>5, <2>2, <2>3
<1>7. AlertsOnce'
  BY <1>1 DEF OnceInv, AlertsOnce
<1>8. QED BY <1>4, <1>6, <1>7 DEF OnceInv

(* The answer, and nothing at all.                                         *)
LEMMA SameOnce ==
  ASSUME OnceInv, Searching' => Searching,
         UNCHANGED <<query, ledger, day, phase, queue, searched, unit, pos, nodes, edges>>
  PROVE  OnceInv'
<1>1. VisitsOnce' /\ AlertsOnce'
  BY DEF OnceInv, VisitsOnce, AlertsOnce
<1>2. \A e : LookedAt(e)' = LookedAt(e)
  BY SameStored DEF LookedAt, Behind, Visited
<1>3. Recorded'
  BY <1>2, SameStored DEF OnceInv, Recorded
<1>4. QED BY <1>1, <1>3 DEF OnceInv

LEMMA NextOnce == IInv /\ OnceInv /\ [Next]_vars => OnceInv'
<1> SUFFICES ASSUME IInv, OnceInv, [Next]_vars
             PROVE  OnceInv'
  OBVIOUS
<1>1. CASE Answer \/ UNCHANGED vars
  BY <1>1, SameOnce DEF Answer, vars, inputs, Searching
<1>2. QED BY <1>1, FailOnce, BeginOnce, NoAlertOnce, NotedOnce, NextHostOnce,
             RestartOnce DEF Next

(* No alert is reported twice on an edge, for any alerts, hosts and days:  *)
(* neither a host that is met again nor a graph that is searched anew from *)
(* all hosts records an alert a second time.                               *)
THEOREM AlertsAreOnce == SafetySpec => []AlertsOnce
<1>1. Init => OnceInv
  BY DEF Init, OnceInv, VisitsOnce, Recorded, AlertsOnce, Searching, IsInjective
<1>2. OnceInv => AlertsOnce
  BY DEF OnceInv
<1>3. QED BY <1>1, <1>2, InvariantHolds, NextOnce, PTL DEF SafetySpec

-----------------------------------------------------------------------------
(* FindsTheHosts: what the search of one graph finds is a closure of what  *)
(* was found before it, and Found composes these closures day by day.      *)

(* Reaching on, in one step and in any number of steps.                    *)
LEMMA AcrossGrows ==
  ASSUME NEW S \in SUBSET Hosts, NEW l
  PROVE  /\ S \subseteq Across1(S, l) /\ Across1(S, l) \in SUBSET Hosts
         /\ S \subseteq AcrossAll(S, l) /\ AcrossAll(S, l) \in SUBSET Hosts
         /\ \A h \in AcrossAll(S, l), other \in Hosts :
              Between(other, h) \in Alerts(l) => other \in AcrossAll(S, l)
BY DEF Across1, AcrossAll

(* Found begins with the host asked for and goes on day by day.            *)
LEMMA FoundDayByDay ==
  ASSUME query \in Queries
  PROVE  /\ Found[0] = {query.host}
         /\ \A n \in Nat : /\ Found[n] \in SUBSET Hosts
                           /\ Found[n + 1] = FoundOn(Found[n], ledger[DayOf(n + 1)])
<1> DEFINE T == SUBSET Hosts
           base == {query.host}
           step == [p \in Nat \X T |-> FoundOn(p[2], ledger[DayOf(p[1] + 1)])]
<1>1. base \in T
  BY DEF Queries
<1>2. ASSUME NEW S \in T, NEW l
      PROVE  FoundOn(S, l) \in T
  <2>1. \A R \in T : \A g : Across1(R, g) \in T /\ AcrossAll(R, g) \in T
    BY AcrossGrows
  <2> HIDE DEF T
  <2>2. QED BY <2>1 DEF FoundOn
<1>3. step \in [Nat \X T -> T]
  BY <1>2
<1>4. \A n \in Nat, S \in T : step[<<n, S>>] = FoundOn(S, ledger[DayOf(n + 1)])
  OBVIOUS
<1>5. PICK f : Defined(f, T, base, step)
  <2> HIDE DEF T, base, step
  <2>1. QED BY <1>1, <1>3, RecursionDefines
<1>6. \A n \in Nat : f[n + 1] = FoundOn(f[n], ledger[DayOf(n + 1)])
  <2> HIDE DEF T, step
  <2>1. QED BY <1>4, <1>5 DEF Defined
<1>7. f = [k \in Nat |-> IF k = 0 THEN {query.host} ELSE FoundOn(f[k - 1], ledger[DayOf(k)])]
  <2>1. \A k \in Nat : k # 0 => f[k] = FoundOn(f[k - 1], ledger[DayOf(k)])
    <3>1. SUFFICES ASSUME NEW k \in Nat, k # 0
                   PROVE  f[k] = FoundOn(f[k - 1], ledger[DayOf(k)])
      OBVIOUS
    <3>2. k - 1 \in Nat /\ k - 1 + 1 = k
      BY <3>1
    <3>3. f[(k - 1) + 1] = FoundOn(f[k - 1], ledger[DayOf((k - 1) + 1)])
      BY <1>6, <3>2
    <3>4. QED BY <3>2, <3>3
  <2>2. QED BY <1>5, <2>1 DEF Defined
<1>8. Found = [k \in Nat |-> IF k = 0 THEN {query.host}
                                      ELSE FoundOn(Found[k - 1], ledger[DayOf(k)])]
  BY <1>7 DEF Found
<1>9. Found[0] = {query.host}
  BY <1>8
<1>10. ASSUME NEW n \in Nat
       PROVE  Found[n + 1] = FoundOn(Found[n], ledger[DayOf(n + 1)])
  <2>1. n + 1 \in Nat /\ n + 1 # 0 /\ (n + 1) - 1 = n
    OBVIOUS
  <2>2. Found[n + 1] = FoundOn(Found[(n + 1) - 1], ledger[DayOf(n + 1)])
    BY <1>8, <2>1
  <2>3. QED BY <2>1, <2>2
<1>11. \A n \in Nat : Found[n] \in T
  <2> DEFINE S == {n \in Nat : Found[n] \in T}
  <2>1. 0 \in S
    BY <1>1, <1>9
  <2>2. ASSUME NEW n \in Nat, n \in S
        PROVE  n + 1 \in S
    BY <1>2, <1>10, <2>2
  <2> HIDE DEF S
  <2>3. Nat \subseteq S
    BY <2>1, <2>2, SetInduction
  <2>4. QED BY <2>3 DEF S
<1>12. QED BY <1>9, <1>10, <1>11

LEMMA FoundUnchanged ==
  ASSUME UNCHANGED <<query, ledger>>
  PROVE  Found' = Found
BY DEF Found, FoundOn, Across1, AcrossAll, Alerts, Units, Between, DayOf, Paths

(* The days are counted in the order of the search; Base is what was found *)
(* before the present graph.                                               *)
DayNo == IF Paths THEN query.end + 1 - day ELSE day + 1 - query.start
Reach(S, g) == IF g = "G2" THEN AcrossAll(S, ledger[day][g]) ELSE Across1(S, ledger[day][g])
Base1 == Found[DayNo - 1]
Base2 == Reach(Base1, Order[1])
Base3 == Reach(Base2, Order[2])
Base == IF phase = 1 THEN Base1 ELSE IF phase = 2 THEN Base2 ELSE Base3

(* The graph grows from what was found before to what is reached from it.  *)
(* The search visits the hosts it started from and, in the internal        *)
(* network, those it finds.                                                *)
FoundInv == Searching =>
  /\ Base \subseteq Range(nodes)
  /\ Range(nodes) \subseteq Reach(Base, Graph)
  /\ Base \subseteq Range(queue) \union searched
  /\ Range(queue) \union searched \subseteq IF Graph = "G2" THEN Range(nodes) ELSE Base
  /\ Graph = "G2" => Range(nodes) \subseteq Range(queue) \union searched

LEMMA ReachGrows ==
  ASSUME NEW S \in SUBSET Hosts, NEW g
  PROVE  S \subseteq Reach(S, g) /\ Reach(S, g) \in SUBSET Hosts
BY AcrossGrows DEF Reach

(* The number of the day, and what was found before it.                    *)
LEMMA BaseType ==
  ASSUME IInv, Searching
  PROVE  /\ DayNo \in Nat /\ DayNo - 1 \in Nat /\ DayOf(DayNo) = day
         /\ Base1 \in SUBSET Hosts /\ Base2 \in SUBSET Hosts /\ Base3 \in SUBSET Hosts
         /\ Base \in SUBSET Hosts
         /\ Found[DayNo] = Reach(Base3, Order[3])
<1>1. /\ query \in Queries /\ query.start \in Nat /\ query.end \in Nat /\ day \in Nat
      /\ query.start <= day /\ day <= query.end
  BY DEF IInv, TypeOK, Loops, Queries
<1>2. DayNo \in Nat /\ DayNo - 1 \in Nat /\ DayOf(DayNo) = day /\ (DayNo - 1) + 1 = DayNo
  <2>1. CASE Paths
    <3>1. DayNo = query.end + 1 - day /\ DayOf(DayNo) = query.end + 1 - DayNo
      BY <2>1 DEF DayNo, DayOf
    <3>2. QED BY <1>1, <3>1
  <2>2. CASE ~ Paths
    <3>1. DayNo = day + 1 - query.start /\ DayOf(DayNo) = query.start + DayNo - 1
      BY <2>2 DEF DayNo, DayOf
    <3>2. \A n \in Int, d \in Nat, s \in Nat : (n = d + 1 - s /\ s <= d) =>
            n \in Nat /\ n - 1 \in Nat /\ s + n - 1 = d /\ (n - 1) + 1 = n
      OBVIOUS
    <3>3. DayNo \in Int
      BY <1>1, <3>1
    <3>4. QED BY <1>1, <3>1, <3>2, <3>3
  <2>3. QED BY <2>1, <2>2
<1>3. Base1 \in SUBSET Hosts /\ Found[DayNo] = FoundOn(Base1, ledger[day])
  BY <1>1, <1>2, FoundDayByDay DEF Base1
<1>4. Base2 \in SUBSET Hosts /\ Base3 \in SUBSET Hosts
  BY <1>3, ReachGrows DEF Base2, Base3
<1>5. FoundOn(Base1, ledger[day]) = Reach(Base3, Order[3])
  BY DEF FoundOn, Base3, Base2, Reach, Order
<1>6. QED BY <1>2, <1>3, <1>4, <1>5 DEF Base

LEMMA SameBase ==
  ASSUME UNCHANGED <<query, ledger, day, phase>>
  PROVE  Base' = Base /\ Reach(Base, Graph)' = Reach(Base, Graph) /\ Graph' = Graph
<1>1. Found' = Found
  BY FoundUnchanged
<1>2. Paths' = Paths /\ Graph' = Graph /\ Order' = Order /\ DayNo' = DayNo
  BY DEF Paths, Graph, Order, DayNo
<1>3. \A S, g : Reach(S, g)' = Reach(S, g)
  BY DEF Reach, Across1, AcrossAll, Alerts, Units, Between, Paths
<1>4. Base' = Base
  <2>1. Base1' = Base1
    BY <1>1, <1>2 DEF Base1
  <2>2. Base2' = Base2
    BY <1>2, <1>3, <2>1 DEF Base2
  <2>3. Base3' = Base3
    BY <1>2, <1>3, <2>2 DEF Base3
  <2>4. QED BY <2>1, <2>2, <2>3 DEF Base
<1>5. QED BY <1>2, <1>3, <1>4

(* An alert leads from a host that was reached to a host that is reached.  *)
LEMMA ReachOn ==
  ASSUME NEW S \in SUBSET Hosts, NEW h, NEW other \in Hosts,
         Between(other, h) \in Alerts(Stored),
         IF Graph = "G2" THEN h \in Reach(S, Graph) ELSE h \in S
  PROVE  other \in Reach(S, Graph)
<1>1. CASE Graph = "G2"
  BY <1>1, AcrossGrows DEF Reach, Stored
<1>2. CASE Graph # "G2"
  BY <1>2 DEF Reach, Stored, Across1
<1>3. QED BY <1>1, <1>2

(* With an empty queue the search of the graph has found all it should.    *)
LEMMA GraphSearched ==
  ASSUME IInv, FoundInv, Searching, queue = <<>>
  PROVE  Range(nodes) = Reach(Base, Graph)
<1>1. /\ Base \subseteq searched /\ Base \in SUBSET Hosts
      /\ Range(nodes) \subseteq Reach(Base, Graph)
      /\ Base \subseteq Range(nodes)
      /\ Graph = "G2" => Range(nodes) \subseteq searched
      /\ Range(nodes) \subseteq Hosts
  BY BaseType DEF FoundInv, Range, IInv, TypeOK
<1>2. \A h \in searched, other \in Hosts :
        Between(other, h) \in Alerts(Stored) => other \in Range(nodes)
  BY DEF IInv, SearchedIsClosed, Searching
<1>3. CASE Graph = "G2"
  <2>1. Across1(Range(nodes), Stored) \subseteq Range(nodes)
    BY <1>1, <1>2, <1>3 DEF Across1
  <2>2. Reach(Base, Graph) \subseteq Range(nodes)
    BY <1>1, <1>3, <2>1 DEF Reach, AcrossAll, Stored
  <2>3. QED BY <1>1, <2>2
<1>4. CASE Graph # "G2"
  <2>1. Reach(Base, Graph) \subseteq Range(nodes)
    BY <1>1, <1>2, <1>4 DEF Reach, Across1, Stored
  <2>2. QED BY <1>1, <2>1
<1>5. QED BY <1>3, <1>4

(* The search begins with the host asked for.                              *)
LEMMA BeginFinds ==
  ASSUME IInv, Begin
  PROVE  FoundInv'
<1>1. /\ query \in Queries /\ query.host \in Hosts
      /\ query.start \in Nat /\ query.end \in Nat
      /\ UNCHANGED <<query, ledger>> /\ phase' = 1 /\ searched' = {}
      /\ nodes' = <<query.host>> /\ queue' = <<query.host>>
      /\ day' = IF Paths THEN query.end ELSE query.start
  BY DEF IInv, TypeOK, Loops, Queries, Begin, inputs
<1>2. Range(nodes') = {query.host} /\ Range(queue') = {query.host}
  BY <1>1 DEF Range
<1>3. DayNo' - 1 = 0
  BY <1>1 DEF DayNo, Paths
<1>4. Found' = Found /\ Found[0] = {query.host}
  BY <1>1, FoundUnchanged, FoundDayByDay
<1>5. Base' = {query.host}
  BY <1>1, <1>3, <1>4 DEF Base, Base1
<1>6. Base' \subseteq Reach(Base, Graph)'
  <2>1. \A S \in SUBSET Hosts : \A l : S \subseteq Across1(S, l)' /\ S \subseteq AcrossAll(S, l)'
    BY DEF Across1, AcrossAll
  <2>2. Base' \in SUBSET Hosts
    BY <1>1, <1>5
  <2>3. QED BY <2>1, <2>2 DEF Reach
<1>7. QED BY <1>1, <1>2, <1>5, <1>6 DEF FoundInv

(* A query that fails, a host's next unit or label, and the answer.        *)
LEMMA SameFinds ==
  ASSUME FoundInv,
         \/ pc' = "error"
         \/ /\ UNCHANGED <<query, ledger, day, phase, queue, searched, nodes>>
            /\ Searching' => Searching
  PROVE  FoundInv'
<1>1. CASE pc' = "error"
  BY <1>1 DEF FoundInv, Searching
<1>2. CASE /\ UNCHANGED <<query, ledger, day, phase, queue, searched, nodes>>
           /\ Searching' => Searching
  BY <1>2, SameBase DEF FoundInv
<1>3. QED BY <1>1, <1>2

(* Noting an alert: the host across is reached from the visited one.       *)
LEMMA NotedFinds ==
  ASSUME IInv, FoundInv, Discover \/ Meet
  PROVE  FoundInv'
<1>1. TypeOK /\ Noted
  BY DiscoverNotes, MeetNotes DEF IInv
<1>2. /\ pc = "search" /\ Searching /\ AtUnit /\ Looking
      /\ queue \in Seq(Hosts) /\ Other \in Hosts
      /\ Edge \in Alerts(Stored)
      /\ UNCHANGED <<query, ledger, pc, day, phase, searched>>
  BY <1>1, LookingAt DEF Noted, Looking, Concerned, AtUnit, Visiting, TypeOK, Searching
<1>3. /\ Base \subseteq Range(nodes)
      /\ Range(nodes) \subseteq Reach(Base, Graph)
      /\ Base \subseteq Range(queue) \union searched
      /\ Range(queue) \union searched \subseteq IF Graph = "G2" THEN Range(nodes) ELSE Base
      /\ Graph = "G2" => Range(nodes) \subseteq Range(queue) \union searched
  BY <1>2 DEF FoundInv
<1>4. Other \in Reach(Base, Graph)
  <2>1. Base \in SUBSET Hosts /\ Visited \in Range(queue)
    BY <1>1, <1>2, BaseType, AtTheUnit
  <2>2. Between(Other, Visited) \in Alerts(Stored)
    BY <1>2 DEF Edge
  <2>3. IF Graph = "G2" THEN Visited \in Reach(Base, Graph) ELSE Visited \in Base
    BY <1>3, <2>1
  <2>4. QED BY <1>2, <2>1, <2>2, <2>3, ReachOn
<1>5. Range(nodes') = Range(nodes) \union {Other}
  BY <1>1, NotedGraph
<1>6. CASE Graph = "G2"
  <2>1. Range(queue') \subseteq Range(queue) \union {Other}
    BY <1>1, NotedGraph
  <2>2. Range(queue) \union {Other} \subseteq Range(queue') \union searched
    <3>1. \/ queue' = queue /\ Other \in Range(queue) \union searched
          \/ queue' = Append(queue, Other)
      BY <1>6 DEF Discover, Meet, Enqueue
    <3>2. Range(Append(queue, Other)) = Range(queue) \union {Other}
      BY <1>2, AppendRange
    <3>3. QED BY <3>1, <3>2
  <2>3. QED BY <1>2, <1>3, <1>4, <1>5, <1>6, <2>1, <2>2, SameBase DEF FoundInv
<1>7. CASE Graph # "G2"
  <2>1. queue' = queue
    BY <1>7 DEF Discover, Meet, Enqueue
  <2>2. QED BY <1>2, <1>3, <1>4, <1>5, <1>7, <2>1, SameBase DEF FoundInv
<1>8. QED BY <1>6, <1>7

(* Going on to the next host of the queue.                                 *)
LEMMA NextHostFinds ==
  ASSUME IInv, FoundInv, NextHost
  PROVE  FoundInv'
<1>1. /\ pc = "search" /\ queue # <<>> /\ queue \in Seq(Hosts)
      /\ searched' = searched \union {Head(queue)} /\ queue' = Tail(queue)
      /\ UNCHANGED <<query, ledger, pc, day, phase, nodes>>
  BY DEF IInv, TypeOK, NextHost, Visiting, Visited, inputs
<1>2. Range(queue) = Range(Tail(queue)) \union {Head(queue)}
  <2>1. /\ Head(queue) = queue[1] /\ Len(queue) \in Nat /\ Len(queue) > 0
        /\ DOMAIN queue = 1..Len(queue)
        /\ DOMAIN Tail(queue) = 1..(Len(queue) - 1)
        /\ \A k \in 1..(Len(queue) - 1) : Tail(queue)[k] = queue[k + 1]
    BY <1>1
  <2>2. ASSUME NEW k \in 1..Len(queue)
        PROVE  queue[k] \in Range(Tail(queue)) \union {Head(queue)}
    <3>1. CASE k = 1
      BY <2>1, <3>1
    <3>2. CASE k # 1
      <4>1. k - 1 \in 1..(Len(queue) - 1) /\ (k - 1) + 1 = k
        BY <2>1, <3>2
      <4>2. Tail(queue)[k - 1] = queue[k]
        BY <2>1, <4>1
      <4>3. QED BY <2>1, <4>1, <4>2 DEF Range
    <3>3. QED BY <3>1, <3>2
  <2>3. Range(Tail(queue)) \union {Head(queue)} \subseteq Range(queue)
    BY <2>1 DEF Range
  <2>4. QED BY <2>1, <2>2, <2>3 DEF Range
<1>3. Range(queue') \union searched' = Range(queue) \union searched
  BY <1>1, <1>2
<1>4. QED BY <1>1, <1>3, SameBase DEF FoundInv, Searching

(* The next graph starts from what this one has found, and the next day    *)
(* from what Found has for this one.                                       *)
LEMMA RestartFinds ==
  ASSUME IInv, IInv', FoundInv, NextGraph \/ NextDay
  PROVE  FoundInv'
<1>1. /\ TypeOK /\ pc = "search" /\ Searching /\ queue = <<>> /\ Searching'
      /\ queue' = nodes /\ searched' = {}
      /\ UNCHANGED <<query, ledger, pc, nodes>>
      /\ phase \in 1..3 /\ day \in Nat /\ query.start \in Nat /\ query.end \in Nat
  BY DEF IInv, TypeOK, Queries, Searching, NextGraph, NextDay, Restart, inputs
<1>2. Found' = Found /\ Paths' = Paths /\ Order' = Order
  BY <1>1, FoundUnchanged DEF Paths, Order
<1>3. Range(nodes) = Reach(Base, Graph)
  BY <1>1, GraphSearched
<1>4. Base' = Reach(Base, Graph)
  <2>1. CASE NextGraph
    <3>1. phase' = phase + 1 /\ phase \in {1, 2} /\ UNCHANGED day
      BY <1>1, <2>1 DEF NextGraph
    <3>2. \A S, g : Reach(S, g)' = Reach(S, g)
      BY <1>1, <3>1 DEF Reach, Across1, AcrossAll, Alerts, Units, Between, Paths
    <3>3. Base1' = Base1
      BY <1>1, <1>2, <3>1 DEF Base1, DayNo
    <3>4. Base2' = Base2
      BY <1>2, <3>2, <3>3 DEF Base2
    <3>5. Base3' = Base3
      BY <1>2, <3>2, <3>4 DEF Base3
    <3>6. CASE phase = 1
      BY <3>1, <3>4, <3>6 DEF Base, Base2, Graph
    <3>7. CASE phase = 2
      BY <3>1, <3>5, <3>7 DEF Base, Base3, Graph
    <3>8. QED BY <3>1, <3>6, <3>7
  <2>2. CASE NextDay
    <3>1. /\ phase = 3 /\ phase' = 1
          /\ day' = IF Paths THEN day - 1 ELSE day + 1
      BY <2>2 DEF NextDay
    <3>2. day' \in Nat
      BY DEF IInv, TypeOK
    <3>3. DayNo' - 1 = DayNo
      BY <1>1, <1>2, <3>1, <3>2 DEF DayNo
    <3>4. Base' = Found[DayNo]
      BY <1>2, <3>1, <3>3 DEF Base, Base1
    <3>5. QED BY <1>1, <3>1, <3>4, BaseType DEF Base, Graph
  <2>3. QED BY <2>1, <2>2
<1>5. /\ Base' \in SUBSET Hosts /\ Base' \subseteq Reach(Base, Graph)'
  <2>1. Base' \in SUBSET Hosts
    BY <1>1, <1>4, BaseType, ReachGrows
  <2>2. \A S \in SUBSET Hosts : \A l : S \subseteq Across1(S, l)' /\ S \subseteq AcrossAll(S, l)'
    BY DEF Across1, AcrossAll
  <2>3. QED BY <2>1, <2>2 DEF Reach
<1>6. Range(nodes') = Base' /\ Range(queue') = Base' /\ searched' = {}
  BY <1>1, <1>3, <1>4
<1>7. QED BY <1>5, <1>6 DEF FoundInv

LEMMA NextFinds == IInv /\ IInv' /\ FoundInv /\ [Next]_vars => FoundInv'
<1> SUFFICES ASSUME IInv, IInv', FoundInv, [Next]_vars
             PROVE  FoundInv'
  OBVIOUS
<1>1. CASE Refuse \/ NoIndex \/ NoUnit \/ NextUnit \/ NoAlert \/ Answer \/ UNCHANGED vars
  <2>1. \/ pc' = "error"
        \/ /\ UNCHANGED <<query, ledger, day, phase, queue, searched, nodes>>
           /\ pc' = pc \/ pc = "search"
    BY <1>1 DEF Refuse, NoIndex, NoUnit, NextUnit, NoAlert, Answer, vars, inputs
  <2>2. QED BY <2>1, SameFinds DEF Searching
<1>2. QED BY <1>1, BeginFinds, NotedFinds, NextHostFinds, RestartFinds DEF Next

(* The answer's hosts are those the alerts of the days connect with the    *)
(* one asked for, for any ledger, any number of hosts and any days.        *)
THEOREM HostsAreFound == SafetySpec => []FindsTheHosts
<1>1. Init => FoundInv
  BY DEF Init, FoundInv, Searching
<1>2. ASSUME IInv, FoundInv
      PROVE  FindsTheHosts
  <2>1. SUFFICES ASSUME pc = "done"
                 PROVE  Range(nodes) = Found[query.end + 1 - query.start]
    BY DEF FindsTheHosts
  <2>2. Searching /\ queue = <<>> /\ phase = 3 /\ LastOne
    BY <1>2, <2>1 DEF IInv, Loops, Searching
  <2>3. Range(nodes) = Reach(Base3, Order[3])
    BY <1>2, <2>2, GraphSearched DEF Base, Graph
  <2>4. DayNo = query.end + 1 - query.start
    BY <2>2 DEF LastOne, DayNo
  <2>5. QED BY <1>2, <2>2, <2>3, <2>4, BaseType
<1>3. QED BY <1>1, <1>2, InvariantHolds, NextFinds, PTL DEF SafetySpec
=============================================================================
