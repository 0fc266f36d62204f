------------------------- MODULE ExplorerPages_proofs -------------------------
(***************************************************************************)
(* The explorer's pages for any channels, panels, heights and numbers of   *)
(* selections: when a figure may be stale, what a torn answer about a      *)
(* ledger may look like, that the figures of a channel add up, and that    *)
(* the tables list the whole of it.                                        *)
(***************************************************************************)
EXTENDS ExplorerPages, FiniteSetTheorems, WellFoundedInduction, TLAPS

(* Requests whose answer the page has not seen.                            *)
Pending == open \union {reply.request : reply \in replies}

(* A request is for a panel of the page and for no later selection.        *)
WellAsked == /\ round \in Nat
             /\ \A r \in Pending : /\ r.panel \in PanelsOf(page)
                                   /\ r.round \in Nat /\ r.round <= round

Drawn == figures = [p \in PanelsOf(page) |-> figures[p]]

(* Why a figure may be stale: an answer is still to come, or what the      *)
(* history says.                                                           *)
Fresh(p) == figures[p] = Blank \/ figures[p].round = round
Excused(p) == p \in overtaken \/ <<p, round>> \in failed
Accounted == \A p \in PanelsOf(page) :
               Fresh(p) \/ Excused(p) \/ \E q \in Pending : q.panel = p

FiguresInv == WellAsked /\ Drawn /\ Accounted

(* The ledgers and the selection, as far as the answer depends on them.    *)
Ledgers == /\ ledger \in [Channels -> Seq(Nat)]
           /\ selected \in Channels

(* The parts of the answer come in their order, and none is of a ledger    *)
(* higher than the present one.                                            *)
Height == Len(ledger[selected])
Parts(n) == {InfoParts[i] : i \in 1..n}
InOrder == /\ \E n \in 0..3 : DOMAIN info = Parts(n)
           /\ page # "info" => DOMAIN info = {}
           /\ \A part \in DOMAIN info : info[part] \in Nat /\ info[part] <= Height
           /\ \A i, j \in 1..3 : i <= j /\ InfoParts[j] \in DOMAIN info =>
                                   info[InfoParts[i]] <= info[InfoParts[j]]

InfoInv == Ledgers /\ InOrder

-----------------------------------------------------------------------------
(* The first figures are blank and asked for.                              *)
LEMMA InitFigures == Init => FiguresInv
BY DEF Init, FiguresInv, WellAsked, Pending, Request, Drawn, Accounted, Fresh

(* Serving a request keeps it pending.                                     *)
LEMMA ServeFigures ==
  ASSUME FiguresInv, Serve
  PROVE  FiguresInv'
<1>1. PICK r \in open :
        /\ open' = open \ {r}
        /\ \E v : replies' = replies \union {[request |-> r, value |-> v]}
        /\ UNCHANGED <<page, round, figures, overtaken, failed>>
  BY DEF Serve, shown, history
<1>2. Pending' = Pending
  <2> PICK v : replies' = replies \union {[request |-> r, value |-> v]}
    BY <1>1
  <2> DEFINE reply == [request |-> r, value |-> v]
  <2>1. reply.request = r /\ replies' = replies \union {reply}
    BY <1>1
  <2> HIDE DEF reply
  <2>2. {a.request : a \in replies'} = {a.request : a \in replies} \union {r}
    BY <2>1
  <2>3. QED BY <1>1, <2>2 DEF Pending
<1>3. QED BY <1>1, <1>2 DEF FiguresInv, WellAsked, Drawn, Accounted, Fresh, Excused, PanelsOf

(* A selection asks for every panel again.                                 *)
LEMMA SelectFigures ==
  ASSUME FiguresInv, Select
  PROVE  FiguresInv'
<1>1. PICK c \in Channels \ {selected} :
        /\ round' = round + 1
        /\ open' = open \union {Request(p, c, round + 1) : p \in PanelsOf(page)}
        /\ UNCHANGED <<page, replies, figures>>
  BY DEF Select
<1>2. Pending' = Pending \union {Request(p, c, round + 1) : p \in PanelsOf(page)}
  BY <1>1 DEF Pending
<1>3. WellAsked'
  BY <1>1, <1>2 DEF FiguresInv, WellAsked, Request, PanelsOf
<1>4. Drawn'
  BY <1>1 DEF FiguresInv, Drawn, PanelsOf
<1>5. \A p \in PanelsOf(page) : \E q \in Pending' : q.panel = p
  <2> SUFFICES ASSUME NEW p \in PanelsOf(page)
               PROVE  \E q \in Pending' : q.panel = p
    OBVIOUS
  <2>1. Request(p, c, round + 1) \in Pending'
    BY <1>2
  <2>2. Request(p, c, round + 1).panel = p
    BY DEF Request
  <2>3. QED BY <2>1, <2>2
<1>6. Accounted'
  BY <1>1, <1>5 DEF Accounted, PanelsOf
<1>7. QED BY <1>3, <1>4, <1>6 DEF FiguresInv

(* A lost request leaves its figure blank.                                 *)
LEMMA LoseFigures ==
  ASSUME FiguresInv, Lose
  PROVE  FiguresInv'
<1> USE DEF FiguresInv
<1>1. PICK r \in open :
        /\ open' = open \ {r}
        /\ failed' = failed \union {<<r.panel, r.round>>}
        /\ figures' = [figures EXCEPT ![r.panel] = Blank]
        /\ UNCHANGED <<page, round, replies, overtaken>>
  BY DEF Lose
<1>2. Pending' \subseteq Pending
  BY <1>1 DEF Pending
<1>3. \A q \in Pending : q = r \/ q \in Pending'
  BY <1>1 DEF Pending
<1>4. WellAsked' /\ Drawn'
  BY <1>1, <1>2 DEF WellAsked, Drawn, PanelsOf
<1>5. r.panel \in PanelsOf(page)
  BY DEF WellAsked, Pending
<1>6. /\ figures'[r.panel] = Blank
      /\ \A p \in PanelsOf(page) \ {r.panel} : figures'[p] = figures[p]
  BY <1>1, <1>5 DEF Drawn
<1>7. Accounted'
  BY <1>1, <1>3, <1>6 DEF Accounted, Fresh, Excused, PanelsOf
<1>8. QED BY <1>4, <1>7

(* A table sets its figure, or blanks it.                                  *)
LEMMA FillTableFigures ==
  ASSUME NEW r, NEW height, FillTable(r, height)
  PROVE  /\ failed \subseteq failed'
         /\ \E new \in {Blank, Figure(r, height)} : figures' = [figures EXCEPT ![r.panel] = new]
BY DEF FillTable

(* An answer makes its figure fresh, or fails, or something newer is still *)
(* to come, or it is noted as too late.                                    *)
LEMMA ReceiveFigures ==
  ASSUME FiguresInv, Receive
  PROVE  FiguresInv'
<1> USE DEF FiguresInv
<1>1. PICK reply \in replies :
        LET r == reply.request IN
        /\ replies' = replies \ {reply}
        /\ overtaken' = IF r.round < round /\ Newer(r) = {} THEN overtaken \union {r.panel}
                        ELSE overtaken
        /\ \/ /\ failed' = failed \union {<<r.panel, r.round>>}
              /\ figures' = figures
           \/ /\ failed \subseteq failed'
              /\ \E new \in {Blank, Figure(r, reply.value)} :
                   figures' = [figures EXCEPT ![r.panel] = new]
        /\ UNCHANGED <<page, round, open>>
  BY FillTableFigures DEF Receive, shown
<1> DEFINE r == reply.request
<1>2. r \in Pending /\ Pending' \subseteq Pending
  BY <1>1 DEF Pending
<1>3. \A q \in Pending : q = r \/ q \in Pending'
  BY <1>1 DEF Pending
<1>4. WellAsked' /\ Drawn'
  BY <1>1, <1>2 DEF WellAsked, Drawn, PanelsOf
<1>5. r.panel \in PanelsOf(page) /\ r.round \in Nat /\ r.round <= round /\ round \in Nat
  BY <1>2 DEF WellAsked
<1>6. Newer(r) # {} => \E q \in Pending' : q.panel = r.panel
  BY <1>3, <1>5 DEF Newer, Pending
<1>7. \A p \in PanelsOf(page) \ {r.panel} : figures'[p] = figures[p]
  BY <1>1 DEF Drawn
<1>8. CASE r.round < round
  <2>1. r.panel \in overtaken' \/ \E q \in Pending' : q.panel = r.panel
    BY <1>1, <1>6, <1>8
  <2>2. QED BY <1>1, <1>3, <1>4, <1>7, <2>1 DEF Accounted, Fresh, Excused, PanelsOf
<1>9. CASE r.round = round
  <2>1. <<r.panel, round>> \in failed' \/ figures'[r.panel] = Blank
          \/ figures'[r.panel].round = round
    BY <1>1, <1>5, <1>9 DEF Drawn, Figure
  <2>2. QED BY <1>1, <1>3, <1>4, <1>7, <2>1 DEF Accounted, Fresh, Excused, PanelsOf
<1>10. QED BY <1>5, <1>8, <1>9

(* Every step keeps the figures accounted for.                             *)
LEMMA NextFigures == FiguresInv /\ [Next]_vars => FiguresInv'
<1> SUFFICES ASSUME FiguresInv, [Next]_vars
             PROVE  FiguresInv'
  OBVIOUS
<1>1. CASE Serve
  BY <1>1, ServeFigures
<1>2. CASE Select
  BY <1>2, SelectFigures
<1>3. CASE Lose
  BY <1>3, LoseFigures
<1>4. CASE Receive
  BY <1>4, ReceiveFigures
<1>5. CASE ServeAdrift \/ Commit \/ ReadInfo \/ UNCHANGED vars
  <2>1. UNCHANGED <<page, round, open, replies, figures, overtaken, failed>>
    BY <1>5 DEF ServeAdrift, Commit, ReadInfo, vars, shown, history
  <2>2. QED BY <2>1 DEF FiguresInv, WellAsked, Pending, Drawn, Accounted, Fresh, Excused, PanelsOf
<1>6. QED BY <1>1, <1>2, <1>3, <1>4, <1>5 DEF Next

(* A figure at rest is stale only if its last request failed or an older   *)
(* answer overtook the newer one (dashboard.js:11-20).                     *)
THEOREM StaleNeedsCause == Spec => []FiguresOfSelected
<1>1. FiguresInv => FiguresOfSelected
  <2> SUFFICES ASSUME FiguresInv, ~ Waiting, NEW p \in DOMAIN figures,
                      figures[p] # Blank, figures[p].round # round
               PROVE  p \in overtaken \/ <<p, round>> \in failed
    BY DEF FiguresOfSelected
  <2>1. Pending = {} /\ p \in PanelsOf(page)
    BY DEF FiguresInv, Drawn, Waiting, Pending
  <2>2. QED BY <2>1 DEF FiguresInv, Accounted, Fresh, Excused
<1>2. QED BY <1>1, InitFigures, NextFigures, PTL DEF Spec
-----------------------------------------------------------------------------
(* How many parts have come tells which.                                   *)
LEMMA PartsCount ==
  ASSUME NEW n \in 0..3
  PROVE  /\ Cardinality(Parts(n)) = n
         /\ n < 3 => Parts(n + 1) = Parts(n) \union {InfoParts[n + 1]}
                     /\ InfoParts[n + 1] \notin Parts(n)
<1>1. /\ InfoParts[1] = "height" /\ InfoParts[2] = "currentBlockHash"
      /\ InfoParts[3] = "previousBlockHash"
  BY DEF InfoParts
<1>2. /\ Parts(0) = {} /\ Parts(1) = {"height"}
      /\ Parts(2) = {"height", "currentBlockHash"}
      /\ Parts(3) = {"height", "currentBlockHash", "previousBlockHash"}
  BY <1>1 DEF Parts
<1>3. /\ Cardinality(Parts(0)) = 0 /\ IsFiniteSet(Parts(0))
      /\ Cardinality(Parts(1)) = 1 /\ IsFiniteSet(Parts(1))
  <2>1. Cardinality({}) = 0 /\ IsFiniteSet({})
    BY FS_EmptySet
  <2>2. Cardinality({"height"}) = 1 /\ IsFiniteSet({"height"})
    BY FS_Singleton
  <2>3. QED BY <1>2, <2>1, <2>2
<1>4. Cardinality(Parts(2)) = 2 /\ IsFiniteSet(Parts(2))
  <2>1. Parts(2) = Parts(1) \union {"currentBlockHash"} /\ "currentBlockHash" \notin Parts(1)
    BY <1>2
  <2>2. QED BY <2>1, <1>3, FS_AddElement
<1>5. Cardinality(Parts(3)) = 3
  <2>1. Parts(3) = Parts(2) \union {"previousBlockHash"} /\ "previousBlockHash" \notin Parts(2)
    BY <1>2
  <2>2. QED BY <2>1, <1>4, FS_AddElement
<1>6. CASE n = 0
  BY <1>1, <1>2, <1>3, <1>6
<1>7. CASE n = 1
  BY <1>1, <1>2, <1>3, <1>7
<1>8. CASE n = 2
  BY <1>1, <1>2, <1>4, <1>8
<1>9. CASE n = 3
  BY <1>5, <1>9
<1>10. QED BY <1>6, <1>7, <1>8, <1>9

(* At the start there is no part.                                          *)
LEMMA InitInfo == Init => InfoInv
<1> SUFFICES ASSUME Init
             PROVE  InfoInv
  OBVIOUS
<1>1. Ledgers
  BY ExplorerAssumption DEF Init, Ledgers
<1>2. DOMAIN info = {} /\ Parts(0) = {}
  BY DEF Init, Parts
<1>3. InOrder
  BY <1>2 DEF InOrder
<1>4. QED BY <1>1, <1>3 DEF InfoInv

(* A block that is committed makes no ledger lower.                        *)
LEMMA CommitInfo ==
  ASSUME InfoInv, Commit
  PROVE  InfoInv'
<1>1. PICK c \in Channels, n \in 1..2 :
        /\ ledger' = [ledger EXCEPT ![c] = Append(@, n)]
        /\ UNCHANGED <<page, info, selected>>
  BY DEF Commit
<1>2. Ledgers'
  BY <1>1 DEF InfoInv, Ledgers
<1>3. Height \in Nat /\ Height' \in Nat /\ Height <= Height'
  BY <1>1 DEF InfoInv, Ledgers, Height
<1>4. InOrder'
  <2>1. \A part \in DOMAIN info : info[part] <= Height'
    BY <1>3 DEF InfoInv, InOrder
  <2>2. QED BY <1>1, <2>1 DEF InfoInv, InOrder, Parts
<1>5. QED BY <1>2, <1>4 DEF InfoInv

(* The next part is of the present ledger, so none before it is of a       *)
(* higher one.                                                             *)
LEMMA ReadInfoInfo ==
  ASSUME InfoInv, ReadInfo
  PROVE  InfoInv'
<1>1. PICK n \in 0..3 : DOMAIN info = Parts(n)
  BY DEF InfoInv, InOrder
<1>2. n < 3 /\ Cardinality(DOMAIN info) = n
  BY <1>1, PartsCount DEF ReadInfo
<1> DEFINE part == InfoParts[n + 1]
<1>3. /\ page = "info" /\ UNCHANGED <<page, ledger, selected>>
      /\ info' = [p \in DOMAIN info \union {part} |-> IF p = part THEN Height ELSE info[p]]
  BY <1>2 DEF ReadInfo, Height
<1>4. Parts(n + 1) = Parts(n) \union {part} /\ part \notin Parts(n)
  BY <1>2, PartsCount
<1>5. /\ DOMAIN info' = Parts(n + 1)
      /\ info'[part] = Height
      /\ \A q \in Parts(n) : info'[q] = info[q]
  BY <1>1, <1>3, <1>4
<1>6. Height \in Nat /\ Height' = Height
  BY <1>3 DEF InfoInv, Ledgers, Height
<1>7. Ledgers'
  BY <1>3 DEF InfoInv, Ledgers
<1>8. InOrder'
  <2>1. \E k \in 0..3 : DOMAIN info' = Parts(k)
    BY <1>2, <1>5
  <2>2. \A q \in DOMAIN info' : info'[q] \in Nat /\ info'[q] <= Height'
    BY <1>1, <1>4, <1>5, <1>6 DEF InfoInv, InOrder
  <2>3. ASSUME NEW i \in 1..3, NEW j \in 1..3, i <= j, InfoParts[j] \in DOMAIN info'
        PROVE  info'[InfoParts[i]] <= info'[InfoParts[j]]
    <3>1. j <= n + 1
      BY <1>2, <1>5, <2>3 DEF Parts, InfoParts
    <3>2. InfoParts[i] \in DOMAIN info'
      BY <1>2, <1>5, <2>3, <3>1 DEF Parts
    <3>3. CASE j = n + 1
      BY <1>5, <1>6, <2>2, <3>2, <3>3
    <3>4. CASE j <= n
      <4>1. InfoParts[i] \in Parts(n) /\ InfoParts[j] \in Parts(n)
        BY <1>2, <2>3, <3>4 DEF Parts
      <4>2. QED BY <1>1, <1>5, <2>3, <4>1 DEF InfoInv, InOrder
    <3>5. QED BY <1>2, <3>1, <3>3, <3>4
  <2>4. QED BY <1>3, <2>1, <2>2, <2>3 DEF InOrder
<1>9. QED BY <1>7, <1>8 DEF InfoInv

(* Every step keeps the parts in order.                                    *)
LEMMA NextInfo == InfoInv /\ [Next]_vars => InfoInv'
<1> SUFFICES ASSUME InfoInv, [Next]_vars
             PROVE  InfoInv'
  OBVIOUS
<1>1. CASE Commit
  BY <1>1, CommitInfo
<1>2. CASE ReadInfo
  BY <1>2, ReadInfoInfo
<1>3. CASE Select
  <2>1. /\ page # "info" /\ selected' \in Channels
        /\ UNCHANGED <<page, ledger, info>>
    BY <1>3 DEF Select, Tables
  <2>2. QED BY <2>1 DEF InfoInv, Ledgers, InOrder
<1>4. CASE Serve \/ ServeAdrift \/ Lose \/ Receive \/ UNCHANGED vars
  <2>1. UNCHANGED <<page, ledger, selected, info>>
    BY <1>4 DEF Serve, ServeAdrift, Lose, Receive, vars, server
  <2>2. QED BY <2>1 DEF InfoInv, Ledgers, InOrder, Height
<1>5. QED BY <1>1, <1>2, <1>3, <1>4 DEF Next

(* The hashes in the answer to queryBlockchainInfo are never older than    *)
(* its height, for ledgers of any height (TempChannel.java:153-156).       *)
THEOREM HashesAreRecent == Spec => []HashesNotOlder
<1>1. InfoInv => HashesNotOlder
  <2> SUFFICES ASSUME InfoInv, DOMAIN info = ToSet(InfoParts)
               PROVE  HashesNotOlder
    BY DEF HashesNotOlder
  <2>1. /\ InfoParts[1] = "height" /\ InfoParts[2] = "currentBlockHash"
        /\ InfoParts[3] = "previousBlockHash" /\ ToSet(InfoParts) = {InfoParts[i] : i \in 1..3}
    BY DEF InfoParts, ToSet
  <2>2. \A i \in 1..3 : InfoParts[i] \in DOMAIN info
    BY <2>1
  <2>3. \A i, j \in 1..3 : i <= j => info[InfoParts[i]] <= info[InfoParts[j]]
    BY <2>2 DEF InfoInv, InOrder
  <2>4. QED BY <2>1, <2>3 DEF HashesNotOlder
<1>2. QED BY <1>1, InitInfo, NextInfo, PTL DEF Spec

-----------------------------------------------------------------------------
(* What the service adds up.                                               *)

(* The natural numbers lie in every set that has 0 and each successor.     *)
LEMMA LessThanWF == IsWellFoundedOn({p \in Nat \X Nat : p[1] < p[2]}, Nat)
BY NatLessThanWellFounded DEF OpToRel

LEMMA SetInduction ==
  ASSUME NEW S, 0 \in S, \A n \in Nat : n \in S => n + 1 \in S
  PROVE  Nat \subseteq S
<1> DEFINE R == {p \in Nat \X Nat : p[1] < p[2]}
           T == Nat \ S
<1>1. SUFFICES ASSUME T # {} PROVE FALSE
  OBVIOUS
<1>2. PICK x \in T : \A y \in T : <<y, x>> \notin R
  <2> HIDE DEF T, R
  <2>1. IsWellFoundedOn(R, Nat)
    BY LessThanWF DEF R
  <2>2. T \subseteq Nat
    BY DEF T
  <2>3. QED BY <2>1, <2>2, <1>1, WFMin
<1>3. x \in Nat /\ x # 0 /\ x - 1 \in Nat
  OBVIOUS
<1>4. x - 1 \in T /\ <<x - 1, x>> \in R
  BY <1>3
<1>5. QED BY <1>2, <1>4

(* A set of numbers up to n has a greatest.                                *)
LEMMA Greatest ==
  ASSUME NEW n \in Nat, NEW s \in SUBSET (1..n), s # {}
  PROVE  Max(s) \in s /\ \A y \in s : y <= Max(s)
<1> DEFINE Has(m) == \A t \in SUBSET (1..m) : t # {} => \E x \in t : \A y \in t : x >= y
           S == {m \in Nat : Has(m)}
<1>1. 0 \in S
  <2>1. \A t \in SUBSET (1..0) : t = {}
    OBVIOUS
  <2>2. QED BY <2>1
<1>2. ASSUME NEW m \in Nat, m \in S
      PROVE  m + 1 \in S
  <2> SUFFICES ASSUME NEW t \in SUBSET (1..(m + 1)), t # {}
               PROVE  \E x \in t : \A y \in t : x >= y
    OBVIOUS
  <2>1. CASE m + 1 \in t
    BY <2>1
  <2>2. CASE m + 1 \notin t
    <3>1. t \in SUBSET (1..m)
      BY <2>2
    <3>2. QED BY <3>1, <1>2
  <2>3. QED BY <2>1, <2>2
<1>3. Has(n)
  <2> HIDE DEF Has
  <2>1. Nat \subseteq S
    <3> HIDE DEF S
    <3>1. QED BY <1>1, <1>2, SetInduction
  <2>2. QED BY <2>1
<1>4. \E x \in s : \A y \in s : x >= y
  BY <1>3
<1>5. Max(s) \in s /\ \A y \in s : Max(s) >= y
  BY <1>4 DEF Max
<1>6. QED BY <1>5

LEMMA GreatestIs ==
  ASSUME NEW n \in Nat, NEW s \in SUBSET (1..(n + 1)), n + 1 \in s
  PROVE  Max(s) = n + 1
<1>1. n + 1 \in Nat /\ s # {}
  OBVIOUS
<1>2. Max(s) \in s /\ \A y \in s : y <= Max(s)
  BY <1>1, Greatest
<1>3. Max(s) \in 1..(n + 1) /\ n + 1 <= Max(s)
  BY <1>2
<1>4. QED BY <1>3

(* g adds up the blocks that a set of numbers up to n names.               *)
Adds(n, g, blocks) ==
  g = [s \in SUBSET (1..n) |-> IF s = {} THEN 0 ELSE g[s \ {Max(s)}] + blocks[Max(s)]]

LEMMA AddsNext ==
  ASSUME NEW n \in Nat, NEW blocks, NEW g, Adds(n, g, blocks)
  PROVE  \E h : Adds(n + 1, h, blocks)
<1> DEFINE h == [s \in SUBSET (1..(n + 1)) |->
                   IF n + 1 \in s THEN g[s \ {n + 1}] + blocks[n + 1] ELSE g[s]]
<1>1. ASSUME NEW s \in SUBSET (1..(n + 1))
      PROVE  h[s] = IF s = {} THEN 0 ELSE h[s \ {Max(s)}] + blocks[Max(s)]
  <2>1. CASE s = {}
    <3>1. h[s] = g[s] /\ s \in SUBSET (1..n)
      BY <2>1
    <3> HIDE DEF h
    <3>2. QED BY <2>1, <3>1 DEF Adds
  <2>2. CASE n + 1 \in s
    <3>1. Max(s) = n + 1
      BY <2>2, GreatestIs
    <3>2. s \ {n + 1} \in SUBSET (1..(n + 1)) /\ n + 1 \notin s \ {n + 1}
      OBVIOUS
    <3>3. h[s \ {n + 1}] = g[s \ {n + 1}]
      BY <3>2
    <3>4. h[s] = g[s \ {n + 1}] + blocks[n + 1]
      BY <2>2
    <3> HIDE DEF h
    <3>5. QED BY <2>2, <3>1, <3>3, <3>4
  <2>3. CASE s # {} /\ n + 1 \notin s
    <3> DEFINE top == Max(s)
    <3>1. s \in SUBSET (1..n)
      BY <2>3
    <3>2. /\ s \ {top} \in SUBSET (1..(n + 1)) /\ s \ {top} \in SUBSET (1..n)
          /\ n + 1 \notin s \ {top}
      BY <2>3, <3>1
    <3>3. h[s] = g[s] /\ h[s \ {top}] = g[s \ {top}]
      BY <2>3, <3>2
    <3>4. g[s] = g[s \ {top}] + blocks[top]
      BY <2>3, <3>1 DEF Adds
    <3> HIDE DEF h
    <3>5. QED BY <2>3, <3>3, <3>4
  <2>4. QED BY <2>1, <2>2, <2>3
<1>2. Adds(n + 1, h, blocks)
  <2>1. h = [s \in SUBSET (1..(n + 1)) |-> h[s]]
    OBVIOUS
  <2> HIDE DEF h
  <2>2. QED BY <1>1, <2>1 DEF Adds
<1>3. QED BY <1>2

LEMMA SomethingAdds ==
  ASSUME NEW n \in Nat, NEW blocks
  PROVE  \E g : Adds(n, g, blocks)
<1> DEFINE S == {m \in Nat : \E g : Adds(m, g, blocks)}
<1>1. 0 \in S
  <2>1. Adds(0, [s \in SUBSET (1..0) |-> 0], blocks)
    BY DEF Adds
  <2>2. QED BY <2>1
<1>2. \A m \in Nat : m \in S => m + 1 \in S
  BY AddsNext
<1>3. Nat \subseteq S
  <2> HIDE DEF S
  <2>1. QED BY <1>1, <1>2, SetInduction
<1>4. QED BY <1>3

(* The transactions of the first k blocks.                                 *)
Transactions(k, blocks) == {p \in (1..k) \X (1..2) : p[2] <= blocks[p[1]]}

LEMMA CountNext ==
  ASSUME NEW blocks \in Seq(1..2), NEW k \in Nat, k + 1 <= Len(blocks),
         IsFiniteSet(Transactions(k, blocks))
  PROVE  /\ IsFiniteSet(Transactions(k + 1, blocks))
         /\ Cardinality(Transactions(k + 1, blocks))
              = Cardinality(Transactions(k, blocks)) + blocks[k + 1]
<1> DEFINE T == Transactions(k, blocks)
           first == <<k + 1, 1>>
           second == <<k + 1, 2>>
<1>1. blocks[k + 1] \in {1, 2}
  <2>1. k + 1 \in 1..Len(blocks)
    OBVIOUS
  <2>2. QED BY <2>1
<1>2. first \notin T /\ second \notin T \union {first}
  BY DEF Transactions
<1>3. Cardinality(T) \in Nat /\ IsFiniteSet(T)
  BY FS_CardinalityType
<1>4. IsFiniteSet(T \union {first}) /\ Cardinality(T \union {first}) = Cardinality(T) + 1
  BY <1>2, <1>3, FS_AddElement
<1>5. (1..(k + 1)) \X (1..2) = ((1..k) \X (1..2)) \union {first, second}
  OBVIOUS
<1>6. first[1] = k + 1 /\ first[2] = 1 /\ second[1] = k + 1 /\ second[2] = 2
  OBVIOUS
<1>7. CASE blocks[k + 1] = 1
  <2>1. Transactions(k + 1, blocks) = T \union {first}
    BY <1>5, <1>6, <1>7 DEF Transactions
  <2>2. QED BY <1>4, <1>7, <2>1
<1>8. CASE blocks[k + 1] = 2
  <2>1. Transactions(k + 1, blocks) = (T \union {first}) \union {second}
    BY <1>5, <1>6, <1>8 DEF Transactions
  <2>2. /\ IsFiniteSet((T \union {first}) \union {second})
        /\ Cardinality((T \union {first}) \union {second}) = Cardinality(T \union {first}) + 1
    BY <1>2, <1>4, FS_AddElement
  <2> HIDE DEF T, first, second
  <2>3. Cardinality(Transactions(k + 1, blocks)) = Cardinality(T) + 2
    <3> DEFINE a == Cardinality(T)
               b == Cardinality(T \union {first})
               c == Cardinality((T \union {first}) \union {second})
    <3>1. a \in Nat /\ b = a + 1 /\ c = b + 1
      BY <1>3, <1>4, <2>2
    <3>2. Cardinality(Transactions(k + 1, blocks)) = c
      BY <2>1
    <3> HIDE DEF a, b, c
    <3>3. c = a + 2
      BY <3>1
    <3>4. QED BY <3>2, <3>3 DEF a
  <2>4. QED BY <1>8, <2>1, <2>2, <2>3 DEF T
<1>9. QED BY <1>1, <1>7, <1>8

(* The total is the number of transactions.                                *)
LEMMA TotalCounts ==
  ASSUME NEW blocks \in Seq(1..2)
  PROVE  Total(blocks) = Cardinality(Transactions(Len(blocks), blocks))
<1> DEFINE n == Len(blocks)
           sum == CHOOSE g : Adds(n, g, blocks)
<1>1. n \in Nat /\ DOMAIN blocks = 1..n
  OBVIOUS
<1>2. Total(blocks) = sum[1..n]
  <2>1. Total(blocks) = (CHOOSE iter : iter = [s \in SUBSET DOMAIN blocks |->
          IF s = {} THEN 0 ELSE iter[s \ {Max(s)}] + blocks[Max(s)]])[DOMAIN blocks]
    BY DEF Total, FoldLeft, MapThenFoldSet
  <2>2. QED BY <1>1, <2>1 DEF Adds
<1>3. Adds(n, sum, blocks)
  BY <1>1, SomethingAdds
<1> HIDE DEF sum, n
<1> DEFINE S == {k \in Nat : k <= n => /\ IsFiniteSet(Transactions(k, blocks))
                                       /\ sum[1..k] = Cardinality(Transactions(k, blocks))}
<1>4. 0 \in S
  <2>1. Transactions(0, blocks) = {}
    BY DEF Transactions
  <2>2. sum[1..0] = 0
    BY <1>1, <1>3 DEF Adds
  <2>3. QED BY <2>1, <2>2, FS_EmptySet
<1>5. ASSUME NEW k \in Nat, k \in S
      PROVE  k + 1 \in S
  <2> SUFFICES ASSUME k + 1 <= n
               PROVE  /\ IsFiniteSet(Transactions(k + 1, blocks))
                      /\ sum[1..(k + 1)] = Cardinality(Transactions(k + 1, blocks))
    OBVIOUS
  <2>1. IsFiniteSet(Transactions(k, blocks)) /\ sum[1..k] = Cardinality(Transactions(k, blocks))
    BY <1>1, <1>5
  <2> DEFINE s == 1..(k + 1)
  <2>2. s \in SUBSET (1..n) /\ s # {} /\ s \in SUBSET (1..(k + 1)) /\ k + 1 \in s
    <3>1. \A i \in s : i \in 1..n
      BY <1>1
    <3>2. s \in SUBSET (1..n)
      BY <3>1
    <3>3. k + 1 \in s
      OBVIOUS
    <3>4. QED BY <3>2, <3>3
  <2>3. Max(s) = k + 1
    BY <2>2, GreatestIs
  <2>4. s \ {k + 1} = 1..k
    OBVIOUS
  <2>5. sum[s] = sum[1..k] + blocks[k + 1]
    <3> HIDE DEF s
    <3>1. sum[s] = sum[s \ {Max(s)}] + blocks[Max(s)]
      BY <1>3, <2>2 DEF Adds
    <3>2. QED BY <2>3, <2>4, <3>1
  <2>6. k + 1 <= Len(blocks)
    BY DEF n
  <2>7. QED BY <2>1, <2>5, <2>6, CountNext
<1>6. n \in S
  <2> HIDE DEF S
  <2>1. QED BY <1>1, <1>4, <1>5, SetInduction
<1>7. QED BY <1>2, <1>6 DEF n

-----------------------------------------------------------------------------
(* The ledgers and the selection; a figure is of no later round.           *)
Blocks == /\ ledger \in [Channels -> Seq(1..2)]
          /\ selected \in Channels
Past == \A p \in PanelsOf(page) :
          figures[p] # Blank => figures[p].round \in Nat /\ figures[p].round <= round

(* A manager has the label of the selected channel and is not its own: it  *)
(* serves every request until another channel is selected.                 *)
Wrong == instance.label = selected /\ instance.bound # selected

(* While no block is committed, the answers and the figures of this round  *)
(* are what the service would answer now for the selected channel.         *)
Told == \A reply \in replies : reply.request.round = round =>
          \/ reply.value = Refused
          \/ reply.value = getAmount(reply.request.panel, selected)
Figured == \A p \in PanelsOf(page) :
             figures[p] # Blank /\ figures[p].round = round =>
               figures[p].value = getAmount(p, selected)

(* Without requests from before the selection, the service has to do with  *)
(* one channel only.                                                       *)
Calm == /\ racing = {}
        /\ \A q \in AtService : q.channel = selected
        /\ ~ grown => Wrong \/ (Told /\ Figured)

AddInv == /\ WellAsked /\ Drawn /\ Blocks /\ Past
          /\ page = "dashboard" /\ "requests" \notin overlapped => Calm

LEMMA InitAdd == Init => AddInv
<1> SUFFICES ASSUME Init
             PROVE  AddInv
  OBVIOUS
<1>1. WellAsked /\ Drawn
  BY InitFigures DEF FiguresInv
<1>2. Blocks
  BY ExplorerAssumption DEF Init, Blocks
<1>3. Past /\ Calm
  BY DEF Init, Past, Calm, AtService, Request, Told, Figured
<1>4. QED BY <1>1, <1>2, <1>3 DEF AddInv

(* What the service would answer depends on the ledgers and the page.      *)
LEMMA SameAmount ==
  ASSUME UNCHANGED <<page, ledger>>, NEW p, NEW c
  PROVE  getAmount(p, c)' = getAmount(p, c)
BY DEF getAmount

(* A call for the selected channel gets its manager or the wrong one,      *)
(* which stays.                                                            *)
LEMMA CalmObtain ==
  ASSUME racing = {}, NEW m \in obtain(selected)
  PROVE  /\ m.bound = selected \/ Wrong
         /\ Wrong => m = instance
<1>1. CASE instance.label = selected
  BY <1>1 DEF obtain, Wrong
<1>2. CASE instance.label # selected
  BY <1>2 DEF obtain, Wrong, Manager
<1>3. QED BY <1>1, <1>2

LEMMA CalmLeave ==
  ASSUME racing = {}, NEW r, r.channel = selected, NEW ok, Leave(r, ok), UNCHANGED selected
  PROVE  racing' = {} /\ (Wrong => Wrong')
<1>1. instance' \in obtain(selected) \union {instance}
  BY DEF Leave
<1>2. Wrong => instance' = instance
  BY <1>1, CalmObtain
<1>3. QED BY <1>2 DEF Leave, Wrong

LEMMA ServeAdd ==
  ASSUME AddInv, Serve
  PROVE  AddInv'
<1>1. PICK r \in open, ok \in BOOLEAN : \E m \in obtain(r.channel) :
        /\ open' = open \ {r}
        /\ replies' = replies \union
             {[request |-> r, value |-> IF ok THEN getAmount(r.panel, m.bound) ELSE Refused]}
        /\ Leave(r, ok)
        /\ UNCHANGED <<page, ledger, adrift, selected, round, figures, overlapped, grown>>
  BY DEF Serve, shown, history
<1>2. PICK m \in obtain(r.channel) :
        replies' = replies \union
          {[request |-> r, value |-> IF ok THEN getAmount(r.panel, m.bound) ELSE Refused]}
  BY <1>1
<1> DEFINE reply == [request |-> r, value |-> IF ok THEN getAmount(r.panel, m.bound) ELSE Refused]
<1>3. /\ reply.request = r /\ replies' = replies \union {reply}
      /\ reply.value = Refused \/ reply.value = getAmount(r.panel, m.bound)
  BY <1>2
<1> HIDE DEF reply
<1>4. Pending' = Pending /\ r \in Pending
  <2>1. {a.request : a \in replies'} = {a.request : a \in replies} \union {r}
    BY <1>3
  <2>2. QED BY <1>1, <2>1 DEF Pending
<1>5. WellAsked' /\ Drawn' /\ Blocks' /\ Past'
  BY <1>1, <1>4 DEF AddInv, WellAsked, Drawn, Blocks, Past, PanelsOf
<1>6. \A p, c : getAmount(p, c)' = getAmount(p, c)
  BY <1>1, SameAmount
<1>7. ASSUME Calm PROVE Calm'
  <2>1. r.channel = selected /\ racing = {}
    BY <1>7 DEF Calm, AtService
  <2>2. racing' = {} /\ (Wrong => Wrong')
    BY <1>1, <2>1, CalmLeave
  <2>3. m.bound = selected \/ Wrong
    BY <2>1, CalmObtain
  <2>4. \A q \in AtService' : q.channel = selected'
    BY <1>1, <1>7 DEF Calm, AtService
  <2>5. ASSUME ~ grown, ~ Wrong PROVE Told' /\ Figured'
    <3>1. Told'
      BY <1>1, <1>3, <1>6, <1>7, <2>3, <2>5 DEF Calm, Told
    <3>2. Figured'
      BY <1>1, <1>6, <1>7, <2>5 DEF Calm, Figured, PanelsOf
    <3>3. QED BY <3>1, <3>2
  <2>6. QED BY <1>1, <2>2, <2>4, <2>5 DEF Calm
<1>8. QED BY <1>1, <1>5, <1>7 DEF AddInv

LEMMA ServeAdriftAdd ==
  ASSUME AddInv, ServeAdrift
  PROVE  AddInv'
<1>1. PICK r \in adrift :
        /\ adrift' = adrift \ {r}
        /\ Leave(r, FALSE)
        /\ UNCHANGED <<page, ledger, selected, round, open, replies, figures, overlapped, grown>>
  BY DEF ServeAdrift, shown, history
<1>2. WellAsked' /\ Drawn' /\ Blocks' /\ Past'
  BY <1>1 DEF AddInv, WellAsked, Drawn, Blocks, Past, Pending, PanelsOf
<1>3. \A p, c : getAmount(p, c)' = getAmount(p, c)
  BY <1>1, SameAmount
<1>4. ASSUME Calm PROVE Calm'
  <2>1. r.channel = selected /\ racing = {}
    BY <1>4 DEF Calm, AtService
  <2>2. racing' = {} /\ (Wrong => Wrong')
    BY <1>1, <2>1, CalmLeave
  <2>3. Told' = Told /\ Figured' = Figured
    BY <1>1, <1>3 DEF Told, Figured, PanelsOf
  <2>4. QED BY <1>1, <1>4, <2>2, <2>3 DEF Calm, AtService
<1>5. QED BY <1>1, <1>2, <1>4 DEF AddInv

LEMMA CommitAdd ==
  ASSUME AddInv, Commit
  PROVE  AddInv'
<1>1. PICK c \in Channels, n \in 1..2 :
        /\ ledger' = [ledger EXCEPT ![c] = Append(@, n)]
        /\ grown' = TRUE
        /\ UNCHANGED <<page, adrift, racing, selected, round, open, replies, figures, overlapped>>
  BY DEF Commit, shown
<1>2. Blocks'
  BY <1>1 DEF AddInv, Blocks
<1>3. WellAsked' /\ Drawn' /\ Past'
  BY <1>1 DEF AddInv, WellAsked, Drawn, Past, Pending, PanelsOf
<1>4. Calm => Calm'
  BY <1>1 DEF Calm, AtService
<1>5. QED BY <1>1, <1>2, <1>3, <1>4 DEF AddInv

(* No answer and no figure is of the new round.                            *)
LEMMA SelectAdd ==
  ASSUME AddInv, Select
  PROVE  AddInv'
<1>1. PICK c \in Channels \ {selected} :
        /\ selected' = c /\ round' = round + 1
        /\ open' = open \union {Request(p, c, round + 1) : p \in PanelsOf(page)}
        /\ racing' = IF AtService = {} THEN {} ELSE Around(c)
        /\ overlapped' = OnTheWay
        /\ UNCHANGED <<page, ledger, adrift, replies, figures>>
  BY DEF Select
<1>2. Pending' = Pending \union {Request(p, c, round + 1) : p \in PanelsOf(page)}
  BY <1>1 DEF Pending
<1>3. WellAsked' /\ Drawn'
  BY <1>1, <1>2 DEF AddInv, WellAsked, Drawn, Request, PanelsOf
<1>4. Blocks'
  BY <1>1 DEF AddInv, Blocks
<1>5. round \in Nat /\ \A q \in Pending : q.round # round + 1
  BY DEF AddInv, WellAsked
<1>6. Past' /\ Figured'
  BY <1>1, <1>5 DEF AddInv, Past, Figured, PanelsOf
<1>7. Told'
  <2>1. \A reply \in replies : reply.request \in Pending
    BY DEF Pending
  <2>2. QED BY <1>1, <1>5, <2>1 DEF Told
<1>8. ASSUME "requests" \notin overlapped' PROVE Calm'
  <2>1. AtService = {}
    BY <1>1, <1>8 DEF OnTheWay
  <2>2. \A q \in AtService' : q.channel = selected'
    BY <1>1, <2>1 DEF AtService, Request
  <2>3. QED BY <1>1, <1>6, <1>7, <2>1, <2>2 DEF Calm
<1>9. QED BY <1>3, <1>4, <1>6, <1>8 DEF AddInv

LEMMA LoseAdd ==
  ASSUME AddInv, Lose
  PROVE  AddInv'
<1>1. PICK r \in open :
        /\ open' = open \ {r}
        /\ adrift' = adrift \union {r}
        /\ figures' = [figures EXCEPT ![r.panel] = Blank]
        /\ UNCHANGED <<page, ledger, instance, racing, selected, round, replies,
                       overlapped, grown>>
  BY DEF Lose
<1>2. Pending' \subseteq Pending
  BY <1>1 DEF Pending
<1>3. \A p \in PanelsOf(page) : figures'[p] = Blank \/ figures'[p] = figures[p]
  BY <1>1 DEF AddInv, Drawn
<1>4. WellAsked' /\ Drawn' /\ Blocks'
  BY <1>1, <1>2 DEF AddInv, WellAsked, Drawn, Blocks, PanelsOf
<1>5. Past'
  BY <1>1, <1>3 DEF AddInv, Past, PanelsOf
<1>6. \A p, c : getAmount(p, c)' = getAmount(p, c)
  BY <1>1, SameAmount
<1>7. AtService' = AtService /\ Wrong' = Wrong
  BY <1>1 DEF AtService, Wrong
<1>8. (Told => Told') /\ (Figured => Figured')
  BY <1>1, <1>3, <1>6 DEF Told, Figured, PanelsOf
<1>9. Calm => Calm'
  BY <1>1, <1>7, <1>8 DEF Calm
<1>10. QED BY <1>1, <1>4, <1>5, <1>9 DEF AddInv

(* An answer that is not a refusal is drawn as it came.                    *)
LEMMA ReceiveAdd ==
  ASSUME AddInv, Receive
  PROVE  AddInv'
<1>1. PICK reply \in replies :
        LET r == reply.request IN
        /\ replies' = replies \ {reply}
        /\ \/ figures' = figures
           \/ /\ reply.value # Refused
              /\ \E new \in {Blank, Figure(r, reply.value)} :
                   figures' = [figures EXCEPT ![r.panel] = new]
        /\ page \notin Tables => UNCHANGED <<instance, racing>>
        /\ UNCHANGED <<page, ledger, adrift, selected, round, open, overlapped, grown>>
  BY FillTableFigures DEF Receive, shown
<1> DEFINE r == reply.request
           new == Figure(r, reply.value)
<1>2. r \in Pending /\ Pending' \subseteq Pending
  BY <1>1 DEF Pending
<1>3. r.panel \in PanelsOf(page) /\ r.round \in Nat /\ r.round <= round
  BY <1>2 DEF AddInv, WellAsked
<1>4. WellAsked' /\ Drawn' /\ Blocks'
  BY <1>1, <1>2 DEF AddInv, WellAsked, Drawn, Blocks, PanelsOf
<1>5. new.round = r.round /\ new.value = reply.value
  BY DEF Figure
<1>6. \A p \in PanelsOf(page) : \/ figures'[p] = Blank \/ figures'[p] = figures[p]
                                \/ p = r.panel /\ figures'[p] = new /\ reply.value # Refused
  BY <1>1 DEF AddInv, Drawn
<1> HIDE DEF new
<1>7. Past'
  BY <1>1, <1>3, <1>5, <1>6 DEF AddInv, Past, PanelsOf
<1>8. \A p, c : getAmount(p, c)' = getAmount(p, c)
  BY <1>1, SameAmount
<1>9. ASSUME page = "dashboard", Calm PROVE Calm'
  <2>1. UNCHANGED <<instance, racing>>
    BY <1>1, <1>9 DEF Tables
  <2>2. Wrong' = Wrong /\ AtService' = AtService
    BY <1>1, <2>1 DEF Wrong, AtService
  <2>3. ASSUME Told, Figured PROVE Told' /\ Figured'
    <3>1. Told'
      BY <1>1, <1>8, <2>3 DEF Told
    <3>2. r.round = round /\ reply.value # Refused => reply.value = getAmount(r.panel, selected)
      BY <2>3 DEF Told
    <3>3. Figured'
      BY <1>1, <1>5, <1>6, <1>8, <2>3, <3>2 DEF Figured, PanelsOf
    <3>4. QED BY <3>1, <3>3
  <2>4. QED BY <1>1, <1>9, <2>1, <2>2, <2>3 DEF Calm
<1>10. QED BY <1>1, <1>4, <1>7, <1>9 DEF AddInv

LEMMA NextAdd == AddInv /\ [Next]_vars => AddInv'
<1> SUFFICES ASSUME AddInv, [Next]_vars
             PROVE  AddInv'
  OBVIOUS
<1>1. CASE ReadInfo
  <2>1. page = "info" /\ UNCHANGED <<page, ledger, selected, round, open, replies, figures>>
    BY <1>1 DEF ReadInfo, shown
  <2>2. QED BY <2>1 DEF AddInv, WellAsked, Drawn, Blocks, Past, Pending, PanelsOf
<1>2. CASE UNCHANGED vars
  <2>1. /\ UNCHANGED <<page, ledger, instance, adrift, racing, selected, round, open, replies>>
        /\ UNCHANGED <<figures, overlapped, grown>>
    BY <1>2 DEF vars, server, shown, history
  <2>2. WellAsked' /\ Drawn' /\ Blocks' /\ Past'
    BY <2>1 DEF AddInv, WellAsked, Drawn, Blocks, Past, Pending, PanelsOf
  <2>3. \A p, c : getAmount(p, c)' = getAmount(p, c)
    BY <2>1, SameAmount
  <2>4. Told' = Told /\ Figured' = Figured /\ Wrong' = Wrong /\ AtService' = AtService
    BY <2>1, <2>3 DEF Told, Figured, Wrong, AtService, PanelsOf
  <2>5. QED BY <2>1, <2>2, <2>4 DEF AddInv, Calm
<1>3. QED BY <1>1, <1>2, ServeAdd, ServeAdriftAdd, CommitAdd, SelectAdd, LoseAdd, ReceiveAdd
          DEF Next

(* The figures for blocks and for transactions are of the selected         *)
(* channel's ledger if no block came in between, no request from before    *)
(* the selection competed and no wrong label had stayed, for channels of   *)
(* any height: the service adds up what a count of the transactions gives  *)
(* (FabricManager.java:176-191, B2csmManager.java:23-27).                  *)
THEOREM AmountsAgree == Spec => []FiguresAddUp
<1>1. AddInv => FiguresAddUp
  <2> SUFFICES ASSUME AddInv, ~ grown, "requests" \notin overlapped,
                      instance.bound = instance.label, Tables \subseteq DOMAIN figures,
                      figures["blocks"] # Blank, figures["transactions"] # Blank,
                      figures["blocks"].round = round, figures["transactions"].round = round
               PROVE  /\ figures["blocks"].value = Len(ledger[selected])
                      /\ figures["transactions"].value
                           = Cardinality({p \in (1..figures["blocks"].value) \X (1..2) :
                                            p[2] <= ledger[selected][p[1]]})
    BY DEF FiguresAddUp
  <2>1. Tables \subseteq PanelsOf(page)
    BY DEF AddInv, Drawn
  <2>2. page = "dashboard"
    BY <2>1 DEF PanelsOf, Tables
  <2>3. Figured
    BY <2>2 DEF AddInv, Calm, Wrong
  <2>4. /\ figures["blocks"].value = getAmount("blocks", selected)
        /\ figures["transactions"].value = getAmount("transactions", selected)
    BY <2>1, <2>3 DEF Figured, Tables
  <2>5. /\ getAmount("blocks", selected) = Len(ledger[selected])
        /\ getAmount("transactions", selected) = Total(ledger[selected])
    BY <2>2 DEF getAmount, Kinds
  <2>6. ledger[selected] \in Seq(1..2)
    BY DEF AddInv, Blocks
  <2>7. QED BY <2>4, <2>5, <2>6, TotalCounts DEF Transactions
<1>2. QED BY <1>1, InitAdd, NextAdd, PTL DEF Spec

-----------------------------------------------------------------------------
(* What a table or a list shows: every block, or every transaction, once   *)
(* and the newest block first; or every name once.                         *)
BlockEntries(n) ==
  IF page = "blocks" THEN {<<selected, n>>}
  ELSE {<<selected, n, j>> : j \in 1..ledger[selected][n + 1]}

Ordered(s) == \A i, k \in DOMAIN s : i < k => Above(s[i], s[k])

LEMMA EntriesNext ==
  ASSUME NEW n \in Nat
  PROVE  /\ Entries(n + 1) = BlockEntries(n) \union Entries(n)
         /\ Entries(0) = {}
         /\ \A x \in Entries(n) : x[2] \in Int /\ x[2] < n
         /\ \A x \in BlockEntries(n) : x[2] = n
<1>1. 0..((n + 1) - 1) = (0..(n - 1)) \union {n} /\ 0..(0 - 1) = {}
  OBVIOUS
<1>2. CASE page = "blocks"
  BY <1>1, <1>2 DEF Entries, BlockEntries
<1>3. CASE page # "blocks"
  <2>1. Entries(n + 1) = BlockEntries(n) \union Entries(n) /\ Entries(0) = {}
    BY <1>1, <1>3 DEF Entries, BlockEntries
  <2>2. \A x \in Entries(n) : x[2] \in Int /\ x[2] < n
    BY <1>3 DEF Entries
  <2>3. \A x \in BlockEntries(n) : x[2] = n
    BY <1>3 DEF BlockEntries
  <2>4. QED BY <2>1, <2>2, <2>3
<1>4. QED BY <1>2, <1>3

LEMMA LinesAre ==
  ASSUME page \in Tables, ledger[selected] \in Seq(1..2),
         NEW n \in Nat, n < Len(ledger[selected])
  PROVE  /\ Lines(selected, n) \in Seq(BlockEntries(n))
         /\ ToSet(Lines(selected, n)) = BlockEntries(n)
         /\ Ordered(Lines(selected, n))
<1>1. CASE page = "blocks"
  BY <1>1 DEF Lines, BlockEntries, ToSet, Ordered
<1>2. CASE page = "transactions"
  <2> DEFINE m == ledger[selected][n + 1]
             lines == [j \in 1..m |-> <<selected, n, j>>]
  <2>1. m \in Nat
    <3>1. n + 1 \in 1..Len(ledger[selected])
      OBVIOUS
    <3>2. QED BY <3>1
  <2>2. Lines(selected, n) = lines /\ BlockEntries(n) = {<<selected, n, j>> : j \in 1..m}
    BY <1>2 DEF Lines, BlockEntries
  <2> HIDE DEF m
  <2>3. lines \in Seq({<<selected, n, j>> : j \in 1..m})
    BY <2>1
  <2>4. ToSet(lines) = {<<selected, n, j>> : j \in 1..m}
    BY DEF ToSet
  <2>5. Ordered(lines)
    BY <1>2, <2>1 DEF Ordered, Above
  <2>6. QED BY <2>2, <2>3, <2>4, <2>5
<1>3. QED BY <1>1, <1>2 DEF Tables

(* The rows of a block above those of older blocks.                        *)
LEMMA OnTop ==
  ASSUME NEW n \in Nat,
         NEW a \in Seq(BlockEntries(n)), ToSet(a) = BlockEntries(n), Ordered(a),
         NEW b \in Seq(Entries(n)), ToSet(b) = Entries(n), Ordered(b)
  PROVE  /\ a \o b \in Seq(Entries(n + 1))
         /\ ToSet(a \o b) = Entries(n + 1)
         /\ Ordered(a \o b)
<1> DEFINE A == BlockEntries(n)
           B == Entries(n)
<1>1. /\ Entries(n + 1) = A \union B
      /\ \A x \in B : x[2] \in Int /\ x[2] < n
      /\ \A x \in A : x[2] = n
  BY EntriesNext
<1> HIDE DEF A, B
<1>2. a \in Seq(A \union B) /\ b \in Seq(A \union B) /\ a \in Seq(A) /\ b \in Seq(B)
  BY DEF A, B
<1>3. /\ a \o b \in Seq(A \union B)
      /\ DOMAIN (a \o b) = 1..(Len(a) + Len(b)) /\ Len(a) \in Nat /\ Len(b) \in Nat
      /\ \A i \in 1..Len(a) : (a \o b)[i] = a[i] /\ a[i] \in A
      /\ \A i \in 1..Len(b) : (a \o b)[Len(a) + i] = b[i] /\ b[i] \in B
  BY <1>2
<1>4. \A i \in DOMAIN (a \o b) : i \in 1..Len(a) \/ \E k \in 1..Len(b) : i = Len(a) + k
  <2> SUFFICES ASSUME NEW i \in 1..(Len(a) + Len(b)), i \notin 1..Len(a)
               PROVE  \E k \in 1..Len(b) : i = Len(a) + k
    BY <1>3
  <2>1. i - Len(a) \in 1..Len(b) /\ i = Len(a) + (i - Len(a))
    BY <1>3
  <2>2. QED BY <2>1
<1>5. ToSet(a \o b) = A \union B
  <2>1. ToSet(a \o b) \subseteq A \union B
    BY <1>3, <1>4 DEF ToSet
  <2>2. A \subseteq ToSet(a \o b)
    <3> SUFFICES ASSUME NEW x \in A PROVE x \in ToSet(a \o b)
      OBVIOUS
    <3>1. PICK i \in 1..Len(a) : a[i] = x
      BY <1>2 DEF A, ToSet
    <3>2. i \in DOMAIN (a \o b) /\ (a \o b)[i] = x
      BY <1>3, <3>1
    <3>3. QED BY <3>2 DEF ToSet
  <2>3. B \subseteq ToSet(a \o b)
    <3> SUFFICES ASSUME NEW x \in B PROVE x \in ToSet(a \o b)
      OBVIOUS
    <3>1. PICK i \in 1..Len(b) : b[i] = x
      BY <1>2 DEF B, ToSet
    <3>2. Len(a) + i \in DOMAIN (a \o b) /\ (a \o b)[Len(a) + i] = x
      BY <1>3, <3>1
    <3>3. QED BY <3>2 DEF ToSet
  <2>4. QED BY <2>1, <2>2, <2>3
<1>6. ASSUME NEW i \in DOMAIN (a \o b), NEW k \in DOMAIN (a \o b), i < k
      PROVE  Above((a \o b)[i], (a \o b)[k])
  <2>1. CASE i \in 1..Len(a) /\ k \in 1..Len(a)
    BY <1>2, <1>3, <1>6, <2>1 DEF Ordered
  <2>2. ASSUME i \in 1..Len(a), NEW l \in 1..Len(b), k = Len(a) + l
        PROVE  Above((a \o b)[i], (a \o b)[k])
    BY <1>1, <1>3, <2>2 DEF Above
  <2>3. ASSUME NEW h \in 1..Len(b), i = Len(a) + h, k \in 1..Len(a)
        PROVE  FALSE
    BY <1>3, <1>6, <2>3
  <2>4. ASSUME NEW h \in 1..Len(b), i = Len(a) + h, NEW l \in 1..Len(b), k = Len(a) + l
        PROVE  Above((a \o b)[i], (a \o b)[k])
    <3>1. h < l /\ h \in DOMAIN b /\ l \in DOMAIN b
      BY <1>2, <1>3, <1>6, <2>4
    <3>2. Above(b[h], b[l])
      BY <3>1 DEF Ordered
    <3>3. QED BY <1>3, <2>4, <3>2
  <2>5. QED BY <1>4, <2>1, <2>2, <2>3, <2>4
<1>7. QED BY <1>1, <1>3, <1>5, <1>6 DEF Ordered

(* The loop of a page that finds every block makes a table.                *)
Tabulates(height, below) ==
  below = [n \in 0..height |->
             IF n = 0 THEN <<>> ELSE Lines(selected, n - 1) \o below[n - 1]]

LEMMA SomethingTabulates ==
  ASSUME NEW height \in Nat
  PROVE  \E below : Tabulates(height, below)
<1> DEFINE S == {m \in Nat : \E below : Tabulates(m, below)}
<1>1. 0 \in S
  <2>1. Tabulates(0, [n \in 0..0 |-> <<>>])
    BY DEF Tabulates
  <2>2. QED BY <2>1
<1>2. ASSUME NEW m \in Nat, m \in S
      PROVE  m + 1 \in S
  <2>1. PICK b : Tabulates(m, b)
    BY <1>2
  <2> DEFINE c == [n \in 0..(m + 1) |->
                     IF n = m + 1 THEN Lines(selected, m) \o b[m] ELSE b[n]]
  <2>2. ASSUME NEW n \in 0..(m + 1)
        PROVE  c[n] = IF n = 0 THEN <<>> ELSE Lines(selected, n - 1) \o c[n - 1]
    <3>1. CASE n = m + 1
      <4>1. c[n] = Lines(selected, m) \o b[m] /\ c[m] = b[m] /\ n - 1 = m /\ n # 0
        BY <3>1
      <4> HIDE DEF c
      <4>2. QED BY <4>1
    <3>2. CASE n \in 0..m
      <4>1. c[n] = b[n] /\ (n # 0 => n - 1 \in 0..m /\ c[n - 1] = b[n - 1])
        BY <3>2
      <4>2. b[n] = IF n = 0 THEN <<>> ELSE Lines(selected, n - 1) \o b[n - 1]
        BY <2>1, <3>2 DEF Tabulates
      <4> HIDE DEF c
      <4>3. QED BY <4>1, <4>2
    <3>3. QED BY <3>1, <3>2
  <2>3. c = [n \in 0..(m + 1) |-> c[n]]
    OBVIOUS
  <2> HIDE DEF c
  <2>4. Tabulates(m + 1, c)
    BY <2>2, <2>3 DEF Tabulates
  <2>5. QED BY <2>4
<1>3. Nat \subseteq S
  <2> HIDE DEF S
  <2>1. QED BY <1>1, <1>2, SetInduction
<1>4. QED BY <1>3

LEMMA RowsOfAll ==
  ASSUME page \in Tables, ledger[selected] \in Seq(1..2),
         NEW height \in Nat, height <= Len(ledger[selected]),
         NEW from, from = [n \in 0..(height - 1) |-> selected]
  PROVE  /\ RowsOf(height, from, {}) \in Seq(Entries(height))
         /\ ToSet(RowsOf(height, from, {})) = Entries(height)
         /\ Ordered(RowsOf(height, from, {}))
<1> DEFINE Raw(b) == b = [n \in 0..height |->
              IF n = 0 THEN <<>>
              ELSE (IF n - 1 \notin {} THEN Lines(from[n - 1], n - 1)
                    ELSE IF page = "blocks" THEN <<Blank>> ELSE <<>>) \o b[n - 1]]
           table == CHOOSE b : Raw(b)
<1>1. RowsOf(height, from, {}) = table[height]
  BY DEF RowsOf
<1>2. ASSUME NEW b PROVE Raw(b) <=> Tabulates(height, b)
  <2>1. \A n \in 0..height : n # 0 => from[n - 1] = selected
    OBVIOUS
  <2>2. [n \in 0..height |->
              IF n = 0 THEN <<>>
              ELSE (IF n - 1 \notin {} THEN Lines(from[n - 1], n - 1)
                    ELSE IF page = "blocks" THEN <<Blank>> ELSE <<>>) \o b[n - 1]]
          = [n \in 0..height |-> IF n = 0 THEN <<>> ELSE Lines(selected, n - 1) \o b[n - 1]]
    BY <2>1
  <2>3. QED BY <2>2 DEF Tabulates
<1>3. Tabulates(height, table)
  <2>1. \E b : Raw(b)
    BY <1>2, SomethingTabulates
  <2>2. Raw(table)
    BY <2>1
  <2>3. QED BY <1>2, <2>2
<1> HIDE DEF table, Raw
<1> DEFINE Good(t, k) == t \in Seq(Entries(k)) /\ ToSet(t) = Entries(k) /\ Ordered(t)
           S == {k \in Nat : k <= height => Good(table[k], k)}
<1>4. 0 \in S
  <2>1. table[0] = <<>>
    BY <1>3 DEF Tabulates
  <2>2. Good(<<>>, 0)
    BY EntriesNext DEF ToSet, Ordered
  <2>3. QED BY <2>1, <2>2
<1>5. ASSUME NEW k \in Nat, k \in S
      PROVE  k + 1 \in S
  <2> SUFFICES ASSUME k + 1 <= height
               PROVE  Good(table[k + 1], k + 1)
    OBVIOUS
  <2>1. Good(table[k], k)
    BY <1>5
  <2>2. table[k + 1] = Lines(selected, k) \o table[k]
    <3>1. k + 1 \in 0..height /\ k + 1 # 0 /\ (k + 1) - 1 = k
      OBVIOUS
    <3>2. QED BY <1>3, <3>1 DEF Tabulates
  <2>3. k < Len(ledger[selected])
    OBVIOUS
  <2>4. /\ Lines(selected, k) \in Seq(BlockEntries(k))
        /\ ToSet(Lines(selected, k)) = BlockEntries(k) /\ Ordered(Lines(selected, k))
    BY <2>3, LinesAre
  <2>5. QED BY <2>1, <2>2, <2>4, OnTop
<1>6. height \in S
  <2> HIDE DEF S
  <2>1. QED BY <1>4, <1>5, SetInduction
<1>7. QED BY <1>1, <1>6

LEMMA ListsAll ==
  ASSUME NEW S, IsFiniteSet(S)
  PROVE  /\ SetToSeq(S) \in Seq(S)
         /\ ToSet(SetToSeq(S)) = S
         /\ Len(SetToSeq(S)) = Cardinality(S)
<1> DEFINE n == Cardinality(S)
           f == SetToSeq(S)
<1>1. n \in Nat /\ ExistsBijection(1..n, S)
  BY FS_CardinalityType
<1>2. \E g \in [1..n -> S] : IsInjective(g)
  BY <1>1 DEF ExistsBijection, Bijection, Injection
<1>3. f \in [1..n -> S] /\ IsInjective(f)
  BY <1>2 DEF SetToSeq
<1>4. f \in Injection(1..n, S)
  BY <1>3 DEF Injection
<1> HIDE DEF f
<1>5. Cardinality(1..n) = n
  BY <1>1, FS_Interval
<1>6. f \in Surjection(1..n, S)
  BY <1>4, <1>5, FS_Injection
<1>7. ToSet(f) = S
  BY <1>3, <1>6 DEF ToSet, Surjection
<1>8. f \in Seq(S) /\ Len(f) = n
  BY <1>1, <1>3
<1>9. QED BY <1>7, <1>8 DEF f

(* A table or a list that nothing overlapped is asked for, answered and    *)
(* shown, one after the other; once it is shown it is whole, or it failed, *)
(* or a wrong label has stayed.                                            *)
Asked == Request(page, selected, round)
UpTo(v) == v \in Nat /\ v <= Height /\ (~ grown => v = Height)
Answer(v) == IF page \in Tables THEN UpTo(v) ELSE v = SetToSeq(Names[page])
Whole == /\ page \in Tables => /\ UpTo(figures[page].value)
                               /\ ToSet(rows) = Entries(figures[page].value)
                               /\ Ordered(rows)
         /\ page \in Kinds =>
              ToSet(rows) = Names[page] /\ Len(rows) = Cardinality(Names[page])

AskedFor == open = {Asked} /\ adrift = {} /\ replies = {} /\ rows = <<>>
Answered == /\ open = {} /\ adrift = {} /\ rows = <<>>
            /\ \E reply : /\ replies = {reply} /\ reply.request = Asked
                          /\ reply.value = Refused \/ Wrong \/ Answer(reply.value)
Shown == /\ open = {} /\ adrift \subseteq {Asked} /\ replies = {}
         /\ <<page, round>> \in failed \/ Wrong \/ Whole

OneByOne == overlapped = {} /\ page \in Tables \union Kinds =>
              racing = {} /\ (AskedFor \/ Answered \/ Shown)
TableInv == AddInv /\ OneByOne

LEMMA AskedIs == Asked.panel = page /\ Asked.channel = selected /\ Asked.round = round
BY DEF Asked, Request

LEMMA InitTable == Init => TableInv
<1> SUFFICES ASSUME Init, page \in Tables \union Kinds
             PROVE  racing = {} /\ AskedFor
  BY InitAdd DEF TableInv, OneByOne
<1>1. PanelsOf(page) = {page}
  BY DEF PanelsOf, Tables, Kinds
<1>2. QED BY <1>1 DEF Init, AskedFor, Asked

LEMMA ServeOne ==
  ASSUME TableInv, Serve
  PROVE  OneByOne'
<1> SUFFICES ASSUME overlapped = {}, page \in Tables \union Kinds
             PROVE  racing' = {} /\ Answered'
  BY DEF Serve, OneByOne, history
<1>1. PICK r \in open, ok \in BOOLEAN : \E m \in obtain(r.channel) :
        /\ open' = open \ {r}
        /\ replies' = replies \union
             {[request |-> r, value |-> IF ok THEN getAmount(r.panel, m.bound) ELSE Refused]}
        /\ Leave(r, ok)
        /\ UNCHANGED <<page, ledger, adrift, selected, round, rows, grown>>
  BY DEF Serve, shown, history
<1>2. PICK m \in obtain(r.channel) :
        replies' = replies \union
          {[request |-> r, value |-> IF ok THEN getAmount(r.panel, m.bound) ELSE Refused]}
  BY <1>1
<1>3. AskedFor /\ r = Asked /\ racing = {}
  BY <1>1 DEF TableInv, OneByOne, Answered, Shown, AskedFor
<1>4. r.panel = page /\ r.channel = selected
  BY <1>3, AskedIs
<1> DEFINE v == IF ok THEN getAmount(page, m.bound) ELSE Refused
           reply == [request |-> Asked, value |-> v]
<1>5. open' = {} /\ adrift' = {} /\ replies' = {reply} /\ rows' = <<>>
  BY <1>1, <1>2, <1>3, <1>4 DEF AskedFor
<1>6. racing' = {} /\ (Wrong => Wrong')
  BY <1>1, <1>3, <1>4, CalmLeave
<1>7. m.bound = selected \/ Wrong
  BY <1>3, <1>4, CalmObtain
<1>8. Answer(getAmount(page, selected))
  <2>1. CASE page \in Tables
    <3>1. getAmount(page, selected) = Len(ledger[selected])
      BY <2>1 DEF getAmount, Tables, Kinds
    <3>2. Len(ledger[selected]) \in Nat
      BY DEF TableInv, AddInv, Blocks
    <3>3. QED BY <2>1, <3>1, <3>2 DEF Answer, UpTo, Height
  <2>2. CASE page \in Kinds
    <3>1. page \notin Tables
      BY <2>2 DEF Tables, Kinds
    <3>2. getAmount(page, selected) = SetToSeq(Names[page])
      BY <2>2 DEF getAmount, Numbered, Kinds
    <3>3. QED BY <3>1, <3>2 DEF Answer
  <2>3. QED BY <2>1, <2>2
<1>9. reply.request = Asked /\ (reply.value = Refused \/ Wrong \/ Answer(reply.value))
  BY <1>7, <1>8
<1> HIDE DEF reply
<1>10. PICK new : new = reply
  OBVIOUS
<1>11. Asked' = Asked /\ (Answer(new.value) => Answer(new.value)')
  BY <1>1 DEF Asked, Request, Answer, UpTo, Height
<1>12. /\ replies' = {new} /\ new.request = Asked'
       /\ new.value = Refused \/ Wrong' \/ Answer(new.value)'
  BY <1>5, <1>6, <1>9, <1>10, <1>11
<1>13. QED BY <1>5, <1>6, <1>12 DEF Answered

LEMMA ServeAdriftOne ==
  ASSUME TableInv, ServeAdrift
  PROVE  OneByOne'
<1> SUFFICES ASSUME overlapped = {}, page \in Tables \union Kinds
             PROVE  racing' = {} /\ Shown'
  BY DEF ServeAdrift, OneByOne, history
<1>1. PICK r \in adrift :
        /\ adrift' = adrift \ {r}
        /\ Leave(r, FALSE)
        /\ UNCHANGED <<page, ledger, selected, round, open, replies, figures, rows, failed, grown>>
  BY DEF ServeAdrift, shown, history
<1>2. Shown /\ r = Asked /\ racing = {}
  BY <1>1 DEF TableInv, OneByOne, Answered, Shown, AskedFor
<1>3. racing' = {} /\ (Wrong => Wrong')
  BY <1>1, <1>2, AskedIs, CalmLeave
<1>4. Asked' = Asked /\ Whole' = Whole
  BY <1>1 DEF Asked, Request, Whole, UpTo, Height, Entries, Ordered, Above
<1>5. QED BY <1>1, <1>2, <1>3, <1>4 DEF Shown

LEMMA LoseOne ==
  ASSUME TableInv, Lose
  PROVE  OneByOne'
<1> SUFFICES ASSUME overlapped = {}, page \in Tables \union Kinds
             PROVE  racing' = {} /\ Shown'
  BY DEF Lose, OneByOne
<1>1. PICK r \in open :
        /\ open' = open \ {r}
        /\ adrift' = adrift \union {r}
        /\ failed' = failed \union {<<r.panel, r.round>>}
        /\ UNCHANGED <<page, racing, selected, round, replies>>
  BY DEF Lose
<1>2. AskedFor /\ r = Asked /\ racing = {}
  BY <1>1 DEF TableInv, OneByOne, Answered, Shown, AskedFor
<1>3. r.panel = page /\ r.round = round /\ Asked' = Asked
  BY <1>1, <1>2, AskedIs DEF Asked
<1>4. QED BY <1>1, <1>2, <1>3 DEF Shown, AskedFor

LEMMA SelectOne ==
  ASSUME TableInv, Select
  PROVE  OneByOne'
<1>1. PICK c \in Channels \ {selected} :
        /\ selected' = c /\ round' = round + 1
        /\ open' = open \union {Request(p, c, round + 1) : p \in PanelsOf(page)}
        /\ racing' = IF AtService = {} THEN {} ELSE Around(c)
        /\ rows' = <<>>
        /\ overlapped' = OnTheWay
        /\ UNCHANGED <<page, adrift, replies>>
  BY DEF Select
<1> SUFFICES ASSUME overlapped' = {}, page \in Tables \union Kinds
             PROVE  racing' = {} /\ AskedFor'
  BY <1>1 DEF OneByOne
<1>2. AtService = {} /\ replies = {}
  BY <1>1 DEF OnTheWay
<1>3. PanelsOf(page) = {page}
  BY DEF PanelsOf, Tables, Kinds
<1>4. QED BY <1>1, <1>2, <1>3 DEF AskedFor, Asked, AtService

(* A block changes nothing below the height that a table has.              *)
LEMMA CommitOne ==
  ASSUME TableInv, Commit
  PROVE  OneByOne'
<1> SUFFICES ASSUME overlapped = {}, page \in Tables \union Kinds
             PROVE  racing' = {} /\ (AskedFor' \/ Answered' \/ Shown')
  BY DEF Commit, OneByOne
<1>1. PICK c \in Channels, n \in 1..2 :
        /\ ledger' = [ledger EXCEPT ![c] = Append(@, n)]
        /\ grown' = TRUE
        /\ UNCHANGED <<page, instance, adrift, racing, selected, round, open, replies,
                       figures, rows, failed>>
  BY DEF Commit, shown
<1>2. /\ Height \in Nat /\ Height' \in Nat /\ Height <= Height'
      /\ \A i \in 1..Height : ledger'[selected][i] = ledger[selected][i]
  BY <1>1 DEF TableInv, AddInv, Blocks, Height
<1>3. ASSUME NEW v PROVE UpTo(v) => UpTo(v)' /\ Entries(v)' = Entries(v)
  <2> SUFFICES ASSUME UpTo(v)
               PROVE  UpTo(v)' /\ Entries(v)' = Entries(v)
    OBVIOUS
  <2>1. v \in Nat /\ v <= Height
    BY DEF UpTo
  <2>2. UpTo(v)'
    BY <1>1, <1>2, <2>1 DEF UpTo
  <2> DEFINE block(k) == {<<selected, k, j>> : j \in 1..ledger[selected][k + 1]}
  <2>3. \A k \in 0..(v - 1) : block(k)' = block(k)
    <3> TAKE k \in 0..(v - 1)
    <3>1. k + 1 \in 1..Height
      BY <1>2, <2>1
    <3>2. QED BY <1>1, <1>2, <3>1
  <2>4. Entries(v)' = Entries(v)
    <3>1. Entries(v) = IF page = "blocks" THEN {<<selected, k>> : k \in 0..(v - 1)}
                       ELSE UNION {block(k) : k \in 0..(v - 1)}
      BY DEF Entries
    <3>2. Entries(v)' = IF page = "blocks" THEN {<<selected, k>> : k \in 0..(v - 1)}
                        ELSE UNION {block(k)' : k \in 0..(v - 1)}
      BY <1>1 DEF Entries
    <3> HIDE DEF block
    <3>3. {block(k)' : k \in 0..(v - 1)} = {block(k) : k \in 0..(v - 1)}
      BY <2>3
    <3>4. QED BY <3>1, <3>2, <3>3
  <2>5. QED BY <2>2, <2>4
<1>4. Asked' = Asked /\ Wrong' = Wrong /\ Ordered(rows)' = Ordered(rows)
  BY <1>1 DEF Asked, Request, Wrong, Ordered, Above
<1>5. Whole => Whole'
  <2>1. CASE page \in Tables
    <3>1. page \notin Kinds
      BY <2>1 DEF Tables, Kinds
    <3> DEFINE v == figures[page].value
    <3>2. v' = v /\ rows' = rows
      BY <1>1
    <3>3. UpTo(v) => UpTo(v)' /\ Entries(v)' = Entries(v)
      BY <1>3, <3>2
    <3>4. QED BY <1>1, <1>4, <2>1, <3>1, <3>2, <3>3 DEF Whole
  <2>2. CASE page \notin Tables
    BY <1>1, <2>2 DEF Whole
  <2>3. QED BY <2>1, <2>2
<1>6. Shown => Shown'
  BY <1>1, <1>4, <1>5 DEF Shown
<1>7. Answered => Answered'
  <2> SUFFICES ASSUME NEW reply, replies = {reply}, reply.request = Asked,
                      reply.value = Refused \/ Wrong \/ Answer(reply.value),
                      open = {}, adrift = {}, rows = <<>>
               PROVE  Answered'
    BY DEF Answered
  <2>1. Answer(reply.value) => Answer(reply.value)'
    BY <1>1, <1>3 DEF Answer
  <2>2. replies' = {reply} /\ reply.request = Asked'
         /\ (reply.value = Refused \/ Wrong' \/ Answer(reply.value)')
    BY <1>1, <1>4, <2>1
  <2>3. QED BY <1>1, <2>2 DEF Answered
<1>8. AskedFor => AskedFor'
  BY <1>1, <1>4 DEF AskedFor
<1>9. QED BY <1>1, <1>6, <1>7, <1>8 DEF TableInv, OneByOne

(* Every block is read from the selected channel, unless the label is      *)
(* wrong: then the table is whole or a row is missing.                     *)
LEMMA FillTableOne ==
  ASSUME AddInv, page \in Tables, racing = {}, AtService = {}, rows = <<>>,
         NEW v, UpTo(v), ~ Wrong, FillTable(Asked, v), UNCHANGED <<page, selected, ledger, grown>>
  PROVE  racing' = {} /\ (<<page, round>> \in failed' \/ Whole')
<1> DEFINE some == {m.bound : m \in obtain(selected)}
           none(from) == {n \in 0..(v - 1) : Len(ledger[from[n]]) <= n}
<1>1. Asked.panel = page /\ Asked.channel = selected /\ Asked.round = round
  BY AskedIs
<1>2. PICK from \in [0..(v - 1) -> some], refused \in SUBSET (0..(v - 1)) :
        LET missing == refused \union none(from) IN
        /\ rows' = rows \o RowsOf(v, from, missing)
        /\ \E lost \in IF refused = {} THEN {FALSE} ELSE BOOLEAN :
             figures' = [figures EXCEPT ![page] = IF lost THEN Blank ELSE Figure(Asked, v)]
        /\ failed' = IF missing = {} THEN failed ELSE failed \union {<<page, round>>}
        /\ racing' = {}
  BY <1>1 DEF FillTable
<1>3. some \subseteq {selected}
  BY CalmObtain
<1>4. from = [n \in 0..(v - 1) |-> selected]
  BY <1>2, <1>3
<1>5. v \in Nat /\ v <= Len(ledger[selected]) /\ ledger[selected] \in Seq(1..2)
  BY DEF UpTo, Height, AddInv, Blocks
<1>6. none(from) = {}
  BY <1>4, <1>5
<1>7. CASE refused # {}
  BY <1>2, <1>7
<1>8. CASE refused = {}
  <2>1. rows' = <<>> \o RowsOf(v, from, {}) /\ figures' = [figures EXCEPT ![page] = Figure(Asked, v)]
    BY <1>2, <1>6, <1>8
  <2>2. figures'[page].value = v
    BY <2>1 DEF AddInv, Drawn, PanelsOf, Tables, Figure
  <2>3. /\ RowsOf(v, from, {}) \in Seq(Entries(v))
        /\ ToSet(RowsOf(v, from, {})) = Entries(v)
        /\ Ordered(RowsOf(v, from, {}))
    BY <1>4, <1>5, RowsOfAll
  <2>4. rows' = RowsOf(v, from, {})
    BY <2>1, <2>3
  <2>5. ToSet(rows') = Entries(v) /\ Ordered(rows')
    BY <2>3, <2>4
  <2>6. Entries(v)' = Entries(v) /\ UpTo(v)' /\ Ordered(rows)'
    BY <2>5 DEF Entries, UpTo, Height, Ordered, Above
  <2>7. page' \notin Kinds
    BY DEF Tables, Kinds
  <2>8. Whole'
    BY <2>2, <2>5, <2>6, <2>7 DEF Whole
  <2>9. QED BY <1>2, <2>8
<1>9. QED BY <1>7, <1>8

(* The answer makes the table or the list whole, unless it is a refusal.   *)
LEMMA ReceiveOne ==
  ASSUME TableInv, Receive
  PROVE  OneByOne'
<1> SUFFICES ASSUME overlapped = {}, page \in Tables \union Kinds
             PROVE  racing' = {} /\ Shown'
  BY DEF Receive, OneByOne
<1>1. PICK reply \in replies :
        LET r == reply.request
            v == reply.value
        IN
        /\ replies' = replies \ {reply}
        /\ \/ /\ v = Refused
              /\ failed' = failed \union {<<r.panel, r.round>>}
              /\ UNCHANGED <<instance, racing>>
           \/ /\ v # Refused /\ page \in Tables
              /\ FillTable(r, v)
           \/ /\ v # Refused /\ page \notin Tables
              /\ figures' = [figures EXCEPT ![r.panel] = Figure(r, v)]
              /\ rows' = IF page \in Kinds THEN rows \o v ELSE rows
              /\ UNCHANGED <<failed, instance, racing>>
        /\ UNCHANGED <<page, ledger, adrift, selected, round, open, grown>>
  BY DEF Receive
<1> DEFINE v == reply.value
<1>2. /\ open = {} /\ adrift = {} /\ rows = <<>> /\ replies = {reply} /\ racing = {}
      /\ reply.request = Asked /\ (v = Refused \/ Wrong \/ Answer(v))
  BY <1>1 DEF TableInv, OneByOne, AskedFor, Answered, Shown
<1>3. open' = {} /\ adrift' = {} /\ replies' = {} /\ AtService = {}
  BY <1>1, <1>2 DEF AtService
<1>4. Asked.panel = page /\ Asked.channel = selected /\ Asked.round = round
  BY AskedIs
<1>5. CASE v = Refused
  BY <1>1, <1>2, <1>3, <1>4, <1>5 DEF Shown
<1>6. CASE v # Refused /\ page \in Tables
  <2>1. FillTable(Asked, v)
    BY <1>1, <1>2, <1>6
  <2>2. CASE Wrong
    <3>1. racing' = {} /\ instance' \in obtain(selected) \union {instance}
      BY <1>2, <1>3, <1>4, <2>1 DEF FillTable
    <3>2. Wrong'
      BY <1>1, <1>2, <2>2, <3>1, CalmObtain DEF Wrong
    <3>3. QED BY <1>3, <3>1, <3>2 DEF Shown
  <2>3. CASE ~ Wrong
    <3>1. UpTo(v)
      BY <1>2, <1>6, <2>3 DEF Answer
    <3>2. AddInv /\ UNCHANGED <<page, selected, ledger, grown, round>>
      BY <1>1 DEF TableInv
    <3>3. racing' = {} /\ (<<page, round>> \in failed' \/ Whole')
      BY <1>2, <1>3, <1>6, <2>1, <2>3, <3>1, <3>2, FillTableOne
    <3>4. QED BY <1>3, <3>2, <3>3 DEF Shown
  <2>4. QED BY <2>2, <2>3
<1>7. CASE v # Refused /\ page \notin Tables
  <2>1. page \in Kinds /\ UNCHANGED <<page, instance, racing, selected>>
    BY <1>1, <1>7
  <2>2. CASE Wrong
    BY <1>2, <1>3, <2>1, <2>2 DEF Shown, Wrong
  <2>3. CASE ~ Wrong
    <3>1. v = SetToSeq(Names[page])
      BY <1>2, <1>7, <2>3 DEF Answer
    <3>2. IsFiniteSet(Names[page])
      BY <2>1, ExplorerAssumption
    <3>3. v \in Seq(Names[page]) /\ ToSet(v) = Names[page] /\ Len(v) = Cardinality(Names[page])
      BY <3>1, <3>2, ListsAll
    <3>4. rows' = <<>> \o v
      BY <1>1, <1>2, <1>7, <2>1
    <3> HIDE DEF v
    <3>5. rows' = v
      BY <3>3, <3>4
    <3>6. QED BY <1>1, <1>2, <1>3, <1>7, <2>1, <3>3, <3>5 DEF Shown, Whole
  <2>4. QED BY <2>2, <2>3
<1>8. QED BY <1>5, <1>6, <1>7

LEMMA NextTable == TableInv /\ [Next]_vars => TableInv'
<1> SUFFICES ASSUME TableInv, [Next]_vars
             PROVE  OneByOne'
  BY NextAdd DEF TableInv
<1>1. CASE ReadInfo
  <2>1. page' \notin Tables \union Kinds
    BY <1>1 DEF ReadInfo, Tables, Kinds
  <2>2. QED BY <2>1 DEF OneByOne
<1>2. CASE UNCHANGED vars
  <2>1. /\ UNCHANGED <<page, ledger, instance, adrift, racing, selected, round, open, replies>>
        /\ UNCHANGED <<figures, rows, failed, overlapped, grown>>
    BY <1>2 DEF vars, server, shown, history
  <2>2. /\ Asked' = Asked /\ Whole' = Whole /\ Wrong' = Wrong
        /\ \A v : Answer(v)' = Answer(v)
    BY <2>1 DEF Asked, Request, Whole, Wrong, Answer, UpTo, Height, Entries, Ordered, Above
  <2>3. AskedFor' = AskedFor /\ Answered' = Answered /\ Shown' = Shown
    BY <2>1, <2>2 DEF AskedFor, Answered, Shown
  <2>4. QED BY <2>1, <2>3 DEF TableInv, OneByOne
<1>3. QED BY <1>1, <1>2, ServeOne, ServeAdriftOne, LoseOne, CommitOne, SelectOne, ReceiveOne
          DEF Next

(* A table at rest lists the blocks of the selected channel, or all their  *)
(* transactions, each once and the newest block first, for channels of any *)
(* height; a list names each part of the network once (blocks.js:5-8,      *)
(* 31-48, transactions.js:30-62, FabricManager.java:163-174).              *)
THEOREM TablesListAll == Spec => []TablesAreWhole
<1>1. TableInv => TablesAreWhole
  <2>1. ASSUME TableInv, ~ Waiting, overlapped = {}, <<page, round>> \notin failed,
               instance.bound = instance.label, page \in Tables \union Kinds
        PROVE  Whole
    BY <2>1 DEF TableInv, OneByOne, AskedFor, Answered, Shown, Waiting, Wrong
  <2>2. QED BY <2>1 DEF TablesAreWhole, Whole, UpTo, Height, Ordered
<1>2. QED BY <1>1, InitTable, NextTable, PTL DEF Spec
=============================================================================
