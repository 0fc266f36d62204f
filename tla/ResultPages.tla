----------------------------- MODULE ResultPages -----------------------------
(***************************************************************************)
(* What the pages of the three applications draw once their round over the *)
(* nodes is decided (see QueryRound), and, on page Q3 of honeypots, what   *)
(* they draw whatever is decided.  Honeypots pages link attackers with the *)
(* hosts they attacked, gtmw pages applications with the URLs they         *)
(* visited; both are numbered as in the scripts' arrays.                   *)
(***************************************************************************)
EXTENDS Animation, NidsSearch, FiniteSets

CONSTANTS Ledgers,    \* contents of the ledger: pairs of numbers, per day
          NoData,     \* a day without dataset
          Queried,    \* numbers of the hosts that are queried
          Spoofed,    \* numbers of the URLs within the distance of gtmw Q3
          MaxMoves    \* bound on the changes of the ledger

HoneypotsPages == {"honeypotsQ1", "honeypotsQ2", "honeypotsQ3"}
GtmwPages == {"gtmwQ1", "gtmwQ2", "gtmwQ3"}
NidsPages == {"nidsQ1", "nidsQ2", "nidsQ3"}

ASSUME PagesAssumption ==
  /\ MaxMoves \in Nat
  /\ Queried \subseteq Nat
  /\ Spoofed \subseteq Nat /\ Spoofed # {} /\ IsFiniteSet(Spoofed)
  /\ Ledgers # {}
  /\ \A L \in Ledgers : /\ L \in Seq({NoData} \union SUBSET (Nat \X Nat))
                       /\ \A d \in DOMAIN L : L[d] # NoData => IsFiniteSet(L[d])

VARIABLES page,       \* the page
          queried,    \* the host the query is about
          honest,     \* the first node answers from its ledger
          ledger,     \* what the ledgers of the honest nodes hold
          moves,      \* how often that changed
          phase,      \* where the page stands
          verdict,    \* how its round was decided
          table,      \* the hosts of the accepted answer
          attackers,  \* honeypots Q3: the answer to its own request A2
          victims     \* honeypots Q3: the answers to its own requests A1

asked == <<attackers, victims>>
query == <<page, queried, honest, graph, backward>>
vars == <<query, ledger, moves, phase, verdict, table, asked, canvas, animation, search>>

-----------------------------------------------------------------------------
(* The graphs of the pages.                                                *)
Ext(i) == <<"e", i>>
Inside(i) == <<"i", i>>
App(i) == <<"app", i>>
Url(i) == <<"url", i>>

HoneypotsLinks == {<<Ext(4), Inside(v)>> : v \in {1, 4, 6, 8, 9}}
                    \union {<<Ext(6), Inside(v)>> : v \in {3, 6, 10}}
                    \union {<<Ext(8), Inside(4)>>, <<Ext(9), Inside(6)>>, <<Ext(10), Inside(4)>>}

basicNetworkTopology ==
  {<<App(a), Url(0)>> : a \in {0, 2, 5, 6} \union 10..14}
    \union {<<App(a), Url(u)>> : a \in {1, 3}, u \in 1..5}
    \union {<<App(a), Url(u)>> : a \in {4, 15}, u \in 6..11}
    \union {<<App(2), Url(3)>>, <<App(2), Url(10)>>, <<App(7), Url(12)>>}
    \union {<<App(8), Url(u)>> : u \in 13..15}

Outer(i) == IF page \in HoneypotsPages THEN Ext(i) ELSE App(i)
Inner(i) == IF page \in HoneypotsPages THEN Inside(i) ELSE Url(i)

Ends(set) == UNION {{link[1], link[2]} : link \in set}

(* The links of the nids graph, which is fetched; these are all in it.     *)
CaseTwo == Range(CannedPaths) \union Range(CannedHits) \union Range(CannedDamages)

LinksOf(p) == CASE p \in HoneypotsPages -> HoneypotsLinks
                [] p \in GtmwPages      -> basicNetworkTopology
                [] p \in NidsPages      -> CaseTwo
HostsOf(p) == IF p \in NidsPages THEN Ends(CaseTwo)
              ELSE {Outer(i) : i \in 0..15} \union {Inner(i) : i \in 0..15}

ASSUME NothingAssumption ==
  /\ Nothing \notin UNION {{Ext(i), Inside(i), App(i), Url(i)} : i \in 0..15}
  /\ Nothing \notin HoneypotsLinks \union basicNetworkTopology
  /\ Nothing \notin Ends(CaseTwo) /\ Nothing \notin CaseTwo

-----------------------------------------------------------------------------
(* The chaincodes' answers.  Honeypots reads a day without dataset as an   *)
(* empty one, gtmw refuses.                                                *)
Seen(L, d) == IF L[d] = NoData THEN {} ELSE {<<Outer(p[1]), Inner(p[2])>> : p \in L[d]}

(* Mutant: the list is emptied for each day.                               *)
honeypotsIdentifyVictimsLast(L, a) ==
  SetToSeq({p[2] : p \in {q \in Seen(L, Len(L)) : q[1] = a}})

honeypotsIdentifyVictims(L, a) ==
  FlattenSeq([d \in DOMAIN L |-> SetToSeq({p[2] : p \in {q \in Seen(L, d) : q[1] = a}})])

honeypotsIdentifyAttackers(L, v) ==
  FlattenSeq([d \in DOMAIN L |-> SetToSeq({p[1] : p \in {q \in Seen(L, d) : q[2] = v}})])

(* Day by day: who was attacked by those that attacked v on the same day.  *)
honeypotsIdentifyPotentialVictims(L, v) ==
  UNION {{p[2] : p \in {q \in Seen(L, d) : <<q[1], v>> \in Seen(L, d)}} : d \in DOMAIN L}

Visits(L) == UNION {Seen(L, d) : d \in DOMAIN L}

(* Per URL that the application visited, who visited it on such a day.     *)
urlIdentifySuspiciousApps(L, app) ==
  [u \in {p[2] : p \in {q \in Visits(L) : q[1] = app}} |->
     SetToSeq({p[1] : p \in UNION {{q \in Seen(L, d) : q[2] = u} :
                                     d \in {e \in DOMAIN L : <<app, u>> \in Seen(L, e)}}})]

urlIdentifyVictimApps(L, u) == SetToSeq({p[1] : p \in {q \in Visits(L) : q[2] = u}})

urlSpoofedApps(L) == [u \in {Url(i) : i \in Spoofed} |-> urlIdentifyVictimApps(L, u)]

(* The chaincode of gtmw answers with an error: a day without dataset, or  *)
(* an application or a URL that no dataset names.                          *)
Refuses(L) == page \in GtmwPages /\ NoData \in Range(L)

(* The hosts an answer lists, which is what the nodes are compared by.     *)
Listed(L) ==
  CASE page = "honeypotsQ1" -> Range(honeypotsIdentifyVictims(L, queried))
    [] page = "honeypotsQ2" -> Range(honeypotsIdentifyAttackers(L, queried))
    [] page = "honeypotsQ3" -> honeypotsIdentifyPotentialVictims(L, queried)
    [] page = "gtmwQ1"      -> UNION {Range(s) : s \in Range(urlIdentifySuspiciousApps(L, queried))}
    [] page = "gtmwQ2"      -> Range(urlIdentifyVictimApps(L, queried))
    [] page = "gtmwQ3"      -> UNION {Range(s) : s \in Range(urlSpoofedApps(L))}

-----------------------------------------------------------------------------
(* The scripts: the timeouts a page registers.                             *)
Just(host) == <<After(2, Mark(Nothing, host, 0))>>

ToInner(outer, list, round) == [i \in DOMAIN list |-> Mark(<<outer, list[i]>>, list[i], round)]
ToOuter(list, inner, round) == [i \in DOMAIN list |-> Mark(<<list[i], inner>>, list[i], round)]

(* Mutant: the second round does not wait for the first.                   *)
TwoRoundsAtOnce(first, second) == <<Series(2, first), Series(2, second)>>

(* The second round is timed by the number of links of the first.          *)
TwoRounds(first, second) == <<Series(2, first), Series(2 * Len(first) + 2, second)>>

VisualizeQ1(list) == Just(queried) \o <<Series(2, ToInner(queried, list, 1))>>
VisualizeQ2(list) == Just(queried) \o <<Series(2, ToOuter(list, queried, 1))>>

(* Mutant: the victims of the first attacker are taken for all of them.    *)
VisualizeQ3OfFirst(keys, of) ==
  <<After(3, Mark(Nothing, queried, 0))>>
    \o TwoRounds(ToOuter(keys, queried, 1),
                 FlattenSeq([i \in DOMAIN keys |-> ToInner(keys[i], of[keys[1]], 2)]))

(* keys: the attackers; of: the victims of each.                           *)
VisualizeQ3(keys, of) ==
  <<After(3, Mark(Nothing, queried, 0))>>
    \o TwoRounds(ToOuter(keys, queried, 1),
                 FlattenSeq([i \in DOMAIN keys |-> ToInner(keys[i], of[keys[i]], 2)]))

(* What is registered before an attacker without victims makes it throw.   *)
VisualizeQ3Cut(keys) ==
  <<After(3, Mark(Nothing, queried, 0)), Series(2, ToOuter(keys, queried, 1))>>

(* apps: a function from URLs to the applications that visited them.       *)
Visitors(apps, urls) == FlattenSeq([i \in DOMAIN urls |-> ToOuter(apps[urls[i]], urls[i], 2)])

visualizeGTMWQ1(apps) ==
  LET urls == SetToSeq(DOMAIN apps) IN
  Just(queried) \o Just(queried) \o TwoRounds(ToInner(queried, urls, 1), Visitors(apps, urls))

visualizeGTMWQ2(list) == Just(queried) \o <<Series(2, ToOuter(list, queried, 1))>>

visualizeGTMWQ3(apps) ==
  LET urls == SetToSeq(DOMAIN apps) IN
  [i \in DOMAIN urls |-> After(2 * i, Mark(Nothing, urls[i], 1))]
    \o <<Series(2 * (Len(urls) + 1), Visitors(apps, urls))>>

Bare(list) == [i \in DOMAIN list |-> Mark(list[i], Nothing, 1)]

(* Members of a list, each at its first place.                             *)
FirstSeen(list) == FoldLeft(LAMBDA seen, e : IF Contains(seen, e) THEN seen
                                             ELSE Append(seen, e), <<>>, list)

VisualizeNIDSQ1(list) == Just(CannedVictim) \o <<Series(2, Bare(list))>>

VisualizeNIDSQ2 ==
  LET nodes == FirstSeen(FlattenSeq(CannedHits)) IN
  [i \in DOMAIN nodes |-> After(2 * i, Mark(Nothing, nodes[i], 0))]
    \o <<Series(2, Bare(FirstSeen(CannedHits)))>>

VisualizeNIDSQ3(list) ==
  [i \in DOMAIN list |-> After(2 * i, Mark(list[i], list[i][2], 1))]
    \o Just(CannedAttacker) \o <<Series(2, Bare(list))>>

-----------------------------------------------------------------------------
(* What a page is asked about: a honeypots or gtmw host, or one of the     *)
(* inputs a nids page has an animation for, or another one.                *)
Canned == [nidsQ1 |-> CannedVictim, nidsQ2 |-> "signature", nidsQ3 |-> CannedAttacker]

Inputs == CASE page \in {"honeypotsQ1", "gtmwQ1"}                -> {Outer(i) : i \in Queried}
            [] page \in {"honeypotsQ2", "honeypotsQ3", "gtmwQ2"} -> {Inner(i) : i \in Queried}
            [] page = "gtmwQ3"                                   -> {Nothing}
            [] page \in NidsPages                                -> {Canned[page], Nothing}

Init == /\ page \in HoneypotsPages \union GtmwPages \union NidsPages
        /\ queried \in Inputs
        /\ honest \in IF page \in {"gtmwQ1", "gtmwQ3"} THEN BOOLEAN ELSE {TRUE}
        /\ ledger \in IF page \in NidsPages THEN {CHOOSE L \in Ledgers : TRUE} ELSE Ledgers
        /\ moves = 0
        /\ phase = IF page = "honeypotsQ3" THEN "A2" ELSE "round"
        /\ verdict = "none" /\ table = {}
        /\ attackers = <<>> /\ victims = <<>>
        /\ hosts = HostsOf(page) /\ links = LinksOf(page)
        /\ loaded = (page \notin NidsPages)
        /\ timers = <<>> /\ picture = <<>> /\ missed = 0
        /\ graph = IF page = "nidsQ1" THEN CannedPaths
                   ELSE IF page = "nidsQ3" THEN CannedDamages ELSE <<>>
        /\ backward = (page = "nidsQ1")
        /\ queue = <<>> /\ searched = {} /\ edges = <<>>

Draw(script) == /\ phase' = "drawn"
                /\ timers' = script
                /\ UNCHANGED <<picture, missed, canvas, query, ledger, moves>>

(* An exception in the script leaves what it registered.                   *)
Throw(script) == /\ phase' = "threw"
                 /\ timers' = script
                 /\ UNCHANGED <<picture, missed, canvas, query, ledger, moves>>

(* The round over the nodes accepts the answer the honest nodes agree on.  *)
Accepted == /\ phase = "round"
            /\ ~ Refuses(ledger)
            /\ verdict' = "accepted"
            /\ table' = Listed(ledger)
            /\ UNCHANGED asked

Rejected == /\ phase = "round"
            /\ verdict' = "rejected"
            /\ UNCHANGED <<table, asked, search>>

AcceptHoneypotsQ1 ==
  /\ page = "honeypotsQ1" /\ Accepted
  /\ Listed(ledger) # {}
  /\ Draw(VisualizeQ1(honeypotsIdentifyVictims(ledger, queried)))
  /\ UNCHANGED search

AcceptHoneypotsQ2 ==
  /\ page = "honeypotsQ2" /\ Accepted
  /\ Listed(ledger) # {}
  /\ Draw(VisualizeQ2(honeypotsIdentifyAttackers(ledger, queried)))
  /\ UNCHANGED search

(* Mutant: the hosts are drawn although the answer is rejected.            *)
RejectHoneypotsDrawn ==
  page = "honeypotsQ1" /\ Rejected /\ Draw(VisualizeQ1(honeypotsIdentifyVictims(ledger, queried)))

RejectHoneypots == page \in HoneypotsPages /\ Rejected /\ Draw(Just(queried))

(* The picture is drawn from a part of the first node's answer that the    *)
(* nodes are not compared by.                                              *)
FirstAnswers == IF honest THEN {ledger} ELSE {L \in Ledgers : ~ Refuses(L)}

AcceptGtmwQ1 ==
  /\ page = "gtmwQ1" /\ Accepted
  /\ Listed(ledger) # {}
  /\ \/ \E L \in FirstAnswers : Draw(visualizeGTMWQ1(urlIdentifySuspiciousApps(L, queried)))
     \/ ~ honest /\ Throw(<<>>)
  /\ UNCHANGED search

(* Without visitors the accepted answer is a text, and draws a link and a  *)
(* host that no graph has.                                                 *)
AcceptGtmwQ2 ==
  /\ page = "gtmwQ2" /\ Accepted
  /\ Draw(IF Listed(ledger) # {} THEN visualizeGTMWQ2(urlIdentifyVictimApps(ledger, queried))
          ELSE Just(queried) \o <<Series(2, <<Mark(Nothing, Nothing, 1)>>)>>)
  /\ UNCHANGED search

(* A spoofed URL without visitors has no list of applications.             *)
AcceptGtmwQ3 ==
  /\ page = "gtmwQ3" /\ Accepted
  /\ \/ \E L \in FirstAnswers : IF <<>> \in Range(urlSpoofedApps(L)) THEN Throw(<<>>)
                              ELSE Draw(visualizeGTMWQ3(urlSpoofedApps(L)))
     \/ ~ honest /\ Throw(<<>>)
  /\ UNCHANGED search

(* An accepted error text is cut up as if it were an answer.               *)
AcceptRefusal ==
  /\ phase = "round"
  /\ page \in GtmwPages
  /\ Refuses(ledger) \/ (page # "gtmwQ3" /\ Listed(ledger) = {})
  /\ verdict' = "accepted"
  /\ Throw(<<>>)
  /\ UNCHANGED <<table, asked, search>>

RejectGtmw == /\ page \in GtmwPages
              /\ Rejected
              /\ Draw(IF page = "gtmwQ3" THEN <<>> ELSE Just(queried))

(* The nids pages draw their own literals, for one input each.             *)
NidsAccepted == /\ phase = "round"
                /\ verdict' = "accepted"
                /\ UNCHANGED <<table, asked>>

NoAnimation == queried # Canned[page] /\ Draw(<<>>) /\ UNCHANGED search

StartSearch == /\ queried = Canned[page]
               /\ phase' = "search"
               /\ SearchFrom(queried)
               /\ UNCHANGED <<animation, canvas, query, ledger, moves>>

AcceptNidsQ1 == page = "nidsQ1" /\ NidsAccepted /\ (NoAnimation \/ StartSearch)

AcceptNidsQ2 == /\ page = "nidsQ2" /\ NidsAccepted
                /\ \/ NoAnimation
                   \/ queried = Canned[page] /\ Draw(VisualizeNIDSQ2) /\ UNCHANGED search

AcceptNidsQ3 == page = "nidsQ3" /\ NidsAccepted /\ (NoAnimation \/ StartSearch)

RejectNids == page \in NidsPages /\ Rejected /\ Draw(<<>>)

Search == /\ phase = "search"
          /\ Visit
          /\ UNCHANGED <<query, ledger, moves, phase, verdict, table, asked, canvas, animation>>

Searched == /\ phase = "search"
            /\ queue = <<>>
            /\ Draw(IF page = "nidsQ1" THEN VisualizeNIDSQ1(edges) ELSE VisualizeNIDSQ3(edges))
            /\ UNCHANGED <<verdict, table, asked, search>>

-----------------------------------------------------------------------------
(* Page Q3 of honeypots asks the local node for the attackers and then for *)
(* the victims of each, while the round over the nodes goes on.            *)

(* Mutant: an empty answer never resolves the promise.                     *)
AskAttackersSilent ==
  /\ phase = "A2"
  /\ attackers' = honeypotsIdentifyAttackers(ledger, queried)
  /\ phase' = IF attackers' = <<>> THEN "silent" ELSE "A1"
  /\ UNCHANGED <<animation, canvas, query, ledger, moves, victims, verdict, table, search>>

AskAttackers ==
  /\ phase = "A2"
  /\ attackers' = honeypotsIdentifyAttackers(ledger, queried)
  /\ IF attackers' = <<>> THEN Draw(<<After(3, Mark(Nothing, queried, 0))>>)
     ELSE /\ phase' = "A1"
          /\ UNCHANGED <<animation, canvas, query, ledger, moves>>
  /\ UNCHANGED <<victims, verdict, table, search>>

(* A map keeps the last answer for an attacker that is listed twice.       *)
LastAnswers(answers) ==
  [a \in Range(attackers) |-> answers[SelectLastInSeq(attackers, LAMBDA b : b = a)]]

AskVictims ==
  /\ phase = "A1"
  /\ victims' = Append(victims, honeypotsIdentifyVictims(ledger, attackers[Len(victims) + 1]))
  /\ IF Len(victims') < Len(attackers)
     THEN phase' = "A1" /\ UNCHANGED <<animation, canvas, query, ledger, moves>>
     ELSE IF <<>> \in Range(LastAnswers(victims')) THEN Throw(VisualizeQ3Cut(FirstSeen(attackers)))
     ELSE Draw(VisualizeQ3(FirstSeen(attackers), LastAnswers(victims')))
  /\ UNCHANGED <<attackers, verdict, table, search>>

(* The callback for an error never resolves the promise.                   *)
AskFails == /\ phase \in {"A2", "A1"}
            /\ phase' = "hung"
            /\ UNCHANGED <<query, ledger, moves, verdict, table, asked, canvas, animation, search>>

(* The decision of the round writes a line of text and draws nothing.      *)
getQ3FinalResult ==
  /\ page = "honeypotsQ3" /\ verdict = "none"
  /\ \/ /\ Listed(ledger) # {}
        /\ verdict' = "accepted" /\ table' = Listed(ledger)
     \/ verdict' = "rejected" /\ UNCHANGED table
  /\ UNCHANGED <<query, ledger, moves, phase, asked, canvas, animation, search>>

(* A dataset is imported between the requests.                             *)
Commit == /\ phase \in {"A2", "A1"}
          /\ moves < MaxMoves
          /\ ledger' \in Ledgers \ {ledger}
          /\ moves' = moves + 1
          /\ UNCHANGED <<query, phase, verdict, table, asked, canvas, animation, search>>

Decide == \/ AcceptHoneypotsQ1 \/ AcceptHoneypotsQ2 \/ RejectHoneypots
          \/ AcceptGtmwQ1 \/ AcceptGtmwQ2 \/ AcceptGtmwQ3 \/ AcceptRefusal \/ RejectGtmw
          \/ AcceptNidsQ1 \/ AcceptNidsQ2 \/ AcceptNidsQ3 \/ RejectNids
          \/ getQ3FinalResult

Same == UNCHANGED <<query, ledger, moves, phase, verdict, table, asked, search>>

Work == \/ Search \/ Searched \/ AskAttackers \/ AskVictims \/ AskFails
        \/ Animate /\ Same

LoadGraph == phase = "drawn" /\ Load /\ Same

Next == Decide \/ Work \/ Commit \/ LoadGraph

Spec == Init /\ [][Next]_vars /\ WF_vars(Work)

-----------------------------------------------------------------------------
Shown(n) == {picture[i] : i \in 1..n}
HostsShown(n) == {m.host : m \in Shown(n)} \ {Nothing}
LinksShown(n) == {m.link : m \in Shown(n)} \ {Nothing}
LastRound == {m.host : m \in {k \in Shown(Len(picture)) :
                k.round = IF page \in {"honeypotsQ3", "gtmwQ1", "gtmwQ3"} THEN 2 ELSE 1}} \ {Nothing}

Settled == timers = <<>> /\ phase \in {"drawn", "threw", "hung"}

(* A drawing in two rounds relies on the number of links of the first for  *)
(* its timing alone (honeypots.js:1145, gtmw.js:659, 1138): nothing of the *)
(* first round is drawn after the second began, although a timeout may be  *)
(* late.                                                                   *)
RoundTwoLast ==
  2 \in {m.round : m \in Shown(Len(picture))} =>
    \A i \in DOMAIN timers : \A j \in DOMAIN timers[i].marks : timers[i].marks[j].round # 1

(* A picture grows from what the query is about: each link that is         *)
(* highlighted has an end that was highlighted before, or together with    *)
(* it, or is an end of a link that was.                                    *)
GrowsFromQueried ==
  missed = 0 =>
    \A n \in DOMAIN picture :
      picture[n].link # Nothing =>
        Ends({picture[n].link}) \intersect
          ({queried} \union HostsShown(n - 1) \union Ends(LinksShown(n - 1))) # {}

(* The searches of nids Q1 and Q3 find every link on a way from the damage *)
(* or the attacker, and no other (nids.js:1772-1795, 3220-3243).           *)
SearchIsClosure ==
  phase = "search" /\ queue = <<>> =>
    /\ Range(edges) = Closure(queried)
    /\ Len(edges) = Cardinality(Range(edges))

(* Once a picture of honeypots Q1 and Q2 or of gtmw is complete, its hosts *)
(* are those of the answer that the nodes agreed on, if the first node is  *)
(* honest; nothing but the queried host is drawn for a rejected answer.    *)
PictureIsAccepted ==
  Settled /\ phase = "drawn" /\ page \notin NidsPages \union {"honeypotsQ3"} =>
    /\ verdict = "accepted" /\ honest => LastRound = table \intersect hosts
    /\ verdict = "rejected" => LastRound = {}

(* Page Q3 of honeypots draws from its own requests A2 and A1 what the     *)
(* nodes answered to A3 (honeypots.js:857, 988): every accepted host is drawn, *)
(* and no other if one day has data, as long as nothing is imported.       *)
OwnAnswersAgree ==
  page = "honeypotsQ3" /\ Settled /\ phase = "drawn" /\ verdict = "accepted" /\ moves = 0 =>
    /\ table \intersect hosts \subseteq LastRound
    /\ Cardinality({d \in DOMAIN ledger : Seen(ledger, d) # {}}) = 1 =>
         LastRound = table \intersect hosts

(* An attacker without victims makes page Q3 of honeypots throw            *)
(* (honeypots.js:1177): only an import between the requests brings one     *)
(* about.  Page Q1 of gtmw throws only on an error text or on an answer    *)
(* that its first node made up.                                            *)
ThrowsOnlyIfMoved ==
  phase = "threw" => /\ page = "honeypotsQ3" => moves > 0
                     /\ page = "gtmwQ1" /\ honest => table = {}

(* Whatever a request brings, a page comes to rest: the search ends and    *)
(* every timeout runs.                                                     *)
PageSettles == phase # "round" ~> Settled
===============================================================================
