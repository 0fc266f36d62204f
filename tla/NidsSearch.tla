------------------------------ MODULE NidsSearch ------------------------------
(***************************************************************************)
(* The graph searches of the nids pages.  Page Q1 walks backwards from a   *)
(* damaged host, page Q3 forwards from an attacker, both through a graph   *)
(* that stands in the script itself.  A host is named by the last two      *)
(* numbers of its address.                                                 *)
(***************************************************************************)
EXTENDS Integers, SequencesExt, Functions

VARIABLES graph,     \* links in the order of the script's object
          backward,  \* the search follows links from their ends
          queue,     \* hosts to visit, possibly more than once
          searched,  \* hosts visited
          edges      \* links found, in order

search == <<queue, searched, edges>>

(* The literals Results of pages Q1, Q2 and Q3.                            *)
CannedPaths ==
  << <<"10.40", "60.100">>, <<"10.40", "60.101">>, <<"10.5", "60.6">>,
     <<"10.6", "60.6">>, <<"110.2", "60.100">>, <<"40.221", "60.101">>,
     <<"60.100", "60.34">>, <<"60.101", "60.34">>, <<"60.33", "60.113">>,
     <<"60.34", "60.113">>, <<"60.6", "60.33">>, <<"70.102", "60.100">> >>

CannedHits == << <<"10.40", "60.98">>, <<"10.40", "60.99">>,
                 <<"10.40", "60.100">>, <<"10.40", "60.101">> >>

CannedDamages ==
  << <<"10.6", "60.6">>, <<"60.113", "60.34">>, <<"60.33", "60.113">>,
     <<"60.34", "60.100">>, <<"60.34", "60.101">>, <<"60.6", "60.33">> >>

CannedVictim == "60.113"
CannedAttacker == "10.6"

(* The host a link is looked up by, and the one it leads to.               *)
Near(link) == IF backward THEN link[2] ELSE link[1]
Far(link) == IF backward THEN link[1] ELSE link[2]

SearchFrom(host) == /\ queue' = <<host>>
                    /\ searched' = {}
                    /\ edges' = <<>>

(* The members of a list that are in a set, in order: a loop with an if.   *)
Only(list, set) ==
  LET kept[n \in 0..Len(list)] ==
        IF n = 0 THEN <<>>
        ELSE IF list[n] \in set THEN Append(kept[n - 1], list[n]) ELSE kept[n - 1]
  IN kept[Len(list)]

Hits(host) == Only(graph, {link \in Range(graph) : Near(link) = host})
NotIn(links, found) == Only(links, Range(links) \ Range(found))
Ahead(links) == LET leads == [i \in DOMAIN links |-> Far(links[i])]
                IN Only(leads, Range(leads) \ searched)

(* Mutant: only what the first host leads to is queued.                    *)
VisitShallow == /\ queue # <<>>
                /\ LET hits == Hits(Head(queue)) IN
                     /\ edges' = edges \o NotIn(hits, edges)
                     /\ queue' = Tail(queue) \o (IF edges = <<>> THEN Ahead(hits) ELSE <<>>)
                /\ searched' = searched \union {Head(queue)}

(* One pass through the loop over the queue.  The host counts as visited   *)
(* only afterwards, so a link from it to itself queues it again.           *)
Visit == /\ queue # <<>>
         /\ LET hits == Hits(Head(queue)) IN
              /\ edges' = edges \o NotIn(hits, edges)
              /\ queue' = Tail(queue) \o Ahead(hits)
         /\ searched' = searched \union {Head(queue)}

-----------------------------------------------------------------------------
(* Reference: every link that leaves a host which is in each set that has  *)
(* the first host and all that its members lead to.                        *)
Closed(set) == \A link \in Range(graph) : Near(link) \in set => Far(link) \in set

Closure(host) ==
  LET Sets == SUBSET ({host} \union {Near(link) : link \in Range(graph)}
                            \union {Far(link) : link \in Range(graph)})
  IN {link \in Range(graph) :
        \A set \in Sets : host \in set /\ Closed(set) => Near(link) \in set}
===============================================================================
