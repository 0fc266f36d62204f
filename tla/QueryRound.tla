------------------------------ MODULE QueryRound ------------------------------
(***************************************************************************)
(* How a page of the explorer answers a cyber-dataset query.  It asks the  *)
(* middlewares of all nodes one after another, has every answer's          *)
(* signature checked by the signature verification service, and shows the  *)
(* first node's answer if enough nodes answered, enough signatures are     *)
(* valid and enough answers have the first one's hash.  The nodes' ledgers *)
(* and the service are external; a faulty node answers anything, texts     *)
(* included that have an honest answer's hash.                             *)
(***************************************************************************)
EXTENDS Integers, FiniteSets

CONSTANTS NodeCount,   \* nodes listed in nodesInfo.json (4)
          Threshold,   \* answers, signatures and matches needed (3)
          MaxFaulty,   \* nodes that may act arbitrarily (1)
          MaxHeight,   \* bound on the states of a node's ledger
          Orders,      \* orders in which a chaincode may list what it found
          Pages,       \* pages explored
          Hash,        \* the 32-bit hash of an answer's concatenated parts
          Null         \* no result

Nodes == 1..NodeCount
AllPages == {"honeypots", "gtmwApps", "gtmwVictims", "nids"}

ASSUME QuorumAssumption ==
         /\ NodeCount \in Nat \ {0} /\ Threshold \in Nat /\ MaxFaulty \in Nat
         /\ NodeCount < 2 * Threshold
ASSUME DataAssumption == MaxHeight \in Nat /\ 1 \in Orders /\ Pages \subseteq AllPages

VARIABLES page,      \* the page the query is made from
          faulty,    \* the faulty nodes
          height,    \* height[n]: state of the dataset on the ledger of node n
          oldest,    \* history: the least correct height when the round began
          pc,        \* where the round stands
          node,      \* the node it is at
          handled,   \* handled[n]: HANDLED_RESULT of node n
          verified   \* verified[n]: VERIFY_RESULT of node n is true

round == <<pc, node, handled, verified>>
vars == <<page, faulty, height, oldest, pc, node, handled, verified>>

Heights == 0..MaxHeight
ResultHeights == 2..MaxHeight \union {0}   \* 0: whatever the height, shortened
Say(kind, h, o) == [kind |-> kind, at |-> h, order |-> o]
Replies == {Say(kind, 0, 1) : kind \in {"nothing", "refused", "failed"}}
             \union {Say("found", h, o) : h \in ResultHeights, o \in Orders}
             \union {Say("madeUp", h, 1) : h \in ResultHeights}
ASSUME NullAssumption == Null \notin Replies
ASSUME HashAssumption == DOMAIN Hash = Replies /\ \A r \in Replies : Hash[r] # Null

(* The chaincodes' answers to one query.  At ledger state 0 the dataset is *)
(* missing: honeypots goes on without it, the others refuse.  At 1 there   *)
(* is a dataset where the query finds nothing, then come datasets with     *)
(* different results.  The gtmw chaincode lists them in the order of a Go  *)
(* map of days.                                                            *)
HoneypotsResult(h) == IF h < 2 THEN Say("nothing", 0, 1) ELSE Say("found", h, 1)

GtmwResult(h, o) == CASE h = 0 -> Say("refused", 0, 1)
                      [] h = 1 -> Say("nothing", 0, 1)
                      [] OTHER -> Say("found", h, o)

NidsResult(h) == CASE h = 0 -> Say("refused", 0, 1)
                   [] h = 1 -> Say("nothing", 0, 1)
                   [] OTHER -> Say("found", h, 1)

Result(p, h, o) == CASE p = "honeypots" -> HoneypotsResult(h)
                     [] p = "nids"      -> NidsResult(h)
                     [] OTHER           -> GtmwResult(h, o)

(* What a correct middleware may send: its peer's answer, or "Request      *)
(* failed" when the peer or the manager threw.                             *)
Honest(n) == {Result(page, height[n], o) : o \in Orders}
               \union {Say("failed", 0, 1)}

(* What the pages' success callbacks keep of a reply: one value, or none   *)
(* if the callback throws on a status or a field it does not expect.  The  *)
(* nids page keeps the first 28 characters, which may be the same for      *)
(* different results.                                                      *)
HoneypotsKeeps(r) == CASE r.kind = "nothing" -> {Null}
                       [] r.kind \in {"found", "madeUp"} -> {r}
                       [] OTHER              -> {}

GtmwAppsKeeps(r) == {r} \ {k \in Replies : k.kind \in {"failed", "nothing"}}

GtmwVictimsKeeps(r) == {r} \ {k \in Replies : k.kind = "failed"}

NidsKeeps(r) == CASE r.kind = "failed" -> {}
                  [] r.kind = "found"  -> {Say("found", 0, 1)}
                  [] OTHER             -> {r}

Keeps(p, r) == CASE p = "honeypots" -> HoneypotsKeeps(r)
                 [] p = "gtmwApps"  -> GtmwAppsKeeps(r)
                 [] p = "nids"      -> NidsKeeps(r)
                 [] OTHER           -> GtmwVictimsKeeps(r)

Init == /\ page \in Pages
        /\ faulty \in {f \in SUBSET Nodes : Cardinality(f) <= MaxFaulty}
        /\ height \in [Nodes -> Heights]
        /\ \A n \in faulty : height[n] = 0
        /\ oldest = 0
        /\ pc = "idle"
        /\ node = 1
        /\ handled = [n \in Nodes |-> Null]
        /\ verified = [n \in Nodes |-> FALSE]

Correct == Nodes \ faulty

(* The round goes to the first node.                                       *)
Submit == /\ pc = "idle"
          /\ pc' = "ask"
          /\ \E m \in Correct : /\ \A n \in Correct : height[m] <= height[n]
                                /\ oldest' = height[m]
          /\ UNCHANGED <<page, faulty, height, node, handled, verified>>

(* Mutant: the loop counter is not advanced.                               *)
AdvanceStuck == pc' = "ask" /\ UNCHANGED node

(* The loop goes on with the next node, or ends.                           *)
Advance == IF node < NodeCount THEN pc' = "ask" /\ node' = node + 1
                               ELSE pc' = "decide" /\ UNCHANGED node

(* The middleware's reply reaches the success callback: the round waits   *)
(* for ever if the callback throws, for the promise is never settled.      *)
Answer == /\ pc = "ask"
          /\ \E r \in IF node \in faulty THEN Replies ELSE Honest(node) :
               \/ /\ Keeps(page, r) = {}
                  /\ pc' = "hung"
                  /\ UNCHANGED handled
               \/ /\ pc' = "verify"
                  /\ \E k \in Keeps(page, r) : handled' = [handled EXCEPT ![node] = k]
          /\ UNCHANGED <<page, faulty, height, oldest, node, verified>>

(* No connection, an HTTP error or the timeout: the promise is rejected.   *)
Unreachable == /\ pc = "ask"
               /\ Advance
               /\ UNCHANGED <<page, faulty, height, oldest, handled, verified>>

(* The service answers; it may be wrong about a correct node's signature,  *)
(* for the key it uses can be switched by another request.                 *)
Verdict == /\ pc = "verify"
           /\ \E valid \in BOOLEAN : verified' = [verified EXCEPT ![node] = valid]
           /\ Advance
           /\ UNCHANGED <<page, faulty, height, oldest, handled>>

(* The service cannot be reached: the catch block drops the node's answer. *)
NoVerdict == /\ pc = "verify"
             /\ handled' = [handled EXCEPT ![node] = Null]
             /\ Advance
             /\ UNCHANGED <<page, faulty, height, oldest, verified>>

Available == {n \in Nodes : handled[n] # Null}
Signed == {n \in Nodes : verified[n]}

(* The characters of all parts go into one hash, whatever part they are    *)
(* of: ["ab", "c"] has the hash of ["a", "bc"].  No result has one of its  *)
(* own, "xxxxx".                                                           *)
hashOfArray(text) == IF text = Null THEN Null ELSE Hash[text]

(* Mutant: the counter starts at 0 although the first answer is skipped.   *)
SameWithoutFirst == {n \in Nodes \ {1} : hashOfArray(handled[n]) = hashOfArray(handled[1])}

Same == {n \in Nodes : hashOfArray(handled[n]) = hashOfArray(handled[1])}

(* Mutants: the first answer is counted twice; the matches are not needed. *)
AcceptsFirstTwice == /\ Cardinality(Available) >= Threshold
                     /\ Cardinality(Signed) >= Threshold
                     /\ Cardinality(Same) + 1 >= Threshold
AcceptsUnmatched == /\ Cardinality(Available) >= Threshold
                    /\ Cardinality(Signed) >= Threshold

(* The three counters of the page, compared with the literal 3.            *)
Accepts == /\ Cardinality(Available) >= Threshold
           /\ Cardinality(Signed) >= Threshold
           /\ Cardinality(Same) >= Threshold

Decide == /\ pc = "decide"
          /\ pc' = IF Accepts THEN "accepted" ELSE "rejected"
          /\ UNCHANGED <<page, faulty, height, oldest, node, handled, verified>>

(* External: the ledger of a node commits a block of a replication.  The   *)
(* ledger of a faulty node plays no part.                                  *)
CommitBlock(n) == /\ height[n] < MaxHeight
                  /\ height' = [height EXCEPT ![n] = @ + 1]
                  /\ UNCHANGED <<page, faulty, oldest, round>>

Page == Submit \/ Answer \/ Unreachable \/ Verdict \/ NoVerdict \/ Decide

Next == Page \/ \E n \in Correct : CommitBlock(n)

(* The page's event loop runs, and every request ends within its timeout.  *)
SafetySpec == Init /\ [][Next]_vars
Spec == SafetySpec /\ WF_vars(Page)

-----------------------------------------------------------------------------
(* The types of the variables.                                             *)
TypeOK == /\ page \in Pages
          /\ faulty \in SUBSET Nodes
          /\ height \in [Nodes -> Heights]
          /\ oldest \in Heights
          /\ pc \in {"idle", "ask", "verify", "decide", "accepted", "rejected", "hung"}
          /\ node \in Nodes
          /\ handled \in [Nodes -> Replies \union {Null}]
          /\ verified \in [Nodes -> BOOLEAN]

(* What node n can honestly have answered during the round: the result at  *)
(* a state its ledger had since the round began.                           *)
Truthful(n, text) == \E h \in oldest..height[n], o \in Orders :
                       text \in Keeps(page, Result(page, h, o))

(* A page shows an answer only if all but MaxFaulty of Threshold nodes are *)
(* correct nodes that gave an answer of its hash from a state of their     *)
(* ledger that is no older than the round.  Only a correct first node      *)
(* vouches for the answer itself (honeypots.js:129-150).                   *)
AcceptedIsTruthful == pc = "accepted" =>
  /\ \E S \in SUBSET Correct :
       /\ Cardinality(S) >= Threshold - MaxFaulty
       /\ \A n \in S : n \in Same /\ Truthful(n, handled[n])
  /\ 1 \in Correct => Truthful(1, handled[1])

(* A page never shows "no result" as a result, and although answers,       *)
(* signatures and matches are counted independently of each other, correct *)
(* nodes whose truthful answers have the hash of the shown one were found  *)
(* to have signed them: one of three in four, if one is faulty             *)
(* (honeypots.js:130-145).                                                 *)
AcceptedIsSigned == pc = "accepted" =>
  /\ handled[1] # Null
  /\ Cardinality({n \in Correct : n \in Same /\ verified[n] /\ Truthful(n, handled[n])})
       >= 2 * Threshold - NodeCount - MaxFaulty

(* Whatever the faulty nodes answer: if Threshold correct nodes, the first *)
(* among them, are reached and verified, and their ledgers are the same    *)
(* and stand still during the round, the result is shown.  Two answers are *)
(* exempt, which the pages cannot agree on: one in the order of a Go map   *)
(* (gtmwcc2.go:380), and an empty one of honeypots, of which the page      *)
(* keeps null (honeypots.js:109).                                          *)
AgreementIsShown == pc = "rejected" =>
  ~ /\ 1 \in Correct /\ verified[1]
    /\ Cardinality({n \in Correct : verified[n]}) >= Threshold
    /\ \A n \in Correct : height[n] = oldest
    /\ \A o \in Orders : Result(page, oldest, o) = Result(page, oldest, 1)
    /\ Null \notin Keeps(page, Result(page, oldest, 1))

(* A round comes to an end unless a success callback threw.                *)
RoundEnds == pc = "ask" ~> pc \in {"accepted", "rejected", "hung"}

(* README: the prototype "tolerates one malicious node to act              *)
(* arbitrarily".  So an answer that Threshold correct nodes sign is shown. *)
ToleratesOne == pc = "rejected" =>
  ~ \E text \in Replies :
      Cardinality({n \in Correct : handled[n] = text /\ verified[n]}) >= Threshold
===============================================================================
