--------------------------- MODULE QueryRound_proofs ---------------------------
(***************************************************************************)
(* Safety of QueryRound for any number of nodes below twice the threshold, *)
(* any number of faulty nodes and any number of ledger states.             *)
(***************************************************************************)
EXTENDS QueryRound, FiniteSetTheorems, TLAPS

(* Ledgers only grow: a correct node is never behind the round's start.    *)
Grown == pc # "idle" => \A n \in Correct : oldest <= height[n]

(* What the page keeps of a correct node comes from a ledger state of the  *)
(* round: a result it has, and also the null whose signature was checked.  *)
Kept == \A n \in Correct :
          handled[n] # Null \/ verified[n] \/ (pc = "verify" /\ n = node)
            => pc # "idle" /\ Truthful(n, handled[n])

(* No node is verified before its turn.                                    *)
Ahead == pc \in {"idle", "ask", "verify"} => \A n \in Nodes : n >= node => ~ verified[n]

FewFaulty == Cardinality(faulty) <= MaxFaulty

(* The decision was taken from the answers that are still there.           *)
Decided == /\ pc = "accepted" => Accepts
           /\ pc = "rejected" => ~ Accepts

IInv == TypeOK /\ Grown /\ Kept /\ Ahead /\ FewFaulty /\ Decided

USE QuorumAssumption, DataAssumption, NullAssumption, HashAssumption DEF Nodes, Heights

(* What a chaincode answers and what a page keeps are replies or nothing.  *)
LEMMA ResultType ==
  ASSUME NEW p, NEW h \in Heights, NEW o \in Orders
  PROVE  Result(p, h, o) \in Replies
BY DEF Result, HoneypotsResult, GtmwResult, NidsResult, Replies, Say, ResultHeights

LEMMA KeepsType ==
  ASSUME NEW p, NEW r \in Replies
  PROVE  Keeps(p, r) \subseteq Replies \union {Null}
<1>1. Say("found", 0, 1) \in Replies
  BY DEF Replies, ResultHeights
<1>2. HoneypotsKeeps(r) \subseteq Replies \union {Null}
  BY DEF HoneypotsKeeps
<1>3. NidsKeeps(r) \subseteq Replies \union {Null}
  BY <1>1 DEF NidsKeeps
<1>4. GtmwAppsKeeps(r) \subseteq Replies /\ GtmwVictimsKeeps(r) \subseteq Replies
  BY DEF GtmwAppsKeeps, GtmwVictimsKeeps
<1>5. QED BY <1>2, <1>3, <1>4 DEF Keeps

(* "Request failed" is kept by no page.                                    *)
LEMMA FailedBreaks ==
  ASSUME NEW p
  PROVE  Keeps(p, Say("failed", 0, 1)) = {}
<1>1. Say("failed", 0, 1) \in Replies /\ Say("failed", 0, 1).kind = "failed"
  BY DEF Replies, Say
<1>2. QED
  BY <1>1 DEF Keeps, HoneypotsKeeps, GtmwAppsKeeps, GtmwVictimsKeeps, NidsKeeps

(* The outcomes of the loop that the page's state can be in.               *)
LEMMA AdvanceType ==
  ASSUME TypeOK, Advance
  PROVE  /\ pc' \in {"ask", "decide"}
         /\ node' \in Nodes
BY DEF TypeOK, Advance

(* The invariant holds at the start.                                       *)
LEMMA InitIInv == Init => IInv
BY DEF Init, IInv, TypeOK, Grown, Kept, Ahead, FewFaulty, Decided, Correct

(* The round starts with no answers, at the oldest correct ledger.         *)
LEMMA SubmitStep ==
  ASSUME IInv, Submit
  PROVE  IInv'
<1> USE DEF IInv, Submit
<1>1. TypeOK' /\ Grown'
  BY DEF TypeOK, Grown, Correct
<1>2. Kept' /\ Ahead' /\ FewFaulty' /\ Decided'
  BY DEF TypeOK, Kept, Ahead, FewFaulty, Decided, Truthful, Correct
<1>3. QED BY <1>1, <1>2

(* A correct node's reply is a result of the present state of its ledger.  *)
LEMMA AnswerStep ==
  ASSUME IInv, Answer
  PROVE  IInv'
<1> USE DEF IInv
<1>1. PICK r \in IF node \in faulty THEN Replies ELSE Honest(node) :
        \/ Keeps(page, r) = {} /\ pc' = "hung" /\ UNCHANGED handled
        \/ /\ pc' = "verify"
           /\ \E k \in Keeps(page, r) : handled' = [handled EXCEPT ![node] = k]
  BY DEF Answer
<1>2. /\ pc = "ask"
      /\ UNCHANGED <<page, faulty, height, oldest, node, verified>>
  BY DEF Answer
<1>3. r \in Replies
  <2>1. Say("failed", 0, 1) \in Replies
    BY DEF Replies
  <2>2. \A o \in Orders : Result(page, height[node], o) \in Replies
    BY ResultType DEF TypeOK
  <2>3. QED BY <1>1, <2>1, <2>2 DEF Honest
<1>4. Keeps(page, r) \subseteq Replies \union {Null}
  BY <1>3, KeepsType
<1>5. TypeOK'
  BY <1>1, <1>2, <1>4 DEF TypeOK
<1>6. Grown'
  BY <1>1, <1>2 DEF Grown, Correct
<1>7. Kept'
  <2> SUFFICES ASSUME NEW n \in Correct,
                      (handled[n] # Null \/ verified[n] \/ (pc = "verify" /\ n = node))'
               PROVE  pc' # "idle" /\ Truthful(n, handled[n])'
    BY <1>2 DEF Kept, Correct
  <2>1. CASE handled'[n] = handled[n] /\ ~ (pc' = "verify" /\ n = node)
    BY <1>1, <1>2, <2>1 DEF TypeOK, Kept, Truthful, Correct
  <2>2. CASE handled'[n] # handled[n] \/ (pc' = "verify" /\ n = node)
    <3>1. n = node /\ n \notin faulty /\ handled'[n] \in Keeps(page, r)
      BY <1>1, <2>2 DEF TypeOK, Correct
    <3>2. PICK o \in Orders : r = Result(page, height[n], o)
      BY <1>1, <3>1, FailedBreaks DEF Honest
    <3>3. height[n] \in oldest..height[n]
      BY <1>2, <3>1 DEF TypeOK, Grown, Correct
    <3>4. QED BY <1>1, <1>2, <2>2, <3>1, <3>2, <3>3 DEF Truthful
  <2>3. QED BY <1>2, <2>1, <2>2
<1>8. Ahead' /\ FewFaulty' /\ Decided'
  BY <1>1, <1>2 DEF Ahead, FewFaulty, Decided
<1>9. QED BY <1>5, <1>6, <1>7, <1>8

(* A node that is not reached keeps no result.                             *)
LEMMA UnreachableStep ==
  ASSUME IInv, Unreachable
  PROVE  IInv'
<1> USE DEF IInv, Unreachable
<1>1. pc' \in {"ask", "decide"} /\ node' \in Nodes
  BY AdvanceType
<1>2. TypeOK' /\ Grown' /\ FewFaulty' /\ Decided'
  BY <1>1 DEF TypeOK, Grown, FewFaulty, Decided, Correct
<1>3. Kept'
  BY <1>1 DEF TypeOK, Kept, Ahead, Truthful, Correct
<1>4. Ahead'
  BY <1>1 DEF TypeOK, Ahead, Advance
<1>5. QED BY <1>2, <1>3, <1>4

(* A verdict is about the answer the node has just given.                  *)
LEMMA VerdictStep ==
  ASSUME IInv, Verdict
  PROVE  IInv'
<1> USE DEF IInv, Verdict
<1>1. pc' \in {"ask", "decide"} /\ node' \in Nodes
  BY AdvanceType
<1>2. TypeOK' /\ Grown' /\ FewFaulty' /\ Decided'
  BY <1>1 DEF TypeOK, Grown, FewFaulty, Decided, Correct
<1>3. Kept'
  BY <1>1 DEF TypeOK, Kept, Ahead, Truthful, Correct
<1>4. Ahead'
  BY <1>1 DEF TypeOK, Ahead, Advance
<1>5. QED BY <1>2, <1>3, <1>4

(* An answer that cannot be checked is dropped, unverified.                *)
LEMMA NoVerdictStep ==
  ASSUME IInv, NoVerdict
  PROVE  IInv'
<1> USE DEF IInv, NoVerdict
<1>1. pc' \in {"ask", "decide"} /\ node' \in Nodes
  BY AdvanceType
<1>2. TypeOK' /\ Grown' /\ FewFaulty' /\ Decided'
  BY <1>1 DEF TypeOK, Grown, FewFaulty, Decided, Correct
<1>3. Kept'
  BY <1>1 DEF TypeOK, Kept, Ahead, Truthful, Correct
<1>4. Ahead'
  BY <1>1 DEF TypeOK, Ahead, Advance
<1>5. QED BY <1>2, <1>3, <1>4

(* The decision follows the counters.                                      *)
LEMMA DecideStep ==
  ASSUME IInv, Decide
  PROVE  IInv'
<1> USE DEF IInv, Decide
<1>1. TypeOK' /\ Grown' /\ FewFaulty'
  BY DEF TypeOK, Grown, FewFaulty, Correct
<1>2. Kept' /\ Ahead'
  BY DEF TypeOK, Kept, Ahead, Truthful, Correct
<1>3. Accepts' <=> Accepts
  BY DEF Accepts, Available, Signed, Same, hashOfArray
<1>4. Decided'
  BY <1>3 DEF Decided
<1>5. QED BY <1>1, <1>2, <1>4

(* A block that commits only widens the range of truthful answers.         *)
LEMMA CommitBlockStep ==
  ASSUME IInv, NEW m \in Nodes, CommitBlock(m)
  PROVE  IInv'
<1> USE DEF IInv, CommitBlock, round
<1>1. TypeOK'
  BY DEF TypeOK
<1>2. \A n \in Nodes : height[n] <= height'[n] /\ height[n] \in Int /\ height'[n] \in Int
  BY DEF TypeOK
<1>3. Grown' /\ Ahead' /\ FewFaulty'
  BY <1>2 DEF TypeOK, Grown, Ahead, FewFaulty, Correct
<1>4. Kept'
  <2>1. oldest \in Int
    BY DEF TypeOK
  <2>2. \A n \in Nodes : oldest..height[n] \subseteq oldest..height'[n]
    BY <1>2, <2>1
  <2>3. QED BY <2>2 DEF Kept, Truthful, Correct
<1>5. Accepts' <=> Accepts
  BY DEF Accepts, Available, Signed, Same, hashOfArray
<1>6. Decided'
  BY <1>5 DEF Decided
<1>7. QED BY <1>1, <1>3, <1>4, <1>6

(* Every step keeps the invariant.                                         *)
LEMMA NextIInv == IInv /\ [Next]_vars => IInv'
<1> SUFFICES ASSUME IInv, [Next]_vars
             PROVE  IInv'
  OBVIOUS
<1>1. CASE Page
  BY <1>1, SubmitStep, AnswerStep, UnreachableStep, VerdictStep, NoVerdictStep,
     DecideStep DEF Page
<1>2. CASE \E n \in Correct : CommitBlock(n)
  BY <1>2, CommitBlockStep DEF Correct
<1>3. CASE UNCHANGED vars
  BY <1>3 DEF IInv, TypeOK, Grown, Kept, Ahead, FewFaulty, Decided, Truthful, Correct,
              Accepts, Available, Signed, Same, hashOfArray, vars
<1>4. QED BY <1>1, <1>2, <1>3 DEF Next

(* The invariant holds always.                                             *)
LEMMA InvariantHolds == SafetySpec => []IInv
BY InitIInv, NextIInv, PTL DEF SafetySpec

(* Every set of nodes is finite.                                           *)
LEMMA NodeSets ==
  ASSUME NEW S \in SUBSET Nodes
  PROVE  /\ IsFiniteSet(S)
         /\ Cardinality(S) \in Nat
         /\ Cardinality(S) <= NodeCount
<1>1. IsFiniteSet(Nodes) /\ Cardinality(Nodes) = NodeCount
  BY FS_Interval
<1>2. QED BY <1>1, FS_Subset, FS_CardinalityType

(* Two quorums of Threshold nodes share 2 * Threshold - NodeCount nodes.   *)
LEMMA QuorumsMeet ==
  ASSUME NEW S \in SUBSET Nodes, NEW T \in SUBSET Nodes,
         Cardinality(S) >= Threshold, Cardinality(T) >= Threshold
  PROVE  /\ Cardinality(S \intersect T) >= 2 * Threshold - NodeCount
         /\ S \intersect T # {}
<1>1. Cardinality(S \union T) = Cardinality(S) + Cardinality(T) - Cardinality(S \intersect T)
  BY NodeSets, FS_Union
<1>2. Cardinality(S \union T) <= NodeCount
  BY NodeSets
<1>3. /\ Cardinality(S) \in Nat /\ Cardinality(T) \in Nat
      /\ Cardinality(S \union T) \in Nat /\ Cardinality(S \intersect T) \in Nat
  BY NodeSets
<1>4. Cardinality(S \intersect T) >= 2 * Threshold - NodeCount
  BY <1>1, <1>2, <1>3
<1>5. Cardinality(S \intersect T) # 0
  BY <1>3, <1>4
<1>6. QED BY <1>4, <1>5, FS_EmptySet

(* All but MaxFaulty nodes of a set are correct.                           *)
LEMMA CorrectPart ==
  ASSUME NEW S \in SUBSET Nodes, faulty \in SUBSET Nodes, FewFaulty
  PROVE  Cardinality(S \ faulty) >= Cardinality(S) - MaxFaulty
<1>1. Cardinality(S \ faulty) = Cardinality(S) - Cardinality(S \intersect faulty)
  BY NodeSets, FS_Difference
<1>2. Cardinality(S \intersect faulty) <= Cardinality(faulty)
  BY NodeSets, FS_Intersection
<1>3. /\ Cardinality(S) \in Nat /\ Cardinality(faulty) \in Nat
      /\ Cardinality(S \intersect faulty) \in Nat
  BY NodeSets
<1>4. QED BY <1>1, <1>2, <1>3 DEF FewFaulty

(* An accepted round has a result in its first answer, and so have all     *)
(* the nodes that are counted as giving the same.                          *)
LEMMA SameAreAvailable ==
  ASSUME TypeOK, Accepts
  PROVE  \A n \in Same : handled[n] # Null
<1>1. Same \in SUBSET Nodes /\ Available \in SUBSET Nodes
  BY DEF Same, Available
<1>2. PICK m \in Same : handled[m] # Null
  BY <1>1, QuorumsMeet DEF Accepts, Available
<1>3. handled[m] \in Replies
  BY <1>2 DEF TypeOK, Same
<1>4. hashOfArray(handled[1]) # Null
  BY <1>2, <1>3 DEF hashOfArray, Same
<1>5. QED BY <1>4 DEF hashOfArray, Same

(* The first answer has its own hash.                                      *)
LEMMA FirstIsSame == 1 \in Same
BY DEF Same

(* A page keeps one text of a reply, or none.                              *)
LEMMA KeepsOne ==
  ASSUME NEW p, NEW r, NEW x \in Keeps(p, r), NEW y \in Keeps(p, r)
  PROVE  x = y
<1>1. CASE p = "honeypots"
  BY <1>1 DEF Keeps, HoneypotsKeeps
<1>2. CASE p = "nids"
  BY <1>2 DEF Keeps, NidsKeeps
<1>3. CASE p \notin {"honeypots", "nids"}
  BY <1>3 DEF Keeps, GtmwAppsKeeps, GtmwVictimsKeeps
<1>4. QED BY <1>1, <1>2, <1>3

(* The variables keep their types.                                         *)
THEOREM TypeCorrect == SafetySpec => []TypeOK
<1>1. IInv => TypeOK
  BY DEF IInv
<1>2. QED BY <1>1, InvariantHolds, PTL

(* A page shows only what has the hash of results that enough correct      *)
(* nodes read from their ledgers during the round, and a correct first     *)
(* node's own result.                                                      *)
THEOREM ShownIsTruthful == SafetySpec => []AcceptedIsTruthful
<1>1. IInv => AcceptedIsTruthful
  <2> SUFFICES ASSUME IInv, pc = "accepted"
               PROVE  /\ \E S \in SUBSET Correct :
                           /\ Cardinality(S) >= Threshold - MaxFaulty
                           /\ \A n \in S : n \in Same /\ Truthful(n, handled[n])
                      /\ 1 \in Correct => Truthful(1, handled[1])
    BY DEF AcceptedIsTruthful
  <2>1. Accepts /\ TypeOK /\ faulty \in SUBSET Nodes /\ Same \in SUBSET Nodes
    BY DEF IInv, Decided, TypeOK, Same
  <2>2. \A n \in Same \ faulty : n \in Correct /\ Truthful(n, handled[n])
    BY <2>1, SameAreAvailable DEF IInv, Kept, Correct
  <2>3. Cardinality(Same \ faulty) >= Threshold - MaxFaulty
    <3>1. Cardinality(Same \ faulty) >= Cardinality(Same) - MaxFaulty
      BY <2>1, CorrectPart DEF IInv
    <3>2. Cardinality(Same) >= Threshold
      BY <2>1 DEF Accepts
    <3>3. Cardinality(Same) \in Nat /\ Cardinality(Same \ faulty) \in Nat
      BY <2>1, NodeSets
    <3>4. QED BY <3>1, <3>2, <3>3
  <2>4. 1 \in Correct => Truthful(1, handled[1])
    BY <2>2, FirstIsSame DEF Correct
  <2>5. QED BY <2>2, <2>3, <2>4
<1>2. QED BY <1>1, InvariantHolds, PTL

(* What a page shows is a result, and correct nodes were found to have     *)
(* signed truthful answers of its hash.                                    *)
THEOREM ShownIsSigned == SafetySpec => []AcceptedIsSigned
<1>1. IInv => AcceptedIsSigned
  <2> DEFINE B == Same \intersect Signed
             W == {n \in Correct : n \in Same /\ verified[n] /\ Truthful(n, handled[n])}
  <2> SUFFICES ASSUME IInv, pc = "accepted"
               PROVE  /\ handled[1] # Null
                      /\ Cardinality(W) >= 2 * Threshold - NodeCount - MaxFaulty
    BY DEF AcceptedIsSigned
  <2>1. /\ Accepts /\ TypeOK /\ faulty \in SUBSET Nodes
        /\ Same \in SUBSET Nodes /\ Signed \in SUBSET Nodes /\ B \in SUBSET Nodes
    BY DEF IInv, Decided, TypeOK, Same, Signed
  <2>2. handled[1] # Null
    BY <2>1, SameAreAvailable, FirstIsSame
  <2>3. B \ faulty = W
    BY <2>1, SameAreAvailable DEF IInv, Kept, Correct, Same, Signed
  <2>4. Cardinality(B) >= 2 * Threshold - NodeCount
    BY <2>1, QuorumsMeet DEF Accepts
  <2>5. Cardinality(B \ faulty) >= Cardinality(B) - MaxFaulty
    BY <2>1, CorrectPart DEF IInv
  <2>6. Cardinality(B) \in Nat /\ Cardinality(B \ faulty) \in Nat
    BY <2>1, NodeSets
  <2>7. Cardinality(B \ faulty) >= 2 * Threshold - NodeCount - MaxFaulty
    <3> HIDE DEF B
    <3>1. QED BY <2>4, <2>5, <2>6
  <2>8. Cardinality(W) >= 2 * Threshold - NodeCount - MaxFaulty
    <3> HIDE DEF B, W
    <3>1. QED BY <2>3, <2>7
  <2>9. QED BY <2>2, <2>8
<1>2. QED BY <1>1, InvariantHolds, PTL

(* Whatever the faulty nodes answer, Threshold correct nodes that agree,   *)
(* the first among them, have their result shown.                          *)
THEOREM AgreementPrevails == SafetySpec => []AgreementIsShown
<1>1. IInv => AgreementIsShown
  <2> DEFINE G == {n \in Correct : verified[n]}
             R == Result(page, oldest, 1)
  <2> SUFFICES ASSUME IInv, pc = "rejected", 1 \in Correct, verified[1],
                      Cardinality(G) >= Threshold,
                      \A n \in Correct : height[n] = oldest,
                      \A o \in Orders : Result(page, oldest, o) = R,
                      Null \notin Keeps(page, R)
               PROVE  FALSE
    BY DEF AgreementIsShown
  <2>1. \A n \in G : handled[n] \in Keeps(page, R)
    <3> SUFFICES ASSUME NEW n \in G
                 PROVE  handled[n] \in Keeps(page, R)
      OBVIOUS
    <3>1. Truthful(n, handled[n])
      BY DEF IInv, Kept
    <3>2. PICK h \in oldest..height[n], o \in Orders :
            handled[n] \in Keeps(page, Result(page, h, o))
      BY <3>1 DEF Truthful
    <3>3. h = oldest
      BY <3>2 DEF IInv, TypeOK
    <3>4. QED BY <3>2, <3>3
  <2>2. \A n \in G : handled[n] # Null /\ handled[n] = handled[1]
    BY <2>1, KeepsOne
  <2>3. G \in SUBSET Available /\ G \in SUBSET Signed /\ G \in SUBSET Same
    BY <2>2 DEF Available, Signed, Same, Correct
  <2>4. Available \in SUBSET Nodes /\ Signed \in SUBSET Nodes /\ Same \in SUBSET Nodes
    BY DEF Available, Signed, Same
  <2>5. /\ Cardinality(G) <= Cardinality(Available)
        /\ Cardinality(G) <= Cardinality(Signed)
        /\ Cardinality(G) <= Cardinality(Same)
    BY <2>3, <2>4, NodeSets, FS_Subset
  <2>6. /\ Cardinality(G) \in Nat /\ Cardinality(Available) \in Nat
        /\ Cardinality(Signed) \in Nat /\ Cardinality(Same) \in Nat
    BY <2>4, NodeSets DEF Correct
  <2>7. ~ Accepts
    BY DEF IInv, Decided
  <2> HIDE DEF G, R
  <2>8. QED BY <2>5, <2>6, <2>7 DEF Accepts
<1>2. QED BY <1>1, InvariantHolds, PTL
=============================================================================
