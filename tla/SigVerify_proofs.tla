--------------------------- MODULE SigVerify_proofs ---------------------------
(***************************************************************************)
(* Safety of SigVerify for any set of requests and of nodes.               *)
(***************************************************************************)
EXTENDS SigVerify, TLAPS

(* A path that is set is that of a node some request named.                *)
NamedPath(p) == p # Null => \E q \in Requests : id[q] = p /\ Named(q)

Origin == /\ NamedPath(pubKeyPath)
          /\ \A r \in Requests : NamedPath(pubSeen[r])

(* Only a node's id sets the paths; the private one is then never unset.   *)
PrivSet == \A r \in Requests :
  /\ pc[r] \in {"setPriv", "setPub"} => id[r] \in Nodes
  /\ (id[r] \in Nodes /\ pc[r] \in {"setPub"} \union Relying)
       => privKeyPath /\ privSeen[r]

(* A request that nobody disturbs finds the path it has set, and verifies  *)
(* under its key.                                                          *)
OwnPath == \A r \in Requests : (id[r] \in Nodes /\ r \notin disturbed) =>
  /\ pc[r] \in Relying => pubKeyPath = id[r] /\ pubSeen[r] = id[r]
  /\ pc[r] = "verify" => pubSeen[r] = id[r]

IInv == /\ TypeOK
        /\ Origin
        /\ PrivSet
        /\ OwnPath
        /\ WrongVerdictNeedsOverlap
        /\ SignerWasNamed

USE NamesAssumption DEF Location, Relying, Paths, Ids, Signers

(* The invariant holds at the start.                                       *)
LEMMA InitIInv == Init => IInv
BY DEF Init, IInv, TypeOK, Origin, NamedPath, PrivSet, OwnPath,
       WrongVerdictNeedsOverlap, Answered, SignerWasNamed, Named

(* What a request may read is a path, and under its own id it is its own.  *)
LEMMA Reads ==
  ASSUME IInv, NEW r \in Requests
  PROVE  /\ PrivReadable(r) \subseteq BOOLEAN
         /\ PubReadable(r) \subseteq Paths
         /\ \A p \in PubReadable(r) : NamedPath(p)
         /\ (id[r] \in Nodes /\ pc[r] \in Relying)
               => \A p \in PrivReadable(r) : p
         /\ (id[r] \in Nodes /\ pc[r] \in Relying /\ r \notin disturbed)
               => \A p \in PubReadable(r) : p = id[r]
BY DEF IInv, TypeOK, Origin, PrivSet, OwnPath, PrivReadable, PubReadable, Readable

(* An answer's verdict and signer have their types, and the verdict is     *)
(* about the key.                                                          *)
LEMMA Answers ==
  ASSUME TypeOK, NEW r \in Requests, NEW key \in Paths, Answer(r, key)
  PROVE  /\ signer' \in [Requests -> Signers]
         /\ verdict' \in [Requests -> BOOLEAN]
         /\ verdict'[r] <=> signer'[r] = key
         /\ \A q \in Requests \ {r} : /\ signer'[q] = signer[q]
                                      /\ verdict'[q] = verdict[q]
<1>1. PICK s \in Signers : /\ signer' = [signer EXCEPT ![r] = s]
                           /\ verdict' = [verdict EXCEPT ![r] = (s = key)]
  BY DEF Answer
<1>2. QED BY <1>1 DEF TypeOK

(* The answer after an exception is false.                                 *)
LEMMA NullAnswers ==
  ASSUME TypeOK, NEW r \in Requests, Answer(r, Null)
  PROVE  /\ signer' \in [Requests -> Signers]
         /\ verdict' \in [Requests -> BOOLEAN]
         /\ ~verdict'[r]
         /\ \A q \in Requests \ {r} : /\ signer'[q] = signer[q]
                                      /\ verdict'[q] = verdict[q]
BY Answers

(* A request that names a node, or one that is not known, changes no path. *)
LEMMA AcceptStep ==
  ASSUME IInv, NEW r \in Requests, Accept(r), Observe
  PROVE  IInv'
<1> USE DEF IInv, Move
<1>1. Accept(r)
  OBVIOUS
<1>2. /\ UNCHANGED <<id, pubKeyPath, privKeyPath, privSeen, pubSeen>>
      /\ \/ AcceptKnown(r) \/ AcceptUnknown(r)
         \/ /\ id[r] = Null /\ Move(r, "idle", "answered")
            /\ signer' \in [Requests -> Signers]
            /\ verdict' \in [Requests -> BOOLEAN]
            /\ ~verdict'[r]
            /\ \A q \in Requests \ {r} : /\ signer'[q] = signer[q]
                                         /\ verdict'[q] = verdict[q]
  BY <1>1, NullAnswers DEF Accept, AcceptKnown, AcceptUnknown, AcceptNull
<1>3. TypeOK'
  BY <1>2 DEF TypeOK, Observe, AcceptKnown, AcceptUnknown
<1>4. Origin'
  BY <1>2 DEF TypeOK, Origin, NamedPath, Named, AcceptKnown, AcceptUnknown
<1>5. PrivSet'
  BY <1>2 DEF TypeOK, PrivSet, AcceptKnown, AcceptUnknown
<1>6. OwnPath'
  BY <1>2 DEF TypeOK, OwnPath, Observe, AcceptKnown, AcceptUnknown
<1>7. WrongVerdictNeedsOverlap'
  BY <1>2 DEF TypeOK, WrongVerdictNeedsOverlap, Answered, Observe, OwnPath, AcceptKnown, AcceptUnknown
<1>8. SignerWasNamed'
  BY <1>2 DEF TypeOK, SignerWasNamed, Named, Origin, NamedPath, AcceptKnown, AcceptUnknown
<1>9. QED BY <1>3, <1>4, <1>5, <1>6, <1>7, <1>8

(* SetPriv keeps the invariant.                                            *)
LEMMA SetPrivStep ==
  ASSUME IInv, NEW r \in Requests, SetPriv(r), Observe
  PROVE  IInv'
<1> USE DEF IInv, Move
<1>1. TypeOK'
  BY DEF TypeOK, Observe, SetPriv
<1>2. Origin'
  BY DEF TypeOK, Origin, NamedPath, Named, SetPriv
<1>3. PrivSet'
  BY DEF TypeOK, PrivSet, SetPriv
<1>4. OwnPath'
  BY DEF TypeOK, OwnPath, Observe, SetPriv
<1>5. WrongVerdictNeedsOverlap'
  BY DEF TypeOK, WrongVerdictNeedsOverlap, Answered, Observe, OwnPath, SetPriv
<1>6. SignerWasNamed'
  BY DEF TypeOK, SignerWasNamed, Named, Origin, NamedPath, SetPriv
<1>7. QED BY <1>1, <1>2, <1>3, <1>4, <1>5, <1>6

(* SetPub disturbs the requests under way, and its own path is named.      *)
LEMMA SetPubStep ==
  ASSUME IInv, NEW r \in Requests, SetPub(r), Observe
  PROVE  IInv'
<1> USE DEF IInv, Move
<1>1. id[r] \in Nodes
  BY DEF PrivSet, SetPub
<1>2. TypeOK'
  BY <1>1 DEF TypeOK, Observe, SetPub
<1>3. Origin'
  BY <1>1 DEF TypeOK, Origin, NamedPath, Named, SetPub
<1>4. PrivSet'
  BY <1>1 DEF TypeOK, PrivSet, SetPub
<1>5. OwnPath'
  BY <1>1 DEF TypeOK, OwnPath, Observe, SetPub
<1>6. WrongVerdictNeedsOverlap'
  BY <1>1 DEF TypeOK, WrongVerdictNeedsOverlap, Answered, Observe, OwnPath, SetPub
<1>7. SignerWasNamed'
  BY <1>1 DEF TypeOK, SignerWasNamed, Named, Origin, NamedPath, SetPub
<1>8. QED BY <1>2, <1>3, <1>4, <1>5, <1>6, <1>7

(* LogPriv keeps the invariant.                                            *)
LEMMA LogPrivStep ==
  ASSUME IInv, NEW r \in Requests, LogPriv(r), Observe
  PROVE  IInv'
<1> USE DEF IInv, Move
<1>1. PICK p \in PrivReadable(r) : privSeen' = [privSeen EXCEPT ![r] = p]
  BY DEF LogPriv
<1>2. TypeOK'
  BY <1>1, Reads DEF TypeOK, Observe, LogPriv
<1>3. Origin'
  BY <1>1, Reads DEF TypeOK, Origin, NamedPath, Named, LogPriv
<1>4. PrivSet'
  BY <1>1, Reads DEF TypeOK, PrivSet, LogPriv
<1>5. OwnPath'
  BY <1>1, Reads DEF TypeOK, OwnPath, Observe, LogPriv
<1>6. WrongVerdictNeedsOverlap'
  BY <1>1, Reads DEF TypeOK, WrongVerdictNeedsOverlap, Answered, Observe, OwnPath, LogPriv
<1>7. SignerWasNamed'
  BY <1>1, Reads DEF TypeOK, SignerWasNamed, Named, Origin, NamedPath, LogPriv
<1>8. QED BY <1>2, <1>3, <1>4, <1>5, <1>6, <1>7

(* LogPub leaves a request with what it may have read.                     *)
LEMMA LogPubStep ==
  ASSUME IInv, NEW r \in Requests, LogPub(r), Observe
  PROVE  IInv'
<1> USE DEF IInv, Move
<1>1. PICK p \in PubReadable(r) : pubSeen' = [pubSeen EXCEPT ![r] = p]
  BY DEF LogPub
<1>2. TypeOK'
  BY <1>1, Reads DEF TypeOK, Observe, LogPub
<1>3. Origin'
  BY <1>1, Reads DEF TypeOK, Origin, NamedPath, Named, LogPub
<1>4. PrivSet'
  BY <1>1, Reads DEF TypeOK, PrivSet, LogPub
<1>5. OwnPath'
  BY <1>1, Reads DEF TypeOK, OwnPath, Observe, LogPub
<1>6. WrongVerdictNeedsOverlap'
  BY <1>1, Reads DEF TypeOK, WrongVerdictNeedsOverlap, Answered, Observe, OwnPath, LogPub
<1>7. SignerWasNamed'
  BY <1>1, Reads DEF TypeOK, SignerWasNamed, Named, Origin, NamedPath, LogPub
<1>8. QED BY <1>2, <1>3, <1>4, <1>5, <1>6, <1>7

(* A null private path answers only a request without a node's id.         *)
LEMMA ReadPrivStep ==
  ASSUME IInv, NEW r \in Requests, ReadPriv(r), Observe
  PROVE  IInv'
<1> USE DEF IInv, Move
<1>1. /\ pc[r] = "readPriv"
      /\ UNCHANGED <<id, privKeyPath, pubKeyPath, pubSeen>>
  BY DEF ReadPriv
<1>2. PICK p \in PrivReadable(r) :
        /\ privSeen' = [privSeen EXCEPT ![r] = p]
        /\ \/ /\ p
              /\ pc' = [pc EXCEPT ![r] = "readPub"]
              /\ UNCHANGED <<signer, verdict>>
           \/ /\ ~p
              /\ pc' = [pc EXCEPT ![r] = "answered"]
              /\ signer' \in [Requests -> Signers]
              /\ verdict' \in [Requests -> BOOLEAN]
              /\ ~verdict'[r]
              /\ \A q \in Requests \ {r} : /\ signer'[q] = signer[q]
                                           /\ verdict'[q] = verdict[q]
  BY NullAnswers DEF ReadPriv
<1>3. TypeOK'
  BY <1>1, <1>2, Reads DEF TypeOK, Observe
<1>4. Origin'
  BY <1>1, <1>2, Reads DEF TypeOK, Origin, NamedPath, Named
<1>5. PrivSet'
  BY <1>1, <1>2, Reads DEF TypeOK, PrivSet
<1>6. OwnPath'
  BY <1>1, <1>2, Reads DEF TypeOK, OwnPath, Observe
<1>7. WrongVerdictNeedsOverlap'
  BY <1>1, <1>2, Reads DEF TypeOK, WrongVerdictNeedsOverlap, Answered, Observe, OwnPath
<1>8. SignerWasNamed'
  BY <1>1, <1>2, Reads DEF TypeOK, SignerWasNamed, Named, Origin, NamedPath
<1>9. QED BY <1>3, <1>4, <1>5, <1>6, <1>7, <1>8

(* An undisturbed request of a known node reads that node's key.           *)
LEMMA ReadPubStep ==
  ASSUME IInv, NEW r \in Requests, ReadPub(r), Observe
  PROVE  IInv'
<1> USE DEF IInv, Move
<1>1. /\ pc[r] = "readPub"
      /\ UNCHANGED <<id, privKeyPath, pubKeyPath, privSeen>>
  BY DEF ReadPub
<1>2. PICK p \in PubReadable(r) :
        /\ pubSeen' = [pubSeen EXCEPT ![r] = p]
        /\ \/ /\ p # Null
              /\ pc' = [pc EXCEPT ![r] = "verify"]
              /\ UNCHANGED <<signer, verdict>>
           \/ /\ p = Null
              /\ pc' = [pc EXCEPT ![r] = "answered"]
              /\ signer' \in [Requests -> Signers]
              /\ verdict' \in [Requests -> BOOLEAN]
              /\ ~verdict'[r]
              /\ \A q \in Requests \ {r} : /\ signer'[q] = signer[q]
                                           /\ verdict'[q] = verdict[q]
  BY NullAnswers DEF ReadPub
<1>3. TypeOK'
  BY <1>1, <1>2, Reads DEF TypeOK, Observe
<1>4. Origin'
  BY <1>1, <1>2, Reads DEF TypeOK, Origin, NamedPath, Named
<1>5. PrivSet'
  BY <1>1, <1>2, Reads DEF TypeOK, PrivSet
<1>6. OwnPath'
  BY <1>1, <1>2, Reads DEF TypeOK, OwnPath, Observe
<1>7. WrongVerdictNeedsOverlap'
  BY <1>1, <1>2, Reads DEF TypeOK, WrongVerdictNeedsOverlap, Answered, Observe, OwnPath
<1>8. SignerWasNamed'
  BY <1>1, <1>2, Reads DEF TypeOK, SignerWasNamed, Named, Origin, NamedPath
<1>9. QED BY <1>3, <1>4, <1>5, <1>6, <1>7, <1>8

(* The verdict is about the key that was read.                             *)
LEMMA VerifyStep ==
  ASSUME IInv, NEW r \in Requests, Verify(r), Observe
  PROVE  IInv'
<1> USE DEF IInv, Move
<1>1. /\ pc[r] = "verify" /\ pc' = [pc EXCEPT ![r] = "answered"]
      /\ UNCHANGED <<id, privKeyPath, pubKeyPath, privSeen, pubSeen>>
      /\ signer' \in [Requests -> Signers]
      /\ verdict' \in [Requests -> BOOLEAN]
      /\ verdict'[r] <=> signer'[r] = pubSeen[r]
      /\ \A q \in Requests \ {r} : /\ signer'[q] = signer[q]
                                   /\ verdict'[q] = verdict[q]
  BY Answers DEF Verify, TypeOK
<1>2. TypeOK'
  BY <1>1 DEF TypeOK, Observe
<1>3. Origin'
  BY <1>1 DEF TypeOK, Origin, NamedPath, Named
<1>4. PrivSet'
  BY <1>1 DEF TypeOK, PrivSet
<1>5. OwnPath'
  BY <1>1 DEF TypeOK, OwnPath, Observe
<1>6. WrongVerdictNeedsOverlap'
  BY <1>1 DEF TypeOK, WrongVerdictNeedsOverlap, Answered, Observe, OwnPath
<1>7. SignerWasNamed'
  BY <1>1 DEF TypeOK, SignerWasNamed, Named, Origin, NamedPath
<1>8. QED BY <1>2, <1>3, <1>4, <1>5, <1>6, <1>7

(* Every step keeps the invariant.                                         *)
LEMMA NextIInv == IInv /\ [Next]_vars => IInv'
<1> SUFFICES ASSUME IInv, [Next]_vars
             PROVE  IInv'
  OBVIOUS
<1>1. CASE \E r \in Requests : Accept(r) /\ Observe
  BY <1>1, AcceptStep
<1>2. CASE \E r \in Requests : Step(r) /\ Observe
  BY <1>2, SetPrivStep, SetPubStep, LogPrivStep, LogPubStep, ReadPrivStep,
     ReadPubStep, VerifyStep DEF Step
<1>3. CASE UNCHANGED vars
  BY <1>3 DEF vars, IInv, TypeOK, Origin, NamedPath, Named, PrivSet, OwnPath,
              WrongVerdictNeedsOverlap, Answered, SignerWasNamed
<1>4. QED BY <1>1, <1>2, <1>3 DEF Next

(* The invariant holds always.                                             *)
LEMMA InvariantHolds == SafetySpec => []IInv
BY InitIInv, NextIInv, PTL DEF SafetySpec

(* The variables keep their types.                                         *)
THEOREM TypeCorrect == SafetySpec => []TypeOK
<1>1. IInv => TypeOK
  BY DEF IInv
<1>2. QED BY <1>1, InvariantHolds, PTL

(* An answer about a known node is wrong only if another request replaced  *)
(* the path while it ran.                                                  *)
THEOREM VerdictsAreRight == SafetySpec => []WrongVerdictNeedsOverlap
<1>1. IInv => WrongVerdictNeedsOverlap
  BY DEF IInv
<1>2. QED BY <1>1, InvariantHolds, PTL

(* A signature is called good only under a key somebody asked for.         *)
THEOREM SignersAreNamed == SafetySpec => []SignerWasNamed
<1>1. IInv => SignerWasNamed
  BY DEF IInv
<1>2. QED BY <1>1, InvariantHolds, PTL
=============================================================================
