------------------------------ MODULE SigVerify ------------------------------
(***************************************************************************)
(* signatureVerify: the signature verification service.  Every request     *)
(* runs on a thread of its own, names the node whose key is to be used,    *)
(* and finds the key files through two static paths that all requests      *)
(* share.  The steps are the writes and reads of those paths.  A public    *)
(* path is named after its node, a signature after the node whose key made *)
(* it; of the private path it only matters whether it is set.              *)
(***************************************************************************)
EXTENDS Naturals

CONSTANTS Requests,   \* calls of signatureVerify
          Nodes,      \* the node ids of the switch statement
          Stranger,   \* any other node id
          Null,       \* no path, no node id
          NoOne       \* whose signature it is: no node's, or it is missing

ASSUME NamesAssumption == /\ Stranger \notin Nodes
                          /\ Null \notin Nodes \union {Stranger}
                          /\ NoOne \notin Nodes \union {Null}

VARIABLES pc,           \* where each request stands
          id,           \* id[r]: pubkeyNodeIndex
          privKeyPath,  \* the static paths; the private one: is it set
          pubKeyPath,
          privSeen,     \* what a request last wrote to or read from them
          pubSeen,
          signer,       \* signer[r]: whose signature the request carries
          verdict,      \* verdict[r]: the answer's "data"
          disturbed     \* history: requests whose path another one replaced

vars == <<pc, id, privKeyPath, pubKeyPath, privSeen, pubSeen, signer, verdict,
          disturbed>>

Paths == Nodes \union {Null}
Ids == Nodes \union {Stranger, Null}
Signers == Nodes \union {NoOne}

(* Where a request relies on the public path it has set.                   *)
Relying == {"logPriv", "logPub", "readPriv", "readPub"}
Location == {"idle", "setPriv", "setPub", "verify", "answered"} \union Relying

Init == /\ pc = [r \in Requests |-> "idle"]
        /\ id \in [Requests -> Ids]
        /\ privKeyPath = FALSE
        /\ pubKeyPath = Null
        /\ privSeen = [r \in Requests |-> FALSE]
        /\ pubSeen = [r \in Requests |-> Null]
        /\ signer = [r \in Requests |-> NoOne]
        /\ verdict = [r \in Requests |-> FALSE]
        /\ disturbed = {}

Move(r, from, to) == pc[r] = from /\ pc' = [pc EXCEPT ![r] = to]

(* The static fields are not volatile: a read that follows an access of    *)
(* one's own gives the value of the field or the one at hand.              *)
Readable(r, field, hand, first) ==
  IF pc[r] = first /\ id[r] \notin Nodes THEN {field} ELSE {field, hand}
PrivReadable(r) == Readable(r, privKeyPath, privSeen[r], "logPriv")
PubReadable(r) == Readable(r, pubKeyPath, pubSeen[r], "logPub")

(* The answer to a request that got as far as a node's key, or Null.  The  *)
(* signature is looked at only here.                                       *)
Answer(r, key) == \E s \in Signers :
  /\ signer' = [signer EXCEPT ![r] = s]
  /\ verdict' = [verdict EXCEPT ![r] = (s = key)]

(* A node's id.                                                            *)
AcceptKnown(r) == /\ id[r] \in Nodes
                  /\ Move(r, "idle", "setPriv")
                  /\ UNCHANGED <<pubKeyPath, signer, verdict>>

(* Any other id: the default branch sets no path.                          *)
AcceptUnknown(r) == /\ id[r] = Stranger
                    /\ Move(r, "idle", "logPriv")
                    /\ UNCHANGED <<pubKeyPath, signer, verdict>>

(* The switch throws when there is no id; the answer is false.             *)
AcceptNull(r) == /\ id[r] = Null
                 /\ Move(r, "idle", "answered")
                 /\ Answer(r, Null)
                 /\ UNCHANGED pubKeyPath

(* Mutant: the default branch falls back to some node's key.               *)
AcceptOrDefault(r) ==
  /\ \/ AcceptKnown(r)
     \/ AcceptNull(r)
     \/ /\ id[r] = Stranger
        /\ Move(r, "idle", "logPriv")
        /\ pubKeyPath' \in Nodes
        /\ UNCHANGED <<signer, verdict>>
  /\ UNCHANGED <<id, privKeyPath, privSeen, pubSeen>>

(* The switch over the node id.                                            *)
Accept(r) == /\ AcceptKnown(r) \/ AcceptUnknown(r) \/ AcceptNull(r)
             /\ UNCHANGED <<id, privKeyPath, privSeen, pubSeen>>

SetPriv(r) ==
  /\ Move(r, "setPriv", "setPub")
  /\ privKeyPath' = TRUE
  /\ privSeen' = [privSeen EXCEPT ![r] = TRUE]
  /\ UNCHANGED <<id, pubKeyPath, pubSeen, signer, verdict>>

(* Mutant: the public path is set only when there is none.                 *)
SetPubOnce(r) ==
  /\ Move(r, "setPub", "logPriv")
  /\ pubKeyPath' = IF pubKeyPath = Null THEN id[r] ELSE pubKeyPath
  /\ pubSeen' = [pubSeen EXCEPT ![r] = pubKeyPath']
  /\ UNCHANGED <<id, privKeyPath, privSeen, signer, verdict>>

SetPub(r) ==
  /\ Move(r, "setPub", "logPriv")
  /\ pubKeyPath' = id[r]
  /\ pubSeen' = [pubSeen EXCEPT ![r] = id[r]]
  /\ UNCHANGED <<id, privKeyPath, privSeen, signer, verdict>>

(* The two log lines read the fields and nothing more.                     *)
LogPriv(r) ==
  /\ Move(r, "logPriv", "logPub")
  /\ \E p \in PrivReadable(r) :
       privSeen' = [privSeen EXCEPT ![r] = p]
  /\ UNCHANGED <<id, privKeyPath, pubKeyPath, pubSeen, signer, verdict>>

LogPub(r) ==
  /\ Move(r, "logPub", "readPriv")
  /\ \E p \in PubReadable(r) :
       pubSeen' = [pubSeen EXCEPT ![r] = p]
  /\ UNCHANGED <<id, privKeyPath, pubKeyPath, privSeen, signer, verdict>>

(* Mutant: the exception ends the request without an answer.               *)
ReadPrivThrows(r) ==
  /\ \E p \in PrivReadable(r) :
       /\ Move(r, "readPriv", IF p THEN "readPub" ELSE "idle")
       /\ privSeen' = [privSeen EXCEPT ![r] = p]
  /\ UNCHANGED <<id, privKeyPath, pubKeyPath, pubSeen, signer, verdict>>

(* A null path throws; the exception is caught and the answer is false.    *)
ReadPriv(r) ==
  /\ \E p \in PrivReadable(r) :
       /\ privSeen' = [privSeen EXCEPT ![r] = p]
       /\ \/ p /\ Move(r, "readPriv", "readPub") /\ UNCHANGED <<signer, verdict>>
          \/ ~p /\ Move(r, "readPriv", "answered") /\ Answer(r, Null)
  /\ UNCHANGED <<id, privKeyPath, pubKeyPath, pubSeen>>

ReadPub(r) ==
  /\ \E p \in PubReadable(r) :
       /\ pubSeen' = [pubSeen EXCEPT ![r] = p]
       /\ \/ p # Null /\ Move(r, "readPub", "verify") /\ UNCHANGED <<signer, verdict>>
          \/ p = Null /\ Move(r, "readPub", "answered") /\ Answer(r, Null)
  /\ UNCHANGED <<id, privKeyPath, pubKeyPath, privSeen>>

(* A signature that is missing or malformed is answered false; any other   *)
(* is verified under the key that was read.                                *)
Verify(r) ==
  /\ Move(r, "verify", "answered")
  /\ Answer(r, pubSeen[r])
  /\ UNCHANGED <<id, privKeyPath, pubKeyPath, privSeen, pubSeen>>

Step(r) == \/ SetPriv(r) \/ SetPub(r) \/ LogPriv(r) \/ LogPub(r)
           \/ ReadPriv(r) \/ ReadPub(r) \/ Verify(r)

(* The history follows the code: a request is disturbed when the public    *)
(* path becomes another node's before the request has read it.             *)
Observe == disturbed' = disturbed \union
             {r \in Requests : pc[r] \in Relying /\ pubKeyPath' # pubKeyPath}

Next == (\E r \in Requests : Accept(r) \/ Step(r)) /\ Observe

(* Every request thread is scheduled.                                      *)
Fairness == \A r \in Requests : WF_vars(Step(r) /\ Observe)

SafetySpec == Init /\ [][Next]_vars
Spec == SafetySpec /\ Fairness

-----------------------------------------------------------------------------
(* The types of the variables.                                             *)
TypeOK == /\ pc \in [Requests -> Location]
          /\ id \in [Requests -> Ids]
          /\ privKeyPath \in BOOLEAN
          /\ pubKeyPath \in Paths
          /\ privSeen \in [Requests -> BOOLEAN]
          /\ pubSeen \in [Requests -> Paths]
          /\ signer \in [Requests -> Signers]
          /\ verdict \in [Requests -> BOOLEAN]
          /\ disturbed \subseteq Requests

Answered(r) == pc[r] = "answered"

(* The request has set the shared paths, if its id is a node's.            *)
Named(r) == pc[r] \notin {"idle", "setPriv", "setPub"}

(* The answer about a node of the switch says whether that node signed,    *)
(* unless another request replaced the shared path meanwhile.              *)
WrongVerdictNeedsOverlap ==
  \A r \in Requests : (Answered(r) /\ id[r] \in Nodes)
     => (verdict[r] <=> signer[r] = id[r]) \/ r \in disturbed

(* Whatever races over the paths, and also for ids the service does not    *)
(* know, a signature is called good only if its node's key was asked for   *)
(* by some request.                                                        *)
SignerWasNamed ==
  \A r \in Requests : verdict[r] =>
     \E q \in Requests : id[q] = signer[r] /\ Named(q)

(* Every request is answered: an exception counts as a negative answer.    *)
RequestsAnswered == \A r \in Requests : pc[r] # "idle" ~> Answered(r)
=============================================================================
