----------------------------- MODULE Replication -----------------------------
(***************************************************************************)
(* replicateLedger: the middleware splits an imported dataset into units   *)
(* and writes them to the ledger, one transaction per unit, from a pool of *)
(* worker threads, after one transaction that writes the manifest (the     *)
(* number of units).  The chaincodes read the manifest, then that many     *)
(* units.  The uploads of one model write the same keys: the same dataset  *)
(* name, requested again or concurrently.  The Fabric network is external: *)
(* an endorsed transaction may commit at any later time, or never.         *)
(***************************************************************************)
EXTENDS Integers, FiniteSets

CONSTANTS Uploads,    \* calls of replicateLedger
          MaxUnits,   \* bound on the units of one dataset
          PoolSize,   \* threads of the replication pool (8 in the code)
          NoUpload    \* value of a key nobody has written

ASSUME BoundsAssumption == MaxUnits \in Nat /\ PoolSize \in Nat \ {0}
ASSUME NoUploadAssumption == NoUpload \notin Uploads

Manifest == 0                 \* key of the manifest; unit j has key j + 1
Keys == 0..MaxUnits

VARIABLES pc,        \* where each call of replicateLedger stands
          size,      \* number of units the import produced
          attempt,   \* attempt[u][k]: progress of the invocation writing k
          tx,        \* tx[u][k]: what became of its transaction
          world,     \* world[k]: the upload whose value the ledger holds
          reply      \* what the service answered

vars == <<pc, size, attempt, tx, world, reply>>

Settled == {"success", "error", "empty"}
Phase == {"none", "queued", "proposing", "waiting"} \union Settled

Units(u) == 1..size[u]
Slots(u) == 0..size[u]

(* Worker threads belong to the pool, not to the call: only the end of the *)
(* process stops them.                                                     *)
Live(u) == pc[u] # "crashed"

(* Threads of u's pool that are occupied: a worker holds its thread while  *)
(* it waits for the transaction's future.                                  *)
Busy(u) == {k \in Units(u) : attempt[u][k] \in {"proposing", "waiting"}}

Init == /\ pc = [u \in Uploads |-> "idle"]
        /\ size = [u \in Uploads |-> 0]
        /\ attempt = [u \in Uploads |-> [k \in Keys |-> "none"]]
        /\ tx = [u \in Uploads |-> [k \in Keys |-> "none"]]
        /\ world = [k \in Keys |-> NoUpload]
        /\ reply = [u \in Uploads |-> "none"]

Request(u) == /\ pc[u] = "idle"
              /\ pc' = [pc EXCEPT ![u] = "loading"]
              /\ UNCHANGED <<size, attempt, tx, world, reply>>

(* An unknown channel, a manager that cannot be built, an unreadable file. *)
Refuse(u) == /\ pc[u] = "loading"
             /\ pc' = [pc EXCEPT ![u] = "done"]
             /\ reply' = [reply EXCEPT ![u] = "fail"]
             /\ UNCHANGED <<size, attempt, tx, world>>

(* The import yields n units, and the manifest is invoked.                 *)
Import(u, n) == /\ pc[u] = "loading"
                /\ pc' = [pc EXCEPT ![u] = "manifest"]
                /\ size' = [size EXCEPT ![u] = n]
                /\ attempt' = [attempt EXCEPT ![u][Manifest] = "proposing"]
                /\ UNCHANGED <<tx, world, reply>>

Settle(u, k, outcome) == attempt' = [attempt EXCEPT ![u][k] = outcome]

(* Every peer endorsed and the transaction went to the ordering service.   *)
Endorsed(u, k) == /\ Live(u) /\ attempt[u][k] = "proposing"
                  /\ Settle(u, k, "waiting")
                  /\ tx' = [tx EXCEPT ![u][k] = "ordering"]
                  /\ UNCHANGED <<pc, size, world, reply>>

(* Some endorsement failed, or an exception came before the ordering       *)
(* service had the transaction: nothing is sent.                           *)
NotSent(u, k) == /\ Live(u) /\ attempt[u][k] = "proposing"
                 /\ \E outcome \in {"error", "empty"} : Settle(u, k, outcome)
                 /\ UNCHANGED <<pc, size, tx, world, reply>>

(* Mutant: an exceptional end of the future is taken for a commit.         *)
FutureDoneIgnoringFailure(u, k) ==
  /\ Live(u) /\ attempt[u][k] = "waiting"
  /\ tx[u][k] \in {"committed", "rejected"}
  /\ Settle(u, k, "success")
  /\ UNCHANGED <<pc, size, tx, world, reply>>

(* The future ends with the commit event, or exceptionally.                *)
FutureDone(u, k) == /\ Live(u) /\ attempt[u][k] = "waiting"
                    /\ \/ tx[u][k] = "committed" /\ Settle(u, k, "success")
                       \/ tx[u][k] = "rejected" /\ Settle(u, k, "empty")
                    /\ UNCHANGED <<pc, size, tx, world, reply>>

(* Mutants: the worker tries again after a timeout; it has no timeout.     *)
TimeOutRetry(u, k) == /\ Live(u) /\ attempt[u][k] = "waiting"
                      /\ Settle(u, k, "proposing")
                      /\ UNCHANGED <<pc, size, tx, world, reply>>
TimeOutNever(u, k) == FALSE

(* transactionWaitTime is over; the transaction is not recalled.           *)
TimeOut(u, k) == /\ Live(u) /\ attempt[u][k] = "waiting"
                 /\ Settle(u, k, "empty")
                 /\ UNCHANGED <<pc, size, tx, world, reply>>

(* External: a block with the transaction commits; the ordering service    *)
(* drops it or the peers find it invalid.  The writes are blind.           *)
Commit(u, k) == /\ tx[u][k] = "ordering"
                /\ tx' = [tx EXCEPT ![u][k] = "committed"]
                /\ world' = [world EXCEPT ![k] = u]
                /\ UNCHANGED <<pc, size, attempt, reply>>

Reject(u, k) == /\ tx[u][k] = "ordering"
                /\ tx' = [tx EXCEPT ![u][k] = "rejected"]
                /\ UNCHANGED <<pc, size, attempt, world, reply>>

(* Mutant: the manifest is invoked without waiting for it.                 *)
ManifestNotAwaited(u) == attempt[u][Manifest] # "none"

(* invoke of the manifest has returned or thrown, which is swallowed: one  *)
(* worker per unit is queued.                                              *)
ManifestOver(u) == attempt[u][Manifest] \in Settled

StartUnits(u) == /\ pc[u] = "manifest"
                 /\ ManifestOver(u)
                 /\ pc' = [pc EXCEPT ![u] = "units"]
                 /\ attempt' = [attempt EXCEPT ![u] =
                      [k \in Keys |-> IF k \in Units(u) THEN "queued" ELSE @[k]]]
                 /\ UNCHANGED <<size, tx, world, reply>>

(* A free pool thread takes the oldest queued worker.                      *)
ThreadFree(u) == Cardinality(Busy(u)) < PoolSize

RunWorker(u, k) == /\ Live(u) /\ attempt[u][k] = "queued"
                   /\ \A j \in Units(u) : j < k => attempt[u][j] # "queued"
                   /\ ThreadFree(u)
                   /\ Settle(u, k, "proposing")
                   /\ UNCHANGED <<pc, size, tx, world, reply>>

(* Mutant: only the last future is joined.                                 *)
JoinedLastOnly(u) == pc[u] = "units" /\ attempt[u][size[u]] \in Settled

(* Every future is joined.  The result of the last worker is picked (an    *)
(* index error without units), the throughput is divided by the elapsed    *)
(* milliseconds (an error if no worker got as far as the network), and the *)
(* service answers success without looking at the result.                  *)
Joined(u) == pc[u] = "units" /\ \A k \in Units(u) : attempt[u][k] \in Settled

Finish(u) == /\ Joined(u)
             /\ pc' = [pc EXCEPT ![u] = "done"]
             /\ \/ /\ size[u] > 0
                   /\ reply' = [reply EXCEPT ![u] = "success"]
                \/ /\ \A k \in Units(u) : tx[u][k] = "none"
                   /\ reply' = [reply EXCEPT ![u] = "fail"]
             /\ UNCHANGED <<size, attempt, tx, world>>

(* The middleware stops: no call survives, no transaction is recalled.     *)
Crash == /\ \E u \in Uploads : pc[u] \in {"loading", "manifest", "units"}
         /\ pc' = [u \in Uploads |->
              IF pc[u] \in {"loading", "manifest", "units"} THEN "crashed" ELSE pc[u]]
         /\ UNCHANGED <<size, attempt, tx, world, reply>>

Worker(u, k) == \/ Endorsed(u, k) \/ NotSent(u, k) \/ FutureDone(u, k)
                \/ TimeOut(u, k) \/ RunWorker(u, k)

Load(u) == Refuse(u) \/ \E n \in 0..MaxUnits : Import(u, n)

Next == \/ \E u \in Uploads :
             \/ Request(u) \/ Load(u) \/ StartUnits(u) \/ Finish(u)
             \/ \E k \in Keys : Worker(u, k) \/ Commit(u, k) \/ Reject(u, k)
        \/ Crash

(* The threads of a running middleware are scheduled, proposals and        *)
(* futures have timeouts; clients and the ordering service promise nothing.*)
Fairness == \A u \in Uploads :
              /\ WF_vars(Load(u)) /\ WF_vars(StartUnits(u)) /\ WF_vars(Finish(u))
              /\ \A k \in Keys : WF_vars(Worker(u, k))

SafetySpec == Init /\ [][Next]_vars
Spec == SafetySpec /\ Fairness

-----------------------------------------------------------------------------
(* The types of the variables.                                             *)
TypeOK == /\ pc \in [Uploads -> {"idle", "loading", "manifest", "units",
                                 "done", "crashed"}]
          /\ size \in [Uploads -> 0..MaxUnits]
          /\ attempt \in [Uploads -> [Keys -> Phase]]
          /\ tx \in [Uploads -> [Keys -> {"none", "ordering", "committed",
                                          "rejected"}]]
          /\ world \in [Keys -> Uploads \union {NoUpload}]
          /\ reply \in [Uploads -> {"none", "success", "fail"}]

(* A worker that reports success wrote its unit: replicationWorker reports *)
(* it only after the future of its own transaction completed normally.     *)
ReportedIsStored == \A u \in Uploads, k \in Keys :
                      attempt[u][k] = "success" => tx[u][k] = "committed"

(* No unit of a dataset goes to the ordering service while the invocation  *)
(* that writes its manifest is still running.                              *)
ManifestFirst == \A u \in Uploads, k \in Keys \ {Manifest} :
                   tx[u][k] # "none" => attempt[u][Manifest] \in Settled

(* The pool of replicate never has more than PoolSize workers at work.     *)
PoolBound == \A u \in Uploads : Cardinality(Busy(u)) <= PoolSize

(* replicateLedger answers success only when the worker of every unit has  *)
(* come to an end: replicate joins all futures.                            *)
AnswerAfterJoin == \A u \in Uploads : reply[u] = "success" =>
                     \A k \in Slots(u) : attempt[u][k] \in Settled

(* What a chaincode query finds: it reads the manifest and then each unit  *)
(* the manifest announces, all from one committed state.                   *)
Announced == IF world[Manifest] = NoUpload THEN {}
             ELSE Units(world[Manifest])
Missing == {k \in Announced : world[k] = NoUpload}

(* When every upload that was started is over and every one of its         *)
(* invocations reported success, queries find every announced unit: a      *)
(* dangling manifest needs a failure, a crash or an upload in progress.    *)
AllReported == \A u \in Uploads :
                 \/ pc[u] = "idle"
                 \/ /\ pc[u] = "done"
                    /\ reply[u] = "success"
                    /\ \A k \in Slots(u) : attempt[u][k] = "success"
NoDanglingManifest == AllReported => Missing = {}

(* If moreover only one upload wrote, queries see its units and no others. *)
OwnUnitsVisible == \A u \in Uploads :
  /\ AllReported
  /\ pc[u] = "done"
  /\ \A v \in Uploads \ {u} : pc[v] = "idle"
  => /\ Announced = Units(u)
     /\ \A k \in Slots(u) : world[k] = u

(* Once replicateLedger has answered, the call submits nothing more: what  *)
(* it submitted before may still commit.                                   *)
NothingSentAfterAnswer ==
  [][\A u \in Uploads, k \in Keys :
       (reply[u] # "none" /\ tx[u][k] = "none") => tx'[u][k] = "none"]_vars

(* A call that was accepted is answered unless the middleware crashes.     *)
EventuallyAnswered == \A u \in Uploads :
                        pc[u] = "loading" ~> pc[u] \in {"done", "crashed"}

(* README, section 3: replicateLedger uploads the dataset to the ledger.   *)
(* So if the answer is success and carries the result of a unit that was   *)
(* written, the whole dataset is on the ledger.                            *)
SuccessMeansUploaded == \A u \in Uploads :
  (reply[u] = "success" /\ attempt[u][size[u]] = "success")
    => \A k \in Slots(u) : tx[u][k] = "committed"

Contract == INSTANCE UploadContract WITH
              handed   <- {p \in Uploads \X Keys : tx[p[1]][p[2]] # "none"},
              inFlight <- {p \in Uploads \X Keys : tx[p[1]][p[2]] = "ordering"},
              answered <- {u \in Uploads : reply[u] # "none"}
(* The replication code keeps the promises of UploadContract.              *)
KeepsContract == Contract!Spec
=============================================================================
