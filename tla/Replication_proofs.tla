-------------------------- MODULE Replication_proofs --------------------------
(***************************************************************************)
(* Safety of Replication for any set of uploads, any number of units and   *)
(* any pool size.                                                          *)
(***************************************************************************)
EXTENDS Replication, FiniteSetTheorems, TLAPS

(* Nothing has been attempted for a call that is not past its import, and  *)
(* never anything beyond its units.                                        *)
AttemptScope == \A u \in Uploads, k \in Keys :
  attempt[u][k] # "none" => pc[u] \notin {"idle", "loading"} /\ k \in Slots(u)

(* A transaction exists exactly from the moment its worker waits for it.   *)
TxByAttempt == \A u \in Uploads, k \in Keys :
  /\ attempt[u][k] \in {"none", "queued", "proposing", "error"} => tx[u][k] = "none"
  /\ attempt[u][k] = "success" => tx[u][k] = "committed"

(* Workers exist only after the invocation of the manifest is over.        *)
UnitsAfterManifest == \A u \in Uploads :
  /\ \A k \in Keys \ {Manifest} :
       attempt[u][k] # "none" => /\ attempt[u][Manifest] \in Settled
                                 /\ pc[u] # "manifest"
  /\ pc[u] = "units" => attempt[u][Manifest] \in Settled

(* The answer is given when the call ends, and success after every worker. *)
AnswerAtEnd == \A u \in Uploads :
  /\ reply[u] # "none" => pc[u] = "done"
  /\ pc[u] = "done" => \A k \in Keys : attempt[u][k] \in Settled \union {"none"}
  /\ reply[u] = "success" => \A k \in Slots(u) : attempt[u][k] \in Settled

(* The world state holds what committed transactions wrote.                *)
WorldByCommit == \A k \in Keys :
  /\ world[k] # NoUpload => tx[world[k]][k] = "committed"
  /\ \A u \in Uploads : tx[u][k] = "committed" => world[k] # NoUpload

IInv == /\ TypeOK
        /\ AttemptScope
        /\ TxByAttempt
        /\ UnitsAfterManifest
        /\ AnswerAtEnd
        /\ WorldByCommit

USE BoundsAssumption, NoUploadAssumption DEF Keys, Manifest, Settled, Phase, Slots, Units

(* The invariant holds at the start.                                       *)
LEMMA InitIInv == Init => IInv
BY DEF Init, IInv, TypeOK, AttemptScope, TxByAttempt, UnitsAfterManifest,
       AnswerAtEnd, WorldByCommit

(* A call that was just accepted has attempted nothing.                    *)
LEMMA RequestStep ==
  ASSUME IInv, NEW u \in Uploads, Request(u)
  PROVE  IInv'
<1> USE DEF IInv, Request
<1>1. TypeOK'
  BY DEF TypeOK
<1>2. AttemptScope'
  BY DEF TypeOK, AttemptScope
<1>3. TxByAttempt'
  BY DEF TypeOK, TxByAttempt
<1>4. UnitsAfterManifest'
  BY DEF TypeOK, AttemptScope, UnitsAfterManifest
<1>5. AnswerAtEnd'
  BY DEF TypeOK, AttemptScope, UnitsAfterManifest, AnswerAtEnd
<1>6. WorldByCommit'
  BY DEF TypeOK, WorldByCommit
<1>7. QED BY <1>1, <1>2, <1>3, <1>4, <1>5, <1>6

(* A refused call ends with no attempt of its own.                         *)
LEMMA RefuseStep ==
  ASSUME IInv, NEW u \in Uploads, Refuse(u)
  PROVE  IInv'
<1> USE DEF IInv, Refuse
<1>1. TypeOK'
  BY DEF TypeOK
<1>2. AttemptScope'
  BY DEF TypeOK, AttemptScope
<1>3. TxByAttempt'
  BY DEF TypeOK, TxByAttempt
<1>4. UnitsAfterManifest'
  BY DEF TypeOK, AttemptScope, UnitsAfterManifest
<1>5. AnswerAtEnd'
  BY DEF TypeOK, AttemptScope, UnitsAfterManifest, AnswerAtEnd
<1>6. WorldByCommit'
  BY DEF TypeOK, WorldByCommit
<1>7. QED BY <1>1, <1>2, <1>3, <1>4, <1>5, <1>6

(* The import fixes the size before anything is attempted.                 *)
LEMMA ImportStep ==
  ASSUME IInv, NEW u \in Uploads, NEW n \in 0..MaxUnits, Import(u, n)
  PROVE  IInv'
<1> USE DEF IInv, Import
<1>1. TypeOK'
  BY DEF TypeOK
<1>2. AttemptScope'
  BY DEF TypeOK, AttemptScope
<1>3. TxByAttempt'
  BY DEF TypeOK, TxByAttempt, AttemptScope
<1>4. UnitsAfterManifest'
  BY DEF TypeOK, AttemptScope, UnitsAfterManifest
<1>5. AnswerAtEnd'
  BY DEF TypeOK, AttemptScope, UnitsAfterManifest, AnswerAtEnd
<1>6. WorldByCommit'
  BY DEF TypeOK, WorldByCommit
<1>7. QED BY <1>1, <1>2, <1>3, <1>4, <1>5, <1>6

(* A transaction appears together with its worker's wait.                  *)
LEMMA EndorsedStep ==
  ASSUME IInv, NEW u \in Uploads, NEW k \in Keys, Endorsed(u, k)
  PROVE  IInv'
<1> USE DEF IInv, Endorsed, Settle
<1>1. TypeOK'
  BY DEF TypeOK
<1>2. AttemptScope'
  BY DEF TypeOK, AttemptScope
<1>3. TxByAttempt'
  BY DEF TypeOK, TxByAttempt
<1>4. UnitsAfterManifest'
  BY DEF TypeOK, AttemptScope, UnitsAfterManifest
<1>5. AnswerAtEnd'
  BY DEF TypeOK, AttemptScope, UnitsAfterManifest, AnswerAtEnd
<1>6. WorldByCommit'
  BY DEF TypeOK, WorldByCommit, TxByAttempt
<1>7. QED BY <1>1, <1>2, <1>3, <1>4, <1>5, <1>6

(* A worker that sends nothing leaves no transaction.                      *)
LEMMA NotSentStep ==
  ASSUME IInv, NEW u \in Uploads, NEW k \in Keys, NotSent(u, k)
  PROVE  IInv'
<1> USE DEF IInv, NotSent, Settle
<1>1. TypeOK'
  BY DEF TypeOK
<1>2. AttemptScope'
  BY DEF TypeOK, AttemptScope
<1>3. TxByAttempt'
  BY DEF TypeOK, TxByAttempt
<1>4. UnitsAfterManifest'
  BY DEF TypeOK, AttemptScope, UnitsAfterManifest
<1>5. AnswerAtEnd'
  BY DEF TypeOK, AttemptScope, UnitsAfterManifest, AnswerAtEnd
<1>6. WorldByCommit'
  BY DEF TypeOK, WorldByCommit
<1>7. QED BY <1>1, <1>2, <1>3, <1>4, <1>5, <1>6

(* Success is reported only of a committed transaction.                    *)
LEMMA FutureDoneStep ==
  ASSUME IInv, NEW u \in Uploads, NEW k \in Keys, FutureDone(u, k)
  PROVE  IInv'
<1> USE DEF IInv, FutureDone, Settle
<1>1. TypeOK'
  <2>1. CASE tx[u][k] = "committed" /\ Settle(u, k, "success")
    BY <2>1 DEF TypeOK
  <2>2. CASE tx[u][k] = "rejected" /\ Settle(u, k, "empty")
    BY <2>2 DEF TypeOK
  <2>3. QED BY <2>1, <2>2
<1>2. AttemptScope'
  <2>1. CASE tx[u][k] = "committed" /\ Settle(u, k, "success")
    BY <2>1 DEF TypeOK, AttemptScope
  <2>2. CASE tx[u][k] = "rejected" /\ Settle(u, k, "empty")
    BY <2>2 DEF TypeOK, AttemptScope
  <2>3. QED BY <2>1, <2>2
<1>3. TxByAttempt'
  <2>1. CASE tx[u][k] = "committed" /\ Settle(u, k, "success")
    BY <2>1 DEF TypeOK, TxByAttempt
  <2>2. CASE tx[u][k] = "rejected" /\ Settle(u, k, "empty")
    BY <2>2 DEF TypeOK, TxByAttempt
  <2>3. QED BY <2>1, <2>2
<1>4. UnitsAfterManifest'
  <2>1. CASE tx[u][k] = "committed" /\ Settle(u, k, "success")
    BY <2>1 DEF TypeOK, AttemptScope, UnitsAfterManifest
  <2>2. CASE tx[u][k] = "rejected" /\ Settle(u, k, "empty")
    BY <2>2 DEF TypeOK, AttemptScope, UnitsAfterManifest
  <2>3. QED BY <2>1, <2>2
<1>5. AnswerAtEnd'
  <2>1. CASE tx[u][k] = "committed" /\ Settle(u, k, "success")
    BY <2>1 DEF TypeOK, AttemptScope, UnitsAfterManifest, AnswerAtEnd
  <2>2. CASE tx[u][k] = "rejected" /\ Settle(u, k, "empty")
    BY <2>2 DEF TypeOK, AttemptScope, UnitsAfterManifest, AnswerAtEnd
  <2>3. QED BY <2>1, <2>2
<1>6. WorldByCommit'
  <2>1. CASE tx[u][k] = "committed" /\ Settle(u, k, "success")
    BY <2>1 DEF TypeOK, WorldByCommit
  <2>2. CASE tx[u][k] = "rejected" /\ Settle(u, k, "empty")
    BY <2>2 DEF TypeOK, WorldByCommit
  <2>3. QED BY <2>1, <2>2
<1>7. QED BY <1>1, <1>2, <1>3, <1>4, <1>5, <1>6

(* A timeout settles the attempt and leaves the transaction alone.         *)
LEMMA TimeOutStep ==
  ASSUME IInv, NEW u \in Uploads, NEW k \in Keys, TimeOut(u, k)
  PROVE  IInv'
<1> USE DEF IInv, TimeOut, Settle
<1>1. TypeOK'
  BY DEF TypeOK
<1>2. AttemptScope'
  BY DEF TypeOK, AttemptScope
<1>3. TxByAttempt'
  BY DEF TypeOK, TxByAttempt
<1>4. UnitsAfterManifest'
  BY DEF TypeOK, AttemptScope, UnitsAfterManifest
<1>5. AnswerAtEnd'
  BY DEF TypeOK, AttemptScope, UnitsAfterManifest, AnswerAtEnd
<1>6. WorldByCommit'
  BY DEF TypeOK, WorldByCommit
<1>7. QED BY <1>1, <1>2, <1>3, <1>4, <1>5, <1>6

(* A queued worker starts, after the manifest, without a transaction.      *)
LEMMA RunWorkerStep ==
  ASSUME IInv, NEW u \in Uploads, NEW k \in Keys, RunWorker(u, k)
  PROVE  IInv'
<1> USE DEF IInv, RunWorker, Settle
<1>1. TypeOK'
  BY DEF TypeOK
<1>2. AttemptScope'
  BY DEF TypeOK, AttemptScope
<1>3. TxByAttempt'
  BY DEF TypeOK, TxByAttempt
<1>4. UnitsAfterManifest'
  BY DEF TypeOK, AttemptScope, UnitsAfterManifest
<1>5. AnswerAtEnd'
  BY DEF TypeOK, AttemptScope, UnitsAfterManifest, AnswerAtEnd
<1>6. WorldByCommit'
  BY DEF TypeOK, WorldByCommit
<1>7. QED BY <1>1, <1>2, <1>3, <1>4, <1>5, <1>6

(* A commit is the only step that changes the world state.                 *)
LEMMA CommitStep ==
  ASSUME IInv, NEW u \in Uploads, NEW k \in Keys, Commit(u, k)
  PROVE  IInv'
<1> USE DEF IInv, Commit
<1>1. TypeOK'
  BY DEF TypeOK
<1>2. AttemptScope'
  BY DEF TypeOK, AttemptScope
<1>3. TxByAttempt'
  BY DEF TypeOK, TxByAttempt
<1>4. UnitsAfterManifest'
  BY DEF TypeOK, AttemptScope, UnitsAfterManifest
<1>5. AnswerAtEnd'
  BY DEF TypeOK, AttemptScope, UnitsAfterManifest, AnswerAtEnd
<1>6. WorldByCommit'
  BY DEF TypeOK, WorldByCommit
<1>7. QED BY <1>1, <1>2, <1>3, <1>4, <1>5, <1>6

(* A rejected transaction was still open.                                  *)
LEMMA RejectStep ==
  ASSUME IInv, NEW u \in Uploads, NEW k \in Keys, Reject(u, k)
  PROVE  IInv'
<1> USE DEF IInv, Reject
<1>1. TypeOK'
  BY DEF TypeOK
<1>2. AttemptScope'
  BY DEF TypeOK, AttemptScope
<1>3. TxByAttempt'
  BY DEF TypeOK, TxByAttempt
<1>4. UnitsAfterManifest'
  BY DEF TypeOK, AttemptScope, UnitsAfterManifest
<1>5. AnswerAtEnd'
  BY DEF TypeOK, AttemptScope, UnitsAfterManifest, AnswerAtEnd
<1>6. WorldByCommit'
  BY DEF TypeOK, WorldByCommit
<1>7. QED BY <1>1, <1>2, <1>3, <1>4, <1>5, <1>6

(* Units are queued when the manifest's invocation is over.                *)
LEMMA StartUnitsStep ==
  ASSUME IInv, NEW u \in Uploads, StartUnits(u)
  PROVE  IInv'
<1> USE DEF IInv, StartUnits, ManifestOver
<1>1. TypeOK'
  BY DEF TypeOK
<1>2. AttemptScope'
  BY DEF TypeOK, AttemptScope
<1>3. TxByAttempt'
  BY DEF TypeOK, TxByAttempt, UnitsAfterManifest
<1>4. UnitsAfterManifest'
  BY DEF TypeOK, AttemptScope, UnitsAfterManifest
<1>5. AnswerAtEnd'
  BY DEF TypeOK, AttemptScope, UnitsAfterManifest, AnswerAtEnd
<1>6. WorldByCommit'
  BY DEF TypeOK, WorldByCommit
<1>7. QED BY <1>1, <1>2, <1>3, <1>4, <1>5, <1>6

(* A call is answered when all its attempts are settled.                   *)
LEMMA FinishStep ==
  ASSUME IInv, NEW u \in Uploads, Finish(u)
  PROVE  IInv'
<1> USE DEF IInv, Finish, Joined
<1>1. TypeOK'
  <2>1. CASE reply' = [reply EXCEPT ![u] = "success"]
    BY <2>1 DEF TypeOK
  <2>2. CASE reply' = [reply EXCEPT ![u] = "fail"]
    BY <2>2 DEF TypeOK
  <2>3. QED BY <2>1, <2>2
<1>2. AttemptScope'
  <2>1. CASE reply' = [reply EXCEPT ![u] = "success"]
    BY <2>1 DEF TypeOK, AttemptScope
  <2>2. CASE reply' = [reply EXCEPT ![u] = "fail"]
    BY <2>2 DEF TypeOK, AttemptScope
  <2>3. QED BY <2>1, <2>2
<1>3. TxByAttempt'
  <2>1. CASE reply' = [reply EXCEPT ![u] = "success"]
    BY <2>1 DEF TypeOK, TxByAttempt
  <2>2. CASE reply' = [reply EXCEPT ![u] = "fail"]
    BY <2>2 DEF TypeOK, TxByAttempt
  <2>3. QED BY <2>1, <2>2
<1>4. UnitsAfterManifest'
  <2>1. CASE reply' = [reply EXCEPT ![u] = "success"]
    BY <2>1 DEF TypeOK, AttemptScope, UnitsAfterManifest
  <2>2. CASE reply' = [reply EXCEPT ![u] = "fail"]
    BY <2>2 DEF TypeOK, AttemptScope, UnitsAfterManifest
  <2>3. QED BY <2>1, <2>2
<1>5. AnswerAtEnd'
  <2>1. CASE reply' = [reply EXCEPT ![u] = "success"]
    BY <2>1 DEF TypeOK, AttemptScope, UnitsAfterManifest, AnswerAtEnd
  <2>2. CASE reply' = [reply EXCEPT ![u] = "fail"]
    BY <2>2 DEF TypeOK, AttemptScope, UnitsAfterManifest, AnswerAtEnd
  <2>3. QED BY <2>1, <2>2
<1>6. WorldByCommit'
  <2>1. CASE reply' = [reply EXCEPT ![u] = "success"]
    BY <2>1 DEF TypeOK, WorldByCommit
  <2>2. CASE reply' = [reply EXCEPT ![u] = "fail"]
    BY <2>2 DEF TypeOK, WorldByCommit
  <2>3. QED BY <2>1, <2>2
<1>7. QED BY <1>1, <1>2, <1>3, <1>4, <1>5, <1>6

(* A crash ends calls; attempts and transactions stay as they are.         *)
LEMMA CrashStep ==
  ASSUME IInv, Crash
  PROVE  IInv'
<1> USE DEF IInv, Crash
<1>1. TypeOK'
  BY DEF TypeOK
<1>2. AttemptScope'
  BY DEF TypeOK, AttemptScope
<1>3. TxByAttempt'
  BY DEF TypeOK, TxByAttempt
<1>4. UnitsAfterManifest'
  BY DEF TypeOK, AttemptScope, UnitsAfterManifest
<1>5. AnswerAtEnd'
  BY DEF TypeOK, AttemptScope, UnitsAfterManifest, AnswerAtEnd
<1>6. WorldByCommit'
  BY DEF TypeOK, WorldByCommit
<1>7. QED BY <1>1, <1>2, <1>3, <1>4, <1>5, <1>6

(* A stuttering step keeps the invariant.                                  *)
LEMMA StutterStep == IInv /\ UNCHANGED vars => IInv'
BY DEF IInv, vars, TypeOK, AttemptScope, TxByAttempt, UnitsAfterManifest,
       AnswerAtEnd, WorldByCommit

(* Every step keeps the invariant.                                         *)
LEMMA NextIInv == IInv /\ [Next]_vars => IInv'
<1> SUFFICES ASSUME IInv, [Next]_vars PROVE IInv'
  OBVIOUS
<1>1. ASSUME NEW u \in Uploads, Request(u) PROVE IInv'
  BY <1>1, RequestStep
<1>2. ASSUME NEW u \in Uploads, Load(u) PROVE IInv'
  BY <1>2, RefuseStep, ImportStep DEF Load
<1>3. ASSUME NEW u \in Uploads, StartUnits(u) PROVE IInv'
  BY <1>3, StartUnitsStep
<1>4. ASSUME NEW u \in Uploads, Finish(u) PROVE IInv'
  BY <1>4, FinishStep
<1>5. ASSUME NEW u \in Uploads, NEW k \in Keys, Worker(u, k) PROVE IInv'
  BY <1>5, EndorsedStep, NotSentStep, FutureDoneStep, TimeOutStep, RunWorkerStep
     DEF Worker
<1>6. ASSUME NEW u \in Uploads, NEW k \in Keys, Commit(u, k) \/ Reject(u, k)
      PROVE  IInv'
  BY <1>6, CommitStep, RejectStep
<1>7. QED
  BY <1>1, <1>2, <1>3, <1>4, <1>5, <1>6, CrashStep, StutterStep DEF Next

(* The invariant holds always.                                             *)
LEMMA InvariantHolds == SafetySpec => []IInv
BY InitIInv, NextIInv, PTL DEF SafetySpec

(* Every variable keeps its type.                                          *)
THEOREM TypeCorrect == SafetySpec => []TypeOK
<1>1. IInv => TypeOK
  BY DEF IInv
<1>2. QED BY <1>1, InvariantHolds, PTL

(* A worker that reports success wrote its unit.                           *)
THEOREM ReportsAreTrue == SafetySpec => []ReportedIsStored
<1>1. IInv => ReportedIsStored
  BY DEF IInv, TxByAttempt, ReportedIsStored
<1>2. QED BY <1>1, InvariantHolds, PTL

(* Units go out only when the invocation of the manifest is over.          *)
THEOREM ManifestGoesFirst == SafetySpec => []ManifestFirst
<1>1. IInv => ManifestFirst
  BY DEF IInv, TypeOK, TxByAttempt, UnitsAfterManifest, ManifestFirst
<1>2. QED BY <1>1, InvariantHolds, PTL

(* A success answer waits for every worker.                                *)
THEOREM AnswerWaits == SafetySpec => []AnswerAfterJoin
<1>1. IInv => AnswerAfterJoin
  BY DEF IInv, AnswerAtEnd, AnswerAfterJoin
<1>2. QED BY <1>1, InvariantHolds, PTL

(* Queries miss no announced unit once all uploads are over and all their  *)
(* invocations reported success.                                           *)
THEOREM DatasetsAreWhole == SafetySpec => []NoDanglingManifest
<1>1. IInv => NoDanglingManifest
  <2> SUFFICES ASSUME IInv, AllReported, world[Manifest] # NoUpload,
                      NEW k \in Units(world[Manifest])
               PROVE  world[k] # NoUpload
    BY DEF NoDanglingManifest, Missing, Announced
  <2> DEFINE v == world[Manifest]
  <2>1. v \in Uploads /\ k \in Slots(v) /\ k \in Keys
    BY DEF IInv, TypeOK
  <2>2. tx[v][Manifest] = "committed"
    BY <2>1 DEF IInv, WorldByCommit
  <2>3. pc[v] # "idle"
    BY <2>1, <2>2 DEF IInv, TypeOK, AttemptScope, TxByAttempt
  <2>4. attempt[v][k] = "success"
    BY <2>1, <2>3 DEF AllReported
  <2>5. QED
    BY <2>1, <2>4 DEF IInv, TxByAttempt, WorldByCommit
<1>2. QED BY <1>1, InvariantHolds, PTL

(* If a single upload wrote, and all its invocations reported success,     *)
(* queries see its units.                                                  *)
THEOREM OwnUnits == SafetySpec => []OwnUnitsVisible
<1>1. IInv => OwnUnitsVisible
  <2> SUFFICES ASSUME IInv, AllReported, NEW u \in Uploads, pc[u] = "done",
                      \A v \in Uploads \ {u} : pc[v] = "idle"
               PROVE  /\ Announced = Units(u)
                      /\ \A k \in Slots(u) : world[k] = u
    BY DEF OwnUnitsVisible
  <2>1. ASSUME NEW k \in Slots(u) PROVE world[k] = u
    <3>1. k \in Keys /\ tx[u][k] = "committed"
      <4>1. k \in Keys
        BY <2>1 DEF IInv, TypeOK
      <4>2. attempt[u][k] = "success"
        BY <2>1 DEF AllReported
      <4>3. QED BY <4>1, <4>2 DEF IInv, TxByAttempt
    <3>2. world[k] \in Uploads /\ tx[world[k]][k] = "committed"
      BY <3>1 DEF IInv, TypeOK, WorldByCommit
    <3>3. pc[world[k]] # "idle"
      BY <3>1, <3>2 DEF IInv, TypeOK, AttemptScope, TxByAttempt
    <3>4. QED BY <3>2, <3>3
  <2>2. Manifest \in Slots(u)
    BY DEF IInv, TypeOK
  <2>3. QED BY <2>1, <2>2 DEF Announced
<1>2. QED BY <1>1, InvariantHolds, PTL

-----------------------------------------------------------------------------
(* The pool.  Busy is finite, and only RunWorker lets it grow.             *)
LEMMA BusyFinite ==
  ASSUME TypeOK, NEW u \in Uploads
  PROVE  IsFiniteSet(Busy(u)) /\ Cardinality(Busy(u)) \in Nat
<1>1. IsFiniteSet(1..size[u])
  BY FS_Interval DEF TypeOK
<1>2. Busy(u) \subseteq 1..size[u]
  BY DEF Busy
<1>3. QED BY <1>1, <1>2, FS_Subset, FS_CardinalityType

(* Fewer busy workers are counted as fewer.                                *)
LEMMA BusyShrinks ==
  ASSUME TypeOK, TypeOK', NEW u \in Uploads, PoolBound, Busy(u)' \subseteq Busy(u)
  PROVE  Cardinality(Busy(u)') <= PoolSize
<1>1. IsFiniteSet(Busy(u)) /\ Cardinality(Busy(u)) \in Nat
  BY BusyFinite
<1>2. Cardinality(Busy(u)') \in Nat /\ Cardinality(Busy(u)') <= Cardinality(Busy(u))
  BY <1>1, FS_Subset, FS_CardinalityType
<1>3. QED BY <1>1, <1>2 DEF PoolBound

(* Only RunWorker occupies a thread, and only if one is free.              *)
LEMMA PoolStep == IInv /\ IInv' /\ PoolBound /\ [Next]_vars => PoolBound'
<1> SUFFICES ASSUME IInv, IInv', PoolBound, [Next]_vars, NEW v \in Uploads
             PROVE  Cardinality(Busy(v)') <= PoolSize
  BY DEF PoolBound
<1> USE DEF IInv
<1>1. ASSUME NEW u \in Uploads, NEW k \in Keys, RunWorker(u, k), v = u
      PROVE  Cardinality(Busy(v)') <= PoolSize
  <2>1. Busy(v)' \subseteq Busy(v) \union {k}
    BY <1>1 DEF RunWorker, Settle, Busy, TypeOK
  <2>2. IsFiniteSet(Busy(v)) /\ Cardinality(Busy(v)) \in Nat
    BY BusyFinite
  <2>3. k \notin Busy(v)
    BY <1>1 DEF RunWorker, Busy
  <2>4. /\ IsFiniteSet(Busy(v) \union {k})
        /\ Cardinality(Busy(v) \union {k}) = Cardinality(Busy(v)) + 1
    BY <2>2, <2>3, FS_AddElement
  <2>5. /\ Cardinality(Busy(v)') \in Nat
        /\ Cardinality(Busy(v)') <= Cardinality(Busy(v) \union {k})
    BY <2>1, <2>4, FS_Subset, FS_CardinalityType
  <2>6. Cardinality(Busy(v)) < PoolSize
    BY <1>1 DEF RunWorker, ThreadFree
  <2>7. QED BY <2>2, <2>4, <2>5, <2>6
<1>2. ASSUME NEW u \in Uploads, NEW k \in Keys, RunWorker(u, k), v # u
      PROVE  Busy(v)' \subseteq Busy(v)
  BY <1>2 DEF RunWorker, Settle, Busy, TypeOK
<1>3. ASSUME NEW u \in Uploads, NEW n \in 0..MaxUnits, Import(u, n)
      PROVE  Busy(v)' \subseteq Busy(v)
  BY <1>3 DEF Import, Busy, TypeOK, AttemptScope
<1>4. ASSUME NEW u \in Uploads, StartUnits(u) PROVE Busy(v)' \subseteq Busy(v)
  BY <1>4 DEF StartUnits, Busy, TypeOK
<1>5. ASSUME NEW u \in Uploads, NEW k \in Keys, Endorsed(u, k)
      PROVE  Busy(v)' \subseteq Busy(v)
  BY <1>5 DEF Endorsed, Settle, Busy, TypeOK
<1>6. ASSUME NEW u \in Uploads, NEW k \in Keys, NEW outcome \in Settled,
             Settle(u, k, outcome), UNCHANGED size
      PROVE  Busy(v)' \subseteq Busy(v)
  BY <1>6 DEF Settle, Busy, TypeOK
<1>7. ASSUME UNCHANGED <<size, attempt>> PROVE Busy(v)' \subseteq Busy(v)
  BY <1>7 DEF Busy
<1>8. CASE \E u \in Uploads, k \in Keys : Worker(u, k)
  <2> PICK u \in Uploads, k \in Keys : Worker(u, k)
    BY <1>8
  <2>1. CASE Endorsed(u, k)
    BY <2>1, <1>5, BusyShrinks
  <2>2. CASE NotSent(u, k) \/ FutureDone(u, k) \/ TimeOut(u, k)
    <3>1. UNCHANGED size /\ \E outcome \in Settled : Settle(u, k, outcome)
      BY <2>2 DEF NotSent, FutureDone, TimeOut
    <3>2. QED BY <3>1, <1>6, BusyShrinks
  <2>3. CASE RunWorker(u, k)
    BY <2>3, <1>1, <1>2, BusyShrinks
  <2>4. QED BY <2>1, <2>2, <2>3 DEF Worker
<1>9. CASE \E u \in Uploads : Load(u)
  BY <1>9, <1>3, <1>7, BusyShrinks DEF Load, Refuse
<1>10. CASE \E u \in Uploads : StartUnits(u)
  BY <1>10, <1>4, BusyShrinks
<1>11. CASE \/ \E u \in Uploads : Request(u) \/ Finish(u)
            \/ \E u \in Uploads, k \in Keys : Commit(u, k) \/ Reject(u, k)
            \/ Crash
            \/ UNCHANGED vars
  <2>1. UNCHANGED <<size, attempt>>
    BY <1>11 DEF Request, Finish, Commit, Reject, Crash, vars
  <2>2. QED BY <2>1, <1>7, BusyShrinks
<1>12. QED BY <1>8, <1>9, <1>10, <1>11 DEF Next

(* The pool never runs more than PoolSize workers, whatever its size.      *)
THEOREM PoolIsBounded == SafetySpec => []PoolBound
<1>1. Init => PoolBound
  <2> SUFFICES ASSUME Init, NEW u \in Uploads
               PROVE  Cardinality(Busy(u)) <= PoolSize
    BY DEF PoolBound
  <2>1. Busy(u) = {}
    BY DEF Init, Busy
  <2>2. QED BY <2>1, FS_EmptySet
<1>2. QED BY <1>1, InvariantHolds, PoolStep, PTL DEF SafetySpec

-----------------------------------------------------------------------------
(* After the answer nothing is handed to the ordering service.             *)
THEOREM NothingSentLate == SafetySpec => NothingSentAfterAnswer
<1>1. ASSUME IInv, [Next]_vars, NEW u \in Uploads, NEW k \in Keys,
             reply[u] # "none", tx[u][k] = "none"
      PROVE  tx'[u][k] = "none"
  <2>1. attempt[u][k] # "proposing" /\ tx[u][k] # "ordering"
    BY <1>1 DEF IInv, TypeOK, AnswerAtEnd
  <2>2. ASSUME NEW w \in Uploads, NEW j \in Keys, Endorsed(w, j)
        PROVE  tx'[u][k] = "none"
    BY <1>1, <2>1, <2>2 DEF Endorsed, IInv, TypeOK
  <2>3. ASSUME NEW w \in Uploads, NEW j \in Keys, Commit(w, j) \/ Reject(w, j)
        PROVE  tx'[u][k] = "none"
    <3>1. <<w, j>> # <<u, k>>
      BY <1>1, <2>3 DEF Commit, Reject
    <3>2. PICK s : tx' = [tx EXCEPT ![w][j] = s]
      BY <2>3 DEF Commit, Reject
    <3>3. QED BY <1>1, <3>1, <3>2 DEF IInv, TypeOK
  <2>4. CASE UNCHANGED tx
    BY <1>1, <2>4
  <2>5. QED
    BY <1>1, <2>2, <2>3, <2>4
       DEF Next, vars, Load, Worker, Request, Refuse, Import, StartUnits, Finish,
           NotSent, FutureDone, TimeOut, RunWorker, Crash
<1>2. IInv /\ [Next]_vars =>
        [\A u \in Uploads, k \in Keys :
           (reply[u] # "none" /\ tx[u][k] = "none") => tx'[u][k] = "none"]_vars
  BY <1>1
<1>3. QED BY <1>2, InvariantHolds, PTL DEF SafetySpec, NothingSentAfterAnswer

-----------------------------------------------------------------------------
(* Replication implements UploadContract.                                  *)
HandedNow == {p \in Uploads \X Keys : tx[p[1]][p[2]] # "none"}
InFlightNow == {p \in Uploads \X Keys : tx[p[1]][p[2]] = "ordering"}
AnsweredNow == {u \in Uploads : reply[u] # "none"}

(* Every step is a step of UploadContract or changes nothing it sees.      *)
LEMMA ContractStep == IInv /\ [Next]_vars => [Contract!Next]_(Contract!vars)
<1> SUFFICES ASSUME IInv, [Next]_vars PROVE [Contract!Next]_(Contract!vars)
  OBVIOUS
<1> USE DEF IInv, TypeOK, Contract!Next, Contract!vars
<1>1. ASSUME NEW u \in Uploads, NEW k \in Keys, Endorsed(u, k)
      PROVE  Contract!Hand(u, k)
  <2>1. tx[u][k] = "none" /\ reply[u] = "none"
    BY <1>1 DEF Endorsed, TxByAttempt, AnswerAtEnd
  <2>2. HandedNow' = HandedNow \union {<<u, k>>}
    BY <1>1, <2>1 DEF Endorsed, HandedNow
  <2>3. InFlightNow' = InFlightNow \union {<<u, k>>}
    BY <1>1, <2>1 DEF Endorsed, InFlightNow
  <2>4. QED
    BY <1>1, <2>1, <2>2, <2>3
       DEF Endorsed, Contract!Hand, HandedNow, InFlightNow
<1>2. ASSUME NEW u \in Uploads, NEW k \in Keys, Commit(u, k)
      PROVE  Contract!TakeEffect(u, k)
  <2>1. HandedNow' = HandedNow
    BY <1>2 DEF Commit, HandedNow
  <2>2. InFlightNow' = InFlightNow \ {<<u, k>>}
    BY <1>2 DEF Commit, InFlightNow
  <2>3. QED
    BY <1>2, <2>1, <2>2
       DEF Commit, Contract!TakeEffect, HandedNow, InFlightNow
<1>3. ASSUME NEW u \in Uploads, NEW k \in Keys, Reject(u, k)
      PROVE  Contract!Vanish(u, k)
  <2>1. HandedNow' = HandedNow
    BY <1>3 DEF Reject, HandedNow
  <2>2. InFlightNow' = InFlightNow \ {<<u, k>>}
    BY <1>3 DEF Reject, InFlightNow
  <2>3. QED
    BY <1>3, <2>1, <2>2
       DEF Reject, Contract!Vanish, HandedNow, InFlightNow
<1>4. ASSUME NEW u \in Uploads, pc[u] # "done",
             reply' = [reply EXCEPT ![u] = "success"]
               \/ reply' = [reply EXCEPT ![u] = "fail"],
             UNCHANGED <<tx, world>>
      PROVE  Contract!Answer(u)
  <2>1. reply[u] = "none"
    BY <1>4 DEF AnswerAtEnd
  <2>2. AnsweredNow' = AnsweredNow \union {u}
    BY <1>4 DEF AnsweredNow
  <2>3. QED BY <1>4, <2>1, <2>2 DEF Contract!Answer, AnsweredNow
<1>5. CASE UNCHANGED <<tx, world, reply>>
  BY <1>5
<1>6. CASE \E u \in Uploads : Refuse(u) \/ Finish(u)
  <2> PICK u \in Uploads : Refuse(u) \/ Finish(u)
    BY <1>6
  <2>1. /\ pc[u] # "done"
        /\ \/ reply' = [reply EXCEPT ![u] = "success"]
           \/ reply' = [reply EXCEPT ![u] = "fail"]
        /\ UNCHANGED <<tx, world>>
    BY DEF Refuse, Finish, Joined
  <2>2. QED BY <2>1, <1>4
<1>7. QED
  BY <1>1, <1>2, <1>3, <1>5, <1>6
     DEF Next, Load, Worker, vars, Request, Import, StartUnits, NotSent,
         FutureDone, TimeOut, RunWorker, Crash

(* The threads, timeouts and failures of the middleware keep the promises  *)
(* of UploadContract to the ledger and its readers.                        *)
THEOREM Refinement == SafetySpec => KeepsContract
<1>1. Init => Contract!Init
  BY DEF Init, Contract!Init
<1>2. QED
  BY <1>1, ContractStep, InvariantHolds, PTL
     DEF SafetySpec, KeepsContract, Contract!Spec

===============================================================================
