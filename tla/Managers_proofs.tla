--------------------------- MODULE Managers_proofs ---------------------------
(***************************************************************************)
(* Safety of the managers of the middleware: of the switch between them,   *)
(* for any set of calls and of channels, and of the store of the admin,    *)
(* that each of them is built with, for any number of builders and of      *)
(* managers.                                                               *)
(***************************************************************************)
EXTENDS ManagerSwitch, EnrollStore, TLAPS

Unlocked == {"compare", "build", "label", "labelLocked", "fetch", "done"}

(* The monitor's holder is where the code holds it.                        *)
Monitor == \A c \in Calls :
  lock = c <=> pc[c] \in {"testAgain", "buildLocked", "labelLocked"}

(* A manager once installed is never removed, and a call that is past the  *)
(* null tests has seen one.                                                *)
Present == \A c \in Calls :
  /\ pc[c] \in Unlocked => instance # Nobody /\ seen[c] # Nobody
  /\ pc[c] = "buildLocked" => instance = Nobody
  /\ pc[c] = "done" => got[c] # Nobody

(* Two calls that build together are remembered.                           *)
Watched == \A c, d \in Calls : (c # d /\ Builder(c) /\ Builder(d)) => raced

(* A call that is about to label its manager finds it installed, unless    *)
(* another one was built meanwhile.                                        *)
OwnInstalled == \A c \in Calls :
  pc[c] \in {"label", "labelLocked"} => seen[c] = c /\ (instance = c \/ raced)

(* Without an installation by another call, what a call has seen is still  *)
(* there.                                                                  *)
Undisturbed == \A c \in Calls \ disturbed :
  /\ pc[c] \in {"enter", "testAgain"} => instance = Nobody
  /\ pc[c] \in {"compare", "build", "label", "labelLocked", "fetch"}
       => seen[c] = instance

(* A call at its end has seen a manager of its channel, or a race.         *)
Fetching == \A c \in Calls :
  /\ pc[c] = "fetch" => \/ want[seen[c]] = want[c]
                        \/ c \in disturbed \/ raced
  /\ pc[c] = "done" => \/ want[got[c]] = want[c]
                       \/ c \in disturbed \/ raced

IInv == /\ TypeOK
        /\ Monitor
        /\ Present
        /\ Watched
        /\ OwnInstalled
        /\ Undisturbed
        /\ Fetching
        /\ MislabelNeedsRace

USE NamesAssumption DEF Location, Building, Over, Unlocked

(* The invariant holds at the start.                                       *)
LEMMA InitIInv == Init => IInv
BY DEF Init, IInv, TypeOK, Monitor, Present, Watched, OwnInstalled, Undisturbed,
       Fetching, MislabelNeedsRace, Builder

(* What the history variables record in every step.                        *)
LEMMA History ==
  ASSUME TypeOK, Observe, instance' \in Calls \union {Nobody}
  PROVE  /\ raced' \in BOOLEAN
         /\ disturbed' \subseteq Calls
         /\ raced => raced'
         /\ disturbed \subseteq disturbed'
         /\ instance' = instance => disturbed' = disturbed
         /\ Watched'
         /\ \A c \in Calls : (instance' # instance /\ Active(c) /\ c # instance')
                               => c \in disturbed'
BY DEF TypeOK, Observe, Watched

(* Begin keeps the invariant.                                             *)
LEMMA BeginStep ==
  ASSUME IInv, NEW c \in Calls, Begin(c), Observe
  PROVE  IInv'
<1> USE DEF IInv, Begin, Move, See, Reread
<1>1. instance' = instance
  OBVIOUS
<1>2. /\ raced' \in BOOLEAN /\ disturbed' = disturbed /\ (raced => raced')
      /\ Watched'
  BY <1>1, History DEF TypeOK
<1>3. TypeOK'
  BY <1>2 DEF TypeOK
<1>4. Monitor'
  BY DEF TypeOK, Monitor
<1>5. Present'
  BY DEF TypeOK, Present
<1>6. OwnInstalled'
  BY <1>2 DEF TypeOK, OwnInstalled
<1>7. Undisturbed'
  BY <1>2 DEF TypeOK, Present, OwnInstalled, Undisturbed
<1>8. Fetching'
  BY <1>2 DEF TypeOK, Present, OwnInstalled, Undisturbed, Fetching, MislabelNeedsRace
<1>9. MislabelNeedsRace'
  BY <1>2 DEF TypeOK, OwnInstalled, MislabelNeedsRace
<1>10. QED BY <1>2, <1>3, <1>4, <1>5, <1>6, <1>7, <1>8, <1>9

(* Test keeps the invariant.                                              *)
LEMMA TestStep ==
  ASSUME IInv, NEW c \in Calls, Test(c), Observe
  PROVE  IInv'
<1> USE DEF IInv, Test, Move, See, Reread
<1>1. instance' = instance
  OBVIOUS
<1>2. /\ raced' \in BOOLEAN /\ disturbed' = disturbed /\ (raced => raced')
      /\ Watched'
  BY <1>1, History DEF TypeOK
<1>3. TypeOK'
  BY <1>2 DEF TypeOK
<1>4. Monitor'
  BY DEF TypeOK, Monitor
<1>5. Present'
  BY DEF TypeOK, Present
<1>6. OwnInstalled'
  BY <1>2 DEF TypeOK, OwnInstalled
<1>7. Undisturbed'
  BY <1>2 DEF TypeOK, Present, OwnInstalled, Undisturbed
<1>8. Fetching'
  BY <1>2 DEF TypeOK, Present, OwnInstalled, Undisturbed, Fetching, MislabelNeedsRace
<1>9. MislabelNeedsRace'
  BY <1>2 DEF TypeOK, OwnInstalled, MislabelNeedsRace
<1>10. QED BY <1>2, <1>3, <1>4, <1>5, <1>6, <1>7, <1>8, <1>9

(* Enter keeps the invariant.                                             *)
LEMMA EnterStep ==
  ASSUME IInv, NEW c \in Calls, Enter(c), Observe
  PROVE  IInv'
<1> USE DEF IInv, Enter, Move, See, Reread
<1>1. instance' = instance
  OBVIOUS
<1>2. /\ raced' \in BOOLEAN /\ disturbed' = disturbed /\ (raced => raced')
      /\ Watched'
  BY <1>1, History DEF TypeOK
<1>3. TypeOK'
  BY <1>2 DEF TypeOK
<1>4. Monitor'
  BY DEF TypeOK, Monitor
<1>5. Present'
  BY DEF TypeOK, Present
<1>6. OwnInstalled'
  BY <1>2 DEF TypeOK, OwnInstalled
<1>7. Undisturbed'
  BY <1>2 DEF TypeOK, Present, OwnInstalled, Undisturbed
<1>8. Fetching'
  BY <1>2 DEF TypeOK, Present, OwnInstalled, Undisturbed, Fetching, MislabelNeedsRace
<1>9. MislabelNeedsRace'
  BY <1>2 DEF TypeOK, OwnInstalled, MislabelNeedsRace
<1>10. QED BY <1>2, <1>3, <1>4, <1>5, <1>6, <1>7, <1>8, <1>9

(* A call that finds a manager under the lock was disturbed.               *)
LEMMA TestAgainStep ==
  ASSUME IInv, NEW c \in Calls, TestAgain(c), Observe
  PROVE  IInv'
<1> USE DEF IInv, TestAgain, Move, See, Reread
<1>1. instance' = instance
  OBVIOUS
<1>2. /\ raced' \in BOOLEAN /\ disturbed' = disturbed /\ (raced => raced')
      /\ Watched'
  BY <1>1, History DEF TypeOK
<1>3. TypeOK'
  BY <1>2 DEF TypeOK
<1>4. Monitor'
  BY DEF TypeOK, Monitor
<1>5. Present'
  BY DEF TypeOK, Present
<1>6. OwnInstalled'
  BY <1>2 DEF TypeOK, OwnInstalled
<1>7. Undisturbed'
  BY <1>2 DEF TypeOK, Present, OwnInstalled, Undisturbed
<1>8. Fetching'
  BY <1>2 DEF TypeOK, Present, OwnInstalled, Undisturbed, Fetching, MislabelNeedsRace
<1>9. MislabelNeedsRace'
  BY <1>2 DEF TypeOK, OwnInstalled, MislabelNeedsRace
<1>10. QED BY <1>2, <1>3, <1>4, <1>5, <1>6, <1>7, <1>8, <1>9

(* BuildFails keeps the invariant.                                        *)
LEMMA BuildFailsStep ==
  ASSUME IInv, NEW c \in Calls, BuildFails(c), Observe
  PROVE  IInv'
<1> USE DEF IInv, BuildFails, Move, See, Reread
<1>1. instance' = instance
  OBVIOUS
<1>2. /\ raced' \in BOOLEAN /\ disturbed' = disturbed /\ (raced => raced')
      /\ Watched'
  BY <1>1, History DEF TypeOK
<1>3. TypeOK'
  BY <1>2 DEF TypeOK
<1>4. Monitor'
  BY DEF TypeOK, Monitor
<1>5. Present'
  BY DEF TypeOK, Present
<1>6. OwnInstalled'
  BY <1>2 DEF TypeOK, OwnInstalled
<1>7. Undisturbed'
  BY <1>2 DEF TypeOK, Present, OwnInstalled, Undisturbed
<1>8. Fetching'
  BY <1>2 DEF TypeOK, Present, OwnInstalled, Undisturbed, Fetching, MislabelNeedsRace
<1>9. MislabelNeedsRace'
  BY <1>2 DEF TypeOK, OwnInstalled, MislabelNeedsRace
<1>10. QED BY <1>2, <1>3, <1>4, <1>5, <1>6, <1>7, <1>8, <1>9

(* The label goes to the call's own manager unless two calls raced.        *)
LEMMA SetLabelStep ==
  ASSUME IInv, NEW c \in Calls, SetLabel(c), Observe
  PROVE  IInv'
<1> USE DEF IInv, SetLabel, Move, See, Reread
<1>1. instance' = instance
  OBVIOUS
<1>2. /\ raced' \in BOOLEAN /\ disturbed' = disturbed /\ (raced => raced')
      /\ Watched'
  BY <1>1, History DEF TypeOK
<1>3. TypeOK'
  BY <1>2 DEF TypeOK, Present
<1>4. Monitor'
  BY DEF TypeOK, Monitor
<1>5. Present'
  BY DEF TypeOK, Present
<1>6. OwnInstalled'
  BY <1>2 DEF TypeOK, OwnInstalled
<1>7. Undisturbed'
  BY <1>2 DEF TypeOK, Present, OwnInstalled, Undisturbed
<1>8. Fetching'
  BY <1>2 DEF TypeOK, Present, OwnInstalled, Undisturbed, Fetching, MislabelNeedsRace
<1>9. MislabelNeedsRace'
  BY <1>2 DEF TypeOK, OwnInstalled, MislabelNeedsRace
<1>10. QED BY <1>2, <1>3, <1>4, <1>5, <1>6, <1>7, <1>8, <1>9

(* A label that is right, as every label is without a race, tells the      *)
(* manager's channel.                                                      *)
LEMMA CompareStep ==
  ASSUME IInv, NEW c \in Calls, Compare(c), Observe
  PROVE  IInv'
<1> USE DEF IInv, Compare, Move, See, Reread
<1>1. instance' = instance
  OBVIOUS
<1>2. /\ raced' \in BOOLEAN /\ disturbed' = disturbed /\ (raced => raced')
      /\ Watched'
  BY <1>1, History DEF TypeOK
<1>3. TypeOK'
  BY <1>2 DEF TypeOK
<1>4. Monitor'
  BY DEF TypeOK, Monitor
<1>5. Present'
  BY DEF TypeOK, Present
<1>6. OwnInstalled'
  BY <1>2 DEF TypeOK, OwnInstalled
<1>7. Undisturbed'
  BY <1>2 DEF TypeOK, Present, OwnInstalled, Undisturbed
<1>8. Fetching'
  BY <1>2 DEF TypeOK, Present, OwnInstalled, Undisturbed, Fetching, MislabelNeedsRace
<1>9. MislabelNeedsRace'
  BY <1>2 DEF TypeOK, OwnInstalled, MislabelNeedsRace
<1>10. QED BY <1>2, <1>3, <1>4, <1>5, <1>6, <1>7, <1>8, <1>9

(* The manager returned is the one seen last, or one that disturbed.       *)
LEMMA FetchStep ==
  ASSUME IInv, NEW c \in Calls, Fetch(c), Observe
  PROVE  IInv'
<1> USE DEF IInv, Fetch, Move, See, Reread
<1>1. instance' = instance
  OBVIOUS
<1>2. /\ raced' \in BOOLEAN /\ disturbed' = disturbed /\ (raced => raced')
      /\ Watched'
  BY <1>1, History DEF TypeOK
<1>3. TypeOK'
  BY <1>2 DEF TypeOK
<1>4. Monitor'
  BY DEF TypeOK, Monitor
<1>5. Present'
  BY DEF TypeOK, Present
<1>6. OwnInstalled'
  BY <1>2 DEF TypeOK, OwnInstalled
<1>7. Undisturbed'
  BY <1>2 DEF TypeOK, Present, OwnInstalled, Undisturbed
<1>8. Fetching'
  BY <1>2 DEF TypeOK, Present, OwnInstalled, Undisturbed, Fetching, MislabelNeedsRace
<1>9. MislabelNeedsRace'
  BY <1>2 DEF TypeOK, OwnInstalled, MislabelNeedsRace
<1>10. QED BY <1>2, <1>3, <1>4, <1>5, <1>6, <1>7, <1>8, <1>9

(* A new manager disturbs every other call in progress; whoever is about   *)
(* to label one built together with this call.                             *)
LEMMA InstallStep ==
  ASSUME IInv, NEW c \in Calls, Observe,
         \/ Install(c, "buildLocked", "labelLocked")
         \/ Install(c, "build", "label")
  PROVE  IInv'
<1> USE DEF IInv, Install, Move, See
<1>1. instance' = c /\ c # Nobody
  OBVIOUS
<1>2. /\ raced' \in BOOLEAN /\ disturbed' \subseteq Calls
      /\ raced => raced'
      /\ disturbed \subseteq disturbed'
      /\ Watched'
  BY <1>1, History
<1>3. \A d \in Calls \ {c} : Active(d) => instance = c \/ d \in disturbed'
  BY <1>1, History
<1>4. TypeOK'
  BY <1>2 DEF TypeOK
<1>5. Monitor'
  BY DEF TypeOK, Monitor
<1>6. \A d \in Calls \ {c} : pc[d] # "buildLocked"
  BY DEF TypeOK, Monitor, Present
<1>7. Present'
  BY <1>1, <1>6 DEF TypeOK, Present
<1>8. OwnInstalled'
  BY <1>1, <1>2 DEF TypeOK, OwnInstalled, Watched, Builder
<1>9. Undisturbed'
  BY <1>1, <1>2, <1>3 DEF TypeOK, Present, Undisturbed, Active
<1>10. Fetching'
  BY <1>2 DEF TypeOK, Fetching
<1>11. MislabelNeedsRace'
  BY <1>2 DEF TypeOK, MislabelNeedsRace
<1>12. QED BY <1>2, <1>4, <1>5, <1>7, <1>8, <1>9, <1>10, <1>11

(* Every step keeps the invariant.                                         *)
LEMMA NextIInv == IInv /\ [Next]_vars => IInv'
<1> SUFFICES ASSUME IInv, [Next]_vars
             PROVE  IInv'
  OBVIOUS
<1>1. CASE \E c \in Calls : Begin(c) /\ Observe
  BY <1>1, BeginStep
<1>2. CASE \E c \in Calls : Step(c) /\ Observe
  BY <1>2, TestStep, EnterStep, TestAgainStep, InstallStep, BuildFailsStep,
     SetLabelStep, CompareStep, FetchStep DEF Step
<1>3. CASE UNCHANGED vars
  BY <1>3 DEF vars, IInv, TypeOK, Monitor, Present, Watched, OwnInstalled,
              Undisturbed, Fetching, MislabelNeedsRace, Builder
<1>4. QED BY <1>1, <1>2, <1>3 DEF Next

(* The invariant holds always.                                             *)
LEMMA InvariantHolds == SafetySpec => []IInv
BY InitIInv, NextIInv, PTL DEF SafetySpec

(* The variables keep their types.                                         *)
THEOREM TypeCorrect == SafetySpec => []TypeOK
<1>1. IInv => TypeOK
  BY DEF IInv
<1>2. QED BY <1>1, InvariantHolds, PTL

(* obtain returns null to no call.                                         *)
THEOREM NoNullManager == SafetySpec => []ManagerReturned
<1>1. IInv => ManagerReturned
  BY DEF IInv, Present, ManagerReturned
<1>2. QED BY <1>1, InvariantHolds, PTL

(* Under the lock only the first manager is built, by one call alone.      *)
THEOREM LockProtectsFirst == SafetySpec => []LockedBuildIsFirst
<1>1. IInv => LockedBuildIsFirst
  BY DEF IInv, Monitor, Present, LockedBuildIsFirst
<1>2. QED BY <1>1, InvariantHolds, PTL

(* Wrong labels come only from calls that build together.                  *)
THEOREM LabelsAreRight == SafetySpec => []MislabelNeedsRace
<1>1. IInv => MislabelNeedsRace
  BY DEF IInv
<1>2. QED BY <1>1, InvariantHolds, PTL

(* Managers of another channel come only from calls that overlap.          *)
THEOREM ChannelsAreRight == SafetySpec => []WrongChannelNeedsRace
<1>1. IInv => WrongChannelNeedsRace
  BY DEF IInv, Fetching, WrongChannelNeedsRace
<1>2. QED BY <1>1, InvariantHolds, PTL

-----------------------------------------------------------------------------
(* The store.  What a builder saves last is the complete admin, so the     *)
(* file is complete once the last save is over.                            *)

Saving == {"open", "write"}

(* How complete the admin is that a builder has at hand.                   *)
Progress == \A b \in Builders :
  /\ stage[b] = "keys" \/ (stage[b] \in Saving /\ next[b] = "keys") => user[b].msp
  /\ stage[b] = "last" \/ (stage[b] \in Saving /\ next[b] \in {"last", "done"})
       => user[b] = Admin

(* The file is complete once nobody has anything left to save.             *)
Written ==
  (/\ ~ interrupted /\ builds > 0
   /\ \A b \in Builders : stage[b] \in {"idle", "done"}) => file = Admin

StoreInv == StoreTypeOK /\ Progress /\ Written

USE BuildsAssumption DEF Users, User, NewUser, Admin, Saving

(* The invariant holds at the start.                                       *)
LEMMA StoreInitInv == StoreInit => StoreInv
<1> SUFFICES ASSUME StoreInit
             PROVE  StoreInv
  OBVIOUS
<1> USE DEF StoreInit
<1>1. StoreTypeOK
  <2>1. NewUser \in Users /\ Admin \in Users
    OBVIOUS
  <2>2. user \in [Builders -> Users]
    BY <2>1
  <2>3. file \in Users \union {NoUser}
    BY <2>1
  <2>4. builds \in 0..MaxBuilds
    OBVIOUS
  <2>5. /\ installed \in BOOLEAN
        /\ interrupted \in BOOLEAN
    OBVIOUS
  <2>6. /\ stage \in [Builders -> {"idle", "look", "restore", "msp", "keys",
                               "last", "done", "open", "write"}]
        /\ next \in [Builders -> {"msp", "keys", "last", "done"}]
    OBVIOUS
  <2>7. QED BY <2>2, <2>3, <2>4, <2>5, <2>6 DEF StoreTypeOK
<1>2. Progress /\ Written
  BY DEF Progress, Written
<1>3. QED BY <1>1, <1>2 DEF StoreInv

(* A builder keeps the types.                                              *)
LEMMA BuildTypes ==
  ASSUME StoreTypeOK, NEW b \in Builders, Build(b)
  PROVE  StoreTypeOK'
<1> USE DEF StoreTypeOK, Goto
<1>1. CASE Start(b)
  BY <1>1 DEF Start
<1>2. CASE Look(b)
  <2>1. /\ user' = user
        /\ \/ stage' = [stage EXCEPT ![b] = "restore"] /\ next' = next
           \/ stage' = [stage EXCEPT ![b] = "open"] /\ next' = [next EXCEPT ![b] = "msp"]
    BY <1>2 DEF Look, SaveAs
  <2>2. /\ stage' \in [Builders -> {"idle", "look", "restore", "msp", "keys",
                                "last", "done", "open", "write"}]
        /\ next' \in [Builders -> {"msp", "keys", "last", "done"}]
    BY <2>1
  <2>3. UNCHANGED <<file, installed, builds, interrupted>>
    BY <1>2 DEF Look
  <2>4. QED BY <2>1, <2>2, <2>3
<1>3. CASE Restore(b)
  BY <1>3 DEF Restore
<1>4. CASE SetMspId(b)
  BY <1>4 DEF SetMspId, SaveAs
<1>5. CASE SetEnrollment(b)
  BY <1>5 DEF SetEnrollment, SaveAs
<1>6. CASE NoKeys(b)
  BY <1>6 DEF NoKeys
<1>7. CASE SaveLast(b)
  BY <1>7 DEF SaveLast, SaveAs
<1>8. CASE Open(b)
  BY <1>8 DEF Open
<1>9. CASE CannotSave(b)
  BY <1>9 DEF CannotSave
<1>10. CASE Write(b)
  BY <1>10 DEF Write
<1>11. CASE Finish(b)
  BY <1>11 DEF Finish
<1>12. QED
  BY <1>1, <1>2, <1>3, <1>4, <1>5, <1>6, <1>7, <1>8, <1>9, <1>10, <1>11 DEF Build

(* The admin a builder has at hand becomes complete step by step.          *)
LEMMA BuildProgress ==
  ASSUME StoreTypeOK, Progress, NEW b \in Builders, Build(b)
  PROVE  Progress'
<1> USE DEF StoreTypeOK, Progress, Goto
<1>1. CASE Start(b)
  BY <1>1 DEF Start
<1>2. CASE Look(b)
  <2>1. /\ user' = user
        /\ \/ stage' = [stage EXCEPT ![b] = "restore"] /\ next' = next
           \/ stage' = [stage EXCEPT ![b] = "open"] /\ next' = [next EXCEPT ![b] = "msp"]
    BY <1>2 DEF Look, SaveAs
  <2>2. QED BY <2>1
<1>3. CASE Restore(b)
  BY <1>3 DEF Restore
<1>4. CASE SetMspId(b)
  <2>1. /\ stage' = [stage EXCEPT ![b] = "open"] /\ next' = [next EXCEPT ![b] = "keys"]
        /\ \A c \in Builders \ {b} : user'[c] = user[c]
        /\ user'[b].msp
    BY <1>4 DEF SetMspId, SaveAs
  <2>2. QED BY <2>1
<1>5. CASE SetEnrollment(b)
  <2>1. /\ stage' = [stage EXCEPT ![b] = "open"] /\ next' = [next EXCEPT ![b] = "last"]
        /\ \A c \in Builders \ {b} : user'[c] = user[c]
        /\ user'[b] = Admin
    BY <1>5 DEF SetEnrollment, SaveAs
  <2>2. QED BY <2>1
<1>6. CASE NoKeys(b)
  BY <1>6 DEF NoKeys
<1>7. CASE SaveLast(b)
  BY <1>7 DEF SaveLast, SaveAs
<1>8. CASE Open(b)
  BY <1>8 DEF Open
<1>9. CASE CannotSave(b)
  BY <1>9 DEF CannotSave
<1>10. CASE Write(b)
  BY <1>10 DEF Write
<1>11. CASE Finish(b)
  BY <1>11 DEF Finish
<1>12. QED
  BY <1>1, <1>2, <1>3, <1>4, <1>5, <1>6, <1>7, <1>8, <1>9, <1>10, <1>11 DEF Build

(* Only the last save of a builder lets it come to rest, and it writes the *)
(* complete admin; a builder that rests without it is an interrupted one.  *)
LEMMA BuildWritten ==
  ASSUME StoreTypeOK, Progress, Written, NEW b \in Builders, Build(b)
  PROVE  Written'
<1> USE DEF StoreTypeOK, Goto
<1>1. CASE Finish(b)
  BY <1>1 DEF Finish, Written
<1>2. CASE Write(b)
  BY <1>2 DEF Write, Written, Progress
<1>3. CASE CannotSave(b) \/ NoKeys(b)
  BY <1>3 DEF CannotSave, NoKeys, Written
<1>4. CASE Start(b) \/ Look(b) \/ Restore(b)
  BY <1>4 DEF Start, Look, Restore, SaveAs, Written
<1>5. CASE SetMspId(b) \/ SetEnrollment(b) \/ SaveLast(b) \/ Open(b)
  BY <1>5 DEF SetMspId, SetEnrollment, SaveLast, SaveAs, Open, Written
<1>6. QED
  BY <1>1, <1>2, <1>3, <1>4, <1>5 DEF Build

(* After a crash nobody is at work, and whoever was is interrupted.        *)
LEMMA CrashStep ==
  ASSUME StoreInv, Crash
  PROVE  StoreInv'
BY DEF StoreInv, Crash, StoreTypeOK, Progress, Written, AtWork

(* Every step keeps the invariant.                                         *)
LEMMA StoreNextInv == StoreInv /\ [StoreNext]_storeVars => StoreInv'
<1> SUFFICES ASSUME StoreInv, [StoreNext]_storeVars
             PROVE  StoreInv'
  OBVIOUS
<1>1. CASE Crash
  BY <1>1, CrashStep
<1>2. CASE \E b \in Builders : Build(b)
  BY <1>2, BuildTypes, BuildProgress, BuildWritten DEF StoreInv
<1>3. CASE UNCHANGED storeVars
  BY <1>3 DEF storeVars, StoreInv, StoreTypeOK, Progress, Written
<1>4. QED BY <1>1, <1>2, <1>3 DEF StoreNext

(* The invariant holds always.                                             *)
LEMMA StoreInvHolds == StoreSpec => []StoreInv
BY StoreInitInv, StoreNextInv, PTL DEF StoreSpec

(* The variables of the store and its builders keep their types.           *)
THEOREM StoreTypeCorrect == StoreSpec => []StoreTypeOK
<1>1. StoreInv => StoreTypeOK
  BY DEF StoreInv
<1>2. QED BY <1>1, StoreInvHolds, PTL

(* At rest the store holds the complete admin (FabricStore.java:33-41),    *)
(* unless one of the last builders was interrupted.                        *)
THEOREM StoreIsComplete == StoreSpec => []StoreHoldsAdmin
<1>1. StoreInv => StoreHoldsAdmin
  BY DEF StoreInv, Written, StoreHoldsAdmin, AtWork
<1>2. QED BY <1>1, StoreInvHolds, PTL

===============================================================================
