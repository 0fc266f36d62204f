---------------------------- MODULE ManagerSwitch ----------------------------
(***************************************************************************)
(* B2csmManager.obtain: every REST call fetches the one static manager of  *)
(* the process, which is bound to one channel, and replaces it when it     *)
(* carries the label of another channel.  The first manager is installed   *)
(* under double-checked locking, every later one without a lock.  The      *)
(* steps are the reads and writes of the static field and of the label;    *)
(* a manager is named after the call that built it, so a call's want is    *)
(* also the channel its manager is bound to.                               *)
(***************************************************************************)
EXTENDS FiniteSets, Naturals

CONSTANTS Calls,      \* calls of obtain, each on a thread of its own
          Channels,   \* channel names
          Nobody,     \* null: no manager, no lock holder
          NoLabel     \* the initial instanceId

ASSUME NamesAssumption == Nobody \notin Calls /\ NoLabel \notin Channels

VARIABLES pc,         \* where each call stands
          want,       \* want[c]: the channelName it was given
          instance,   \* the static field
          label,      \* label[m]: instanceId of the manager built by m
          lock,       \* holder of the class monitor
          seen,       \* seen[c]: the value of instance c last read or wrote
          got,        \* got[c]: the manager the call returned
          raced,      \* history: two calls were building at the same time
          disturbed   \* history: calls during which another one installed

vars == <<pc, want, instance, label, lock, seen, got, raced, disturbed>>

Building == {"buildLocked", "labelLocked", "build", "label"}
Over == {"done", "failed"}
Location == {"idle", "test", "enter", "testAgain", "compare", "fetch"}
              \union Building \union Over

Init == /\ pc = [c \in Calls |-> "idle"]
        /\ want \in [Calls -> Channels]
        /\ instance = Nobody
        /\ label = [c \in Calls |-> NoLabel]
        /\ lock = Nobody
        /\ seen = [c \in Calls |-> Nobody]
        /\ got = [c \in Calls |-> Nobody]
        /\ raced = FALSE
        /\ disturbed = {}

Move(c, from, to) == pc[c] = from /\ pc' = [pc EXCEPT ![c] = to]

(* A repeated unsynchronised read of the static field: the field is not    *)
(* volatile, so the compiled code may also use the value it has at hand.   *)
Reread(c) == {instance, seen[c]}

See(c, m) == seen' = [seen EXCEPT ![c] = m]

Begin(c) == /\ Move(c, "idle", "test")
            /\ UNCHANGED <<want, instance, label, lock, seen, got>>

(* null == instance, outside the monitor.                                  *)
Test(c) == /\ Move(c, "test", IF instance = Nobody THEN "enter" ELSE "compare")
           /\ See(c, instance)
           /\ UNCHANGED <<want, instance, label, lock, got>>

Enter(c) == /\ Move(c, "enter", "testAgain")
            /\ lock = Nobody
            /\ lock' = c
            /\ UNCHANGED <<want, instance, label, seen, got>>

(* Mutant: the second test is left out.                                    *)
TestAgainLeftOut(c) == /\ Move(c, "testAgain", "buildLocked")
                       /\ See(c, instance)
                       /\ UNCHANGED <<want, instance, label, lock, got>>

(* The second test, inside the monitor.                                    *)
TestAgain(c) == /\ See(c, instance)
                /\ \/ /\ instance = Nobody
                      /\ Move(c, "testAgain", "buildLocked")
                      /\ UNCHANGED lock
                   \/ /\ instance # Nobody
                      /\ Move(c, "testAgain", "fetch")
                      /\ lock' = Nobody
                /\ UNCHANGED <<want, instance, label, got>>

(* The constructor succeeded: the new manager is installed, not labelled.  *)
Install(c, from, to) == /\ Move(c, from, to)
                        /\ instance' = c
                        /\ See(c, c)
                        /\ UNCHANGED <<want, label, lock, got>>

(* Mutant: the monitor is not left when the constructor throws.            *)
BuildFailsLocked(c) == /\ \/ Move(c, "build", "failed")
                          \/ Move(c, "buildLocked", "failed")
                       /\ UNCHANGED <<want, instance, label, lock, seen, got>>

(* The constructor threw: instance stays, the monitor is left.             *)
BuildFails(c) == /\ \/ Move(c, "build", "failed") /\ UNCHANGED lock
                    \/ Move(c, "buildLocked", "failed") /\ lock' = Nobody
                 /\ UNCHANGED <<want, instance, label, seen, got>>

(* instance.instanceId = channelName labels whatever instance is by now.   *)
SetLabel(c) == \E m \in Reread(c) :
  /\ label' = [label EXCEPT ![m] = want[c]]
  /\ See(c, m)
  /\ \/ Move(c, "label", "fetch") /\ UNCHANGED lock
     \/ Move(c, "labelLocked", "fetch") /\ lock' = Nobody
  /\ UNCHANGED <<want, instance, got>>

(* Mutants: any manager will do; the old manager is labelled before the    *)
(* new one is built.                                                       *)
CompareBlindly(c) == \E m \in Reread(c) :
  /\ Move(c, "compare", "fetch")
  /\ See(c, m)
  /\ UNCHANGED <<want, instance, label, lock, got>>
CompareAndLabel(c) == \E m \in Reread(c) :
  /\ Move(c, "compare", IF label[m] = want[c] THEN "fetch" ELSE "build")
  /\ label' = [label EXCEPT ![m] = want[c]]
  /\ See(c, m)
  /\ UNCHANGED <<want, instance, lock, got>>

(* channelName.equals(instance.instanceId), outside the monitor.           *)
Compare(c) == \E m \in Reread(c) :
  /\ Move(c, "compare", IF label[m] = want[c] THEN "fetch" ELSE "build")
  /\ See(c, m)
  /\ UNCHANGED <<want, instance, label, lock, got>>

(* return instance.                                                        *)
Fetch(c) == /\ Move(c, "fetch", "done")
            /\ \E m \in Reread(c) : got' = [got EXCEPT ![c] = m]
            /\ UNCHANGED <<want, instance, label, lock, seen>>

Step(c) == \/ Test(c) \/ Enter(c) \/ TestAgain(c) \/ Compare(c)
           \/ Install(c, "buildLocked", "labelLocked") \/ Install(c, "build", "label")
           \/ BuildFails(c) \/ SetLabel(c) \/ Fetch(c)

Active(c) == pc[c] \notin {"idle"} \union Over
Builder(c) == pc[c] \in Building

(* The history variables follow the code; nothing reads them.              *)
Observe == /\ raced' = (raced \/ \E c, d \in Calls :
                                   c # d /\ Builder(c)' /\ Builder(d)')
           /\ disturbed' = IF instance' = instance THEN disturbed
                           ELSE disturbed \union
                                  {c \in Calls : Active(c) /\ c # instance'}

Next == (\E c \in Calls : Begin(c) \/ Step(c)) /\ Observe

(* Every thread that runs a call is scheduled.                             *)
Fairness == \A c \in Calls : WF_vars(Step(c) /\ Observe)

SafetySpec == Init /\ [][Next]_vars
Spec == SafetySpec /\ Fairness

-----------------------------------------------------------------------------
(* The types of the variables.                                             *)
TypeOK == /\ pc \in [Calls -> Location]
          /\ want \in [Calls -> Channels]
          /\ instance \in Calls \union {Nobody}
          /\ label \in [Calls -> Channels \union {NoLabel}]
          /\ lock \in Calls \union {Nobody}
          /\ seen \in [Calls -> Calls \union {Nobody}]
          /\ got \in [Calls -> Calls \union {Nobody}]
          /\ raced \in BOOLEAN
          /\ disturbed \subseteq Calls

(* A call of obtain that does not throw returns a manager: no path through *)
(* the double-checked locking and the racy rereads returns null.           *)
ManagerReturned == \A c \in Calls : pc[c] = "done" => got[c] # Nobody

(* The locked branch never replaces a manager: whoever builds inside the   *)
(* monitor holds it alone and finds none installed.                        *)
LockedBuildIsFirst == \A c \in Calls :
                        pc[c] = "buildLocked" => lock = c /\ instance = Nobody

(* A manager carries another channel's label only if two calls were at     *)
(* some time building together.                                            *)
MislabelNeedsRace == \A m \in Calls :
                       label[m] \notin {NoLabel, want[m]} => raced

(* A call gets a manager of another channel only if another call installed *)
(* one while it ran, or two calls once built together: such a race leaves  *)
(* a wrong label behind that later, undisturbed calls trust.               *)
WrongChannelNeedsRace == \A c \in Calls :
  (pc[c] = "done" /\ want[got[c]] # want[c]) => (c \in disturbed \/ raced)

(* Every call of obtain comes back: the monitor is left on every path.     *)
CallsReturn == \A c \in Calls : Active(c) ~> pc[c] \in Over
=============================================================================
