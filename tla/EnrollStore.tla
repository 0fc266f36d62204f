----------------------------- MODULE EnrollStore -----------------------------
(***************************************************************************)
(* The file in which the middleware keeps its one user, the peer admin.    *)
(* Every manager that is built (see ManagerSwitch) opens a store of its    *)
(* own on the same file, creates the admin and saves it with each field it *)
(* sets.  Saving truncates the file and then writes it at once; builders   *)
(* overlap, and the process may die at any step.  What a longer text       *)
(* leaves in the file behind a shorter one is no user.                     *)
(***************************************************************************)
EXTENDS Naturals

CONSTANTS Builders,   \* threads that build a manager
          NoUser,     \* no user in the file
          MaxBuilds   \* bound on the managers built

ASSUME BuildsAssumption == MaxBuilds \in Nat

VARIABLES file,         \* the stored admin
          installed,    \* a manager is there, so builders take no lock
          stage,        \* where a builder stands
          next,         \* where it goes on after saving
          user,         \* its admin
          builds,       \* managers whose building began
          interrupted   \* history: a builder of now died, failed or could not save

storeVars == <<file, installed, stage, next, user, builds, interrupted>>

User(msp, enrolled) == [msp |-> msp, enrolled |-> enrolled]
NewUser == User(FALSE, FALSE)
Admin == User(TRUE, TRUE)

Users == [msp : BOOLEAN, enrolled : BOOLEAN]

StoreTypeOK ==
  /\ file \in Users \union {NoUser}
  /\ installed \in BOOLEAN
  /\ stage \in [Builders -> {"idle", "look", "restore", "msp", "keys", "last", "done", "open", "write"}]
  /\ next \in [Builders -> {"msp", "keys", "last", "done"}]
  /\ user \in [Builders -> Users]
  /\ builds \in 0..MaxBuilds
  /\ interrupted \in BOOLEAN

StoreInit == /\ file \in {NoUser, Admin}
             /\ installed = FALSE
             /\ stage = [b \in Builders |-> "idle"]
             /\ next = [b \in Builders |-> "msp"]
             /\ user = [b \in Builders |-> NewUser]
             /\ builds = 0
             /\ interrupted = FALSE

AtWork == {b \in Builders : stage[b] # "idle"}

Goto(b, place) == stage' = [stage EXCEPT ![b] = place]

(* saveState: on to the file, and afterwards to a place.                 *)
SaveAs(b, u, place) == /\ user' = [user EXCEPT ![b] = u]
                       /\ next' = [next EXCEPT ![b] = place]
                       /\ Goto(b, "open")

(* The first manager is built under a lock.                                *)
Start(b) == /\ stage[b] = "idle"
            /\ builds < MaxBuilds
            /\ installed \/ AtWork = {}
            /\ builds' = builds + 1
            /\ user' = [user EXCEPT ![b] = NewUser]
            /\ Goto(b, "look")
            /\ interrupted' = (interrupted /\ AtWork # {})
            /\ UNCHANGED <<file, installed, next>>

(* The constructor: a user that is stored is overwritten by the new one.   *)
Look(b) == /\ stage[b] = "look"
           /\ IF file # NoUser THEN SaveAs(b, user[b], "msp")
              ELSE Goto(b, "restore") /\ UNCHANGED <<user, next>>
           /\ UNCHANGED <<file, installed, builds, interrupted>>

(* A user that is not stored is restored, from a second look at the file.  *)
Restore(b) == /\ stage[b] = "restore"
              /\ user' = IF file # NoUser THEN [user EXCEPT ![b] = file] ELSE user
              /\ Goto(b, "msp")
              /\ UNCHANGED <<file, installed, next, builds, interrupted>>

SetMspId(b) == /\ stage[b] = "msp"
               /\ SaveAs(b, [user[b] EXCEPT !.msp = TRUE], "keys")
               /\ UNCHANGED <<file, installed, builds, interrupted>>

(* Mutant: the enrolment is set but not saved.                             *)
SetEnrollmentUnsaved(b) == /\ stage[b] = "keys"
                           /\ user' = [user EXCEPT ![b].enrolled = TRUE]
                           /\ Goto(b, "done")
                           /\ UNCHANGED <<file, installed, next, builds, interrupted>>

(* Key and certificate are files of their own.                             *)
SetEnrollment(b) == /\ stage[b] = "keys"
                    /\ SaveAs(b, [user[b] EXCEPT !.enrolled = TRUE], "last")
                    /\ UNCHANGED <<file, installed, builds, interrupted>>

NoKeys(b) == /\ stage[b] = "keys"
             /\ Goto(b, "idle")
             /\ interrupted' = TRUE
             /\ UNCHANGED <<file, installed, next, user, builds>>

SaveLast(b) == /\ stage[b] = "last"
               /\ SaveAs(b, user[b], "done")
               /\ UNCHANGED <<file, installed, builds, interrupted>>

(* setValue: the stream that is opened on the file empties it.             *)
Open(b) == /\ stage[b] = "open"
           /\ file' = NoUser
           /\ Goto(b, "write")
           /\ UNCHANGED <<installed, next, user, builds, interrupted>>

(* An error is printed, and forgotten.                                     *)
CannotSave(b) == /\ stage[b] \in {"open", "write"}
                 /\ Goto(b, next[b])
                 /\ interrupted' = TRUE
                 /\ UNCHANGED <<file, installed, next, user, builds>>

Write(b) == /\ stage[b] = "write"
            /\ file' = user[b]
            /\ Goto(b, next[b])
            /\ UNCHANGED <<installed, next, user, builds, interrupted>>

Finish(b) == /\ stage[b] = "done"
             /\ installed' = TRUE
             /\ Goto(b, "idle")
             /\ UNCHANGED <<file, next, user, builds, interrupted>>

(* The process dies and is started again: only the file is left.           *)
Crash == /\ stage' = [b \in Builders |-> "idle"]
         /\ installed' = FALSE
         /\ interrupted' = (interrupted \/ AtWork # {})
         /\ UNCHANGED <<file, next, user, builds>>

Build(b) == \/ Start(b) \/ Look(b) \/ Restore(b) \/ SetMspId(b)
            \/ SetEnrollment(b) \/ NoKeys(b) \/ SaveLast(b)
            \/ Open(b) \/ CannotSave(b) \/ Write(b) \/ Finish(b)

StoreNext == Crash \/ \E b \in Builders : Build(b)

StoreSpec == StoreInit /\ [][StoreNext]_storeVars

-----------------------------------------------------------------------------
(* Although every builder empties the file up to four times, and overwrites*)
(* what is stored by a user without enrolment, the file holds the complete *)
(* admin whenever nobody builds, unless one of the last builders died,     *)
(* failed or could not save (FabricStore.java:33-41, 85-101).              *)
StoreHoldsAdmin ==
  builds > 0 /\ AtWork = {} /\ ~ interrupted => file = Admin
===============================================================================
