--------------------------- MODULE UploadContract ---------------------------
(***************************************************************************)
(* What the ledger and its clients may rely on while datasets are          *)
(* replicated, whatever the threads, timeouts and failures of the          *)
(* middleware: every upload hands each of its writes to the ordering       *)
(* service at most once, never after its request has been answered; a      *)
(* write that was handed over takes effect at most once, at any later      *)
(* time or never; and nothing else changes the world state.                *)
(***************************************************************************)
EXTENDS Naturals

CONSTANTS Uploads,    \* requests to replicate a dataset under one name
          Keys,       \* the keys such a request may write
          NoUpload    \* value of a key nobody has written

VARIABLES handed,     \* writes ever given to the ordering service
          inFlight,   \* writes given to it and not yet settled
          world,      \* world[k]: the upload whose write to k took effect last
          answered    \* uploads whose request has been answered

vars == <<handed, inFlight, world, answered>>

Init == /\ handed = {}
        /\ inFlight = {}
        /\ world = [k \in Keys |-> NoUpload]
        /\ answered = {}

Hand(u, k) == /\ u \notin answered
              /\ <<u, k>> \notin handed
              /\ handed' = handed \union {<<u, k>>}
              /\ inFlight' = inFlight \union {<<u, k>>}
              /\ UNCHANGED <<world, answered>>

TakeEffect(u, k) == /\ <<u, k>> \in inFlight
                    /\ inFlight' = inFlight \ {<<u, k>>}
                    /\ world' = [world EXCEPT ![k] = u]
                    /\ UNCHANGED <<handed, answered>>

Vanish(u, k) == /\ <<u, k>> \in inFlight
                /\ inFlight' = inFlight \ {<<u, k>>}
                /\ UNCHANGED <<handed, world, answered>>

Answer(u) == /\ u \notin answered
             /\ answered' = answered \union {u}
             /\ UNCHANGED <<handed, inFlight, world>>

Next == \E u \in Uploads :
          \/ \E k \in Keys : Hand(u, k) \/ TakeEffect(u, k) \/ Vanish(u, k)
          \/ Answer(u)

Spec == Init /\ [][Next]_vars
=============================================================================
