------------------------------ MODULE Animation ------------------------------
(***************************************************************************)
(* How a result page of the explorer highlights hosts and links one after  *)
(* another.  Everything is ordered by setTimeout alone: a callback         *)
(* highlights one link and one host, or registers the callbacks of a whole *)
(* series.  Time is counted in half seconds.                               *)
(***************************************************************************)
EXTENDS Integers, SequencesExt

CONSTANTS MaxLate,   \* half seconds by which the browser may be late
          Nothing    \* no link, no host

ASSUME LateAssumption == MaxLate \in Nat

VARIABLES hosts,     \* hosts of the page's graph
          links,     \* links of the page's graph
          loaded,    \* the graph has its elements
          timers,    \* timeouts not yet run, in the order of their registration
          picture,   \* what was highlighted, in order
          missed     \* history: highlights that found no graph yet

canvas == <<hosts, links, loaded>>
animation == <<timers, picture, missed>>

(* A highlighting: a link, the host at its end, and the round it is for.   *)
Mark(link, host, round) == [link |-> link, host |-> host, round |-> round]

(* A timeout: what it highlights, or the series it starts.                 *)
After(wait, mark) == [wait |-> wait, marks |-> <<mark>>, series |-> FALSE]
Series(wait, marks) == [wait |-> wait, marks |-> marks, series |-> TRUE]

(* The callbacks of a series come at intervals of one second.              *)
Spread(marks) == [i \in DOMAIN marks |-> After(2 * i, marks[i])]

(* Mutant: the browser runs any timeout that is due.                       *)
FirstDueAny(i) == i \in DOMAIN timers /\ timers[i].wait <= 0

(* Timeouts run in the order they are due, then of their registration.     *)
FirstDue(i) ==
  /\ i \in DOMAIN timers
  /\ timers[i].wait <= 0
  /\ \A j \in DOMAIN timers : \/ timers[i].wait < timers[j].wait
                              \/ timers[i].wait = timers[j].wait /\ i <= j

StartSeries ==
  \E i \in DOMAIN timers :
    /\ FirstDue(i) /\ timers[i].series
    /\ timers' = RemoveAt(timers, i) \o Spread(timers[i].marks)
    /\ UNCHANGED <<canvas, picture, missed>>

(* A selector that matches no element of the graph highlights nothing.     *)
Visible(mark) == [mark EXCEPT !.link = IF @ \in links THEN @ ELSE Nothing,
                              !.host = IF @ \in hosts THEN @ ELSE Nothing]

Highlight ==
  \E i \in DOMAIN timers :
    /\ FirstDue(i) /\ ~ timers[i].series
    /\ timers' = RemoveAt(timers, i)
    /\ IF loaded THEN /\ picture' = Append(picture, Visible(timers[i].marks[1]))
                      /\ UNCHANGED missed
                 ELSE /\ missed' = missed + 1
                      /\ UNCHANGED picture
    /\ UNCHANGED canvas

(* Half a second passes; no timeout waits longer than MaxLate past its due.*)
Tick == /\ timers # <<>>
        /\ \A i \in DOMAIN timers : timers[i].wait > - MaxLate
        /\ timers' = [i \in DOMAIN timers |-> [timers[i] EXCEPT !.wait = @ - 1]]
        /\ UNCHANGED <<canvas, picture, missed>>

(* The request for the graph of a nids page is answered, maybe never.      *)
Load == /\ ~ loaded
        /\ loaded' = TRUE
        /\ UNCHANGED <<hosts, links, animation>>

Animate == StartSeries \/ Highlight \/ Tick
===============================================================================
