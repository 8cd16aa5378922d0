----------------------------- MODULE BarrierSpec -----------------------------
(***************************************************************************)
(* What a reusable barrier promises: threads gather until Count of them    *)
(* are there, or until the timeout; then the gathered threads, and only    *)
(* they, leave; the next round gathers when the last of them has left.     *)
(* A thread is outside, gathered or leaving; what it does on its way in    *)
(* and out, and the mutex, queue and timer that do it, do not show here.   *)
(***************************************************************************)
EXTENDS Naturals, FiniteSets

CONSTANTS
  Threads,      \* the threads of the program
  Count,        \* how many of them make a round
  TimeoutSet    \* whether a round may end by timeout

VARIABLES
  gathered,     \* threads waiting for the round to be complete
  leaving       \* threads released that have not left yet

vars == <<gathered, leaving>>

TypeOK ==
  /\ gathered \subseteq Threads
  /\ leaving \subseteq Threads

Init == gathered = {} /\ leaving = {}

Gather(t) ==
  /\ leaving = {}
  /\ t \notin gathered
  /\ Cardinality(gathered) < Count
  /\ gathered' = gathered \cup {t}
  /\ UNCHANGED leaving

\* The thread that completes the round releases the others and leaves.
Release(t) ==
  /\ t \in gathered
  /\ Cardinality(gathered) = Count
  /\ leaving' = gathered \ {t}
  /\ gathered' = {}

Expire ==
  /\ TimeoutSet
  /\ leaving = {}
  /\ leaving' = gathered
  /\ gathered' = {}

Leave(t) ==
  /\ t \in leaving
  /\ leaving' = leaving \ {t}
  /\ UNCHANGED gathered

\* What the code also allows: a thread that tested the gate before it opened
\* is counted into the round that drains, and leaves with it.
JoinDrain(t) ==
  /\ gathered = {}
  /\ t \notin leaving
  /\ Cardinality(leaving) < Count
  /\ leaving' = leaving \cup {t}
  /\ UNCHANGED gathered

StrictNext ==
  \/ \E t \in Threads : Gather(t) \/ Release(t) \/ Leave(t)
  \/ Expire

Next == StrictNext \/ \E t \in Threads : JoinDrain(t)

StrictSpec == Init /\ [][StrictNext]_vars
Spec       == Init /\ [][Next]_vars
=============================================================================
