------------------------------ MODULE RoundRobin ------------------------------
(***************************************************************************)
(* What the scheduler promises: tasks enrol in a ring, become ready, and   *)
(* the CPU passes from the current task to the first ready one after it.   *)
(***************************************************************************)
EXTENDS Naturals, Sequences

CONSTANTS Task, NoTask

VARIABLES ring,    \* the tasks in the order of their enrolment
          ready,   \* the tasks that may be given the CPU
          cur      \* the task that has the CPU

vars == <<ring, ready, cur>>

Enrolled == {ring[k] : k \in DOMAIN ring}

Init == ring = <<>> /\ ready = {} /\ cur = NoTask

Enrol(t) ==
  /\ t \notin Enrolled
  /\ ring' = Append(ring, t)
  /\ UNCHANGED <<ready, cur>>

(* A task becomes ready once and stays so: tasks neither end nor block.    *)
MakeReady(t) ==
  /\ t \notin ready
  /\ ready' = ready \cup {t}
  /\ UNCHANGED <<ring, cur>>

Start(t) ==
  /\ cur = NoTask
  /\ t \in ready \cap Enrolled
  /\ cur' = t
  /\ UNCHANGED <<ring, ready>>

(* The place of the k-th successor of the task at place c of the ring.     *)
Successor(c, k) == ((c + k - 1) % Len(ring)) + 1

Dispatch ==
  /\ \E c \in DOMAIN ring, k \in 1..(Len(ring) - 1) :
       /\ ring[c] = cur
       /\ ring[Successor(c, k)] \in ready
       /\ \A j \in 1..(k - 1) : ring[Successor(c, j)] \notin ready
       /\ cur' = ring[Successor(c, k)]
  /\ UNCHANGED <<ring, ready>>

Next ==
  \/ \E t \in Task : Enrol(t) \/ MakeReady(t) \/ Start(t)
  \/ Dispatch

Spec == Init /\ [][Next]_vars
=============================================================================
