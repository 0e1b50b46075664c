----------------------------- MODULE Rendezvous ------------------------------
(***************************************************************************)
(* What a thread barrier promises: threads gather until there are Threshold *)
(* of them; then all of these, and no other, are released.  A thread that   *)
(* has left may arrive again, before the others have left.                  *)
(***************************************************************************)
EXTENDS FiniteSets, Naturals

CONSTANTS
  Threads,     \* the threads that use the barrier
  Threshold    \* how many threads to wait for

VARIABLES
  gathered,    \* the threads that have arrived and are not released
  released     \* the threads that are released and have not left

Init == gathered = {} /\ released = {}

Outside(t) == t \notin gathered \cup released

Arrive(t) ==
  /\ Outside(t)
  /\ Cardinality(gathered) + 1 # Threshold
  /\ gathered' = gathered \cup {t}
  /\ UNCHANGED released

Break(t) ==
  /\ Outside(t)
  /\ Cardinality(gathered) + 1 = Threshold
  /\ gathered' = {}
  /\ released' = released \cup gathered \cup {t}

Leave(t) ==
  /\ t \in released
  /\ released' = released \ {t}
  /\ UNCHANGED gathered

Next == \E t \in Threads : Arrive(t) \/ Break(t) \/ Leave(t)

Spec == Init /\ [][Next]_<<gathered, released>>

==============================================================================
