------------------------------ MODULE Counters -------------------------------
(***************************************************************************)
(* The three counting programs (L3 - concurrency): many threads increment   *)
(* one counter, without a mutex, with one around each increment, or with    *)
(* one around the loop.  An increment is a load and a store.                *)
(***************************************************************************)
EXTENDS Integers, FiniteSets

CONSTANTS
  Threads,
  Times      \* how often each of them increments

VARIABLES
  program,   \* "no_locks", "locks" or "locks_loop"
  counter,
  mutex,     \* the thread that holds it, as a set
  at,        \* where each thread is
  i,         \* its loop variable
  register,  \* the value it has loaded
  count      \* what main has printed; -1 before

countersVars == <<program, counter, mutex, at, i, register, count>>

Programs == {"no_locks", "locks", "locks_loop"}

CountersInit ==
  /\ program \in Programs
  /\ counter = 0 /\ mutex = {} /\ count = -1
  /\ at = [t \in Threads |-> IF program = "no_locks" THEN "load" ELSE "lock"]
  /\ i = [t \in Threads |-> 0] /\ register = [t \in Threads |-> 0]

Go(t, point) == at' = [at EXCEPT ![t] = point]

\* Mutant: the mutex is not asked for.
LockAnyway(t) ==
  /\ at[t] = "lock" /\ mutex' = {t} /\ Go(t, "load")
  /\ UNCHANGED <<program, counter, i, register, count>>

Lock(t) ==
  /\ at[t] = "lock" /\ mutex = {}
  /\ mutex' = {t}
  /\ Go(t, "load")
  /\ UNCHANGED <<program, counter, i, register, count>>

Load(t) ==
  /\ at[t] = "load"
  /\ register' = [register EXCEPT ![t] = counter]
  /\ Go(t, "store")
  /\ UNCHANGED <<program, counter, mutex, i, count>>

\* Where a thread goes after its n-th increment.
Following(n) ==
  IF program # "locks" /\ n < Times THEN "load"
  ELSE IF program = "no_locks" THEN "exit" ELSE "unlock"

Store(t) ==
  /\ at[t] = "store"
  /\ counter' = register[t] + 1
  /\ i' = [i EXCEPT ![t] = @ + 1]
  /\ Go(t, Following(i'[t]))
  /\ UNCHANGED <<program, mutex, register, count>>

Unlock(t) ==
  /\ at[t] = "unlock"
  /\ mutex' = {}
  /\ Go(t, IF i[t] < Times THEN "lock" ELSE "exit")
  /\ UNCHANGED <<program, counter, i, register, count>>

\* main joins all threads and prints the counter.
Join ==
  /\ count = -1 /\ \A t \in Threads : at[t] = "exit"
  /\ count' = counter
  /\ UNCHANGED <<program, counter, mutex, at, i, register>>

thread_routine(t) == Lock(t) \/ Load(t) \/ Store(t) \/ Unlock(t)

CountersNext == Join \/ \E t \in Threads : thread_routine(t)

CountersSpec == CountersInit /\ [][CountersNext]_countersVars

-----------------------------------------------------------------------------
Points == {"lock", "load", "store", "unlock", "exit"}

CountersTypeOK ==
  /\ program \in Programs
  /\ counter \in Nat /\ mutex \subseteq Threads
  /\ at \in [Threads -> Points]
  /\ i \in [Threads -> Nat] /\ register \in [Threads -> Nat]
  /\ count \in Nat \cup {-1}

\* With a mutex, in either place, no increment is lost: each one that a thread
\* makes, which its loop variable counts, takes the counter up by one, also
\* when another thread has just made one, and nothing else changes the counter.
NoIncrementLost ==
  [][program # "no_locks" =>
       counter' = IF i' = i THEN counter ELSE counter + 1]_countersVars

\* With a mutex main prints the exact number.  Without one it prints anything
\* from the least to the exact number: two threads that increment twice can
\* end with two, but never with less.
CountInBounds ==
  count # -1 =>
    /\ count <= Cardinality(Threads) * Times
    /\ program # "no_locks" => count = Cardinality(Threads) * Times
    /\ Cardinality(Threads) > 1 /\ Times > 1 => count >= 2

\* What the numbers need: finitely many threads, each of which increments.
Sized == IsFiniteSet(Threads) /\ Times \in Nat \ {0}

\* A thread that is about to store holds the mutex, and the value it has
\* loaded is still the counter's.
FreshRegister ==
  program # "no_locks" =>
    \A t \in Threads :
      /\ at[t] \in {"load", "store", "unlock"} => mutex = {t}
      /\ at[t] = "store" => register[t] = counter

==============================================================================
