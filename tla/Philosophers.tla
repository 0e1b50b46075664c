---------------------------- MODULE Philosophers -----------------------------
(***************************************************************************)
(* The dining philosophers (L4 - barriers, dining phils/src/philosophers.c):*)
(* PhilPhunction, run by one thread per philosopher, and main, which        *)
(* creates the threads, stops them after a while and joins them.            *)
(*                                                                         *)
(* A philosopher locks one fork, tries the other, and on failure unlocks    *)
(* the first and goes on with the two forks swapped.  After two failures    *)
(* it does not try the second fork but blocks on it.                        *)
(***************************************************************************)
EXTENDS Integers

CONSTANT N   \* the number of philosophers, and of forks: 5 in the code

ASSUME NAssumption == N \in Nat \ {0, 1}

Phils == 0 .. N - 1

Nobody == -1

\* The fields fork_left and fork_right main gives philosopher i.
Left(i) == (i + 1) % N
Right(i) == i

\* How often a philosopher tries before it blocks.
Tries == 2

VARIABLES
  running,     \* the flag main clears
  created,     \* main: how many philosophers it has created, or tried to
  joined,      \* main: how many philosophers it has joined, or skipped
  pc,          \* where each philosopher is
  fork_left,   \* PhilPhunction: the fork it locks first ...
  fork_right,  \* ... and the one it locks second
  tries_left,  \* PhilPhunction: how often it will still try the second fork
  owner        \* who holds each fork

mainVars == <<running, created, joined>>
vars == <<mainVars, pc, fork_left, fork_right, tries_left, owner>>

\* "none": not created yet; "failed": pthread_create failed; "loop": at
\* while (running); "first", "second": about to lock a fork; "fail": the
\* second is taken; "eat": holds both; "put": has put down the right one; "exit": in pthread_exit.
Points == {"none", "failed", "loop", "first", "second", "fail",
           "eat", "put", "exit"}

Go(i, point) == pc' = [pc EXCEPT ![i] = point]

Take(i, f) == owner' = [owner EXCEPT ![f] = i]

Drop(f) == owner' = [owner EXCEPT ![f] = Nobody]

Init ==
  /\ running = TRUE /\ created = 0 /\ joined = 0
  /\ pc = [i \in Phils |-> "none"]
  /\ fork_left = [i \in Phils |-> Left(i)]
  /\ fork_right = [i \in Phils |-> Right(i)]
  /\ tries_left = [i \in Phils |-> Tries]
  /\ owner = [f \in Phils |-> Nobody]

-----------------------------------------------------------------------------
(***************************************************************************)
(* PhilPhunction.                                                           *)
(***************************************************************************)
\* A philosopher thinks and becomes hungry.
Think(i) ==
  /\ pc[i] = "loop" /\ running
  /\ fork_left' = [fork_left EXCEPT ![i] = Left(i)]
  /\ fork_right' = [fork_right EXCEPT ![i] = Right(i)]
  /\ tries_left' = [tries_left EXCEPT ![i] = Tries]
  /\ Go(i, "first")
  /\ UNCHANGED <<mainVars, owner>>

Exit(i) ==
  /\ pc[i] = "loop" /\ ~running
  /\ Go(i, "exit")
  /\ UNCHANGED <<mainVars, fork_left, fork_right, tries_left, owner>>

LockFirst(i) ==
  /\ pc[i] = "first" /\ owner[fork_left[i]] = Nobody
  /\ Take(i, fork_left[i])
  /\ Go(i, "second")
  /\ UNCHANGED <<mainVars, fork_left, fork_right, tries_left>>

\* Mutant: what pthread_mutex_trylock returns is not looked at.
LockSecondUnchecked(i) ==
  /\ pc[i] = "second" /\ (tries_left[i] > 0 \/ owner[fork_right[i]] = Nobody)
  /\ Take(i, fork_right[i])
  /\ Go(i, "eat")
  /\ UNCHANGED <<mainVars, fork_left, fork_right, tries_left>>

\* pthread_mutex_trylock succeeds, or pthread_mutex_lock returns.
LockSecond(i) ==
  /\ pc[i] = "second" /\ owner[fork_right[i]] = Nobody
  /\ Take(i, fork_right[i])
  /\ Go(i, "eat")
  /\ UNCHANGED <<mainVars, fork_left, fork_right, tries_left>>

\* pthread_mutex_trylock fails.
TryFails(i) ==
  /\ pc[i] = "second" /\ tries_left[i] > 0 /\ owner[fork_right[i]] # Nobody
  /\ Go(i, "fail")
  /\ UNCHANGED <<mainVars, fork_left, fork_right, tries_left, owner>>

Swap(i) ==
  /\ fork_left' = [fork_left EXCEPT ![i] = fork_right[i]]
  /\ fork_right' = [fork_right EXCEPT ![i] = fork_left[i]]

\* Mutant: --tries_left is missing.
RetryForever(i) ==
  /\ pc[i] = "fail"
  /\ Drop(fork_left[i])
  /\ Swap(i)
  /\ Go(i, IF running THEN "first" ELSE "loop")
  /\ UNCHANGED <<mainVars, tries_left>>

\* Mutant: the first fork is not put down.
RetryHolding(i) ==
  /\ pc[i] = "fail"
  /\ Swap(i)
  /\ tries_left' = [tries_left EXCEPT ![i] = @ - 1]
  /\ Go(i, IF running THEN "first" ELSE "loop")
  /\ UNCHANGED <<mainVars, owner>>

\* Mutant: the forks are swapped without fork_tmp.
RetryWithoutTmp(i) ==
  /\ pc[i] = "fail"
  /\ Drop(fork_left[i])
  /\ fork_left' = [fork_left EXCEPT ![i] = fork_right[i]]
  /\ tries_left' = [tries_left EXCEPT ![i] = @ - 1]
  /\ Go(i, IF running THEN "first" ELSE "loop")
  /\ UNCHANGED <<mainVars, fork_right>>

\* Put down the first fork, swap the two, and try again.
Retry(i) ==
  /\ pc[i] = "fail"
  /\ Drop(fork_left[i])
  /\ Swap(i)
  /\ tries_left' = [tries_left EXCEPT ![i] = @ - 1]
  /\ Go(i, IF running THEN "first" ELSE "loop")
  /\ UNCHANGED mainVars

PutRight(i) ==
  /\ pc[i] = "eat"
  /\ Drop(fork_right[i])
  /\ Go(i, "put")
  /\ UNCHANGED <<mainVars, fork_left, fork_right, tries_left>>

PutLeft(i) ==
  /\ pc[i] = "put"
  /\ Drop(fork_left[i])
  /\ Go(i, "loop")
  /\ UNCHANGED <<mainVars, fork_left, fork_right, tries_left>>

-----------------------------------------------------------------------------
(***************************************************************************)
(* main.                                                                    *)
(***************************************************************************)
Create ==
  /\ created < N
  /\ pc' \in {[pc EXCEPT ![created] = "loop"], [pc EXCEPT ![created] = "failed"]}
  /\ created' = created + 1
  /\ UNCHANGED <<running, joined, fork_left, fork_right, tries_left, owner>>

\* sleep(40) is over.
StopAll ==
  /\ created = N /\ running
  /\ running' = FALSE
  /\ UNCHANGED <<created, joined, pc, fork_left, fork_right, tries_left, owner>>

\* pthread_join of the next thread that was created.
Join ==
  /\ ~running /\ joined < N
  /\ pc[joined] \in {"exit", "failed"}
  /\ joined' = joined + 1
  /\ UNCHANGED <<running, created, pc, fork_left, fork_right, tries_left, owner>>

-----------------------------------------------------------------------------
Philosopher(i) ==
  \/ Think(i) \/ Exit(i)
  \/ LockFirst(i) \/ LockSecond(i) \/ TryFails(i) \/ Retry(i)
  \/ PutRight(i) \/ PutLeft(i)

Main == Create \/ StopAll \/ Join

Next == Main \/ \E i \in Phils : Philosopher(i)

\* All threads are scheduled; main may leave the philosophers running.  A mutex
\* is not granted in any order, so a fork that is taken again and again may
\* never be had.
Fairness == WF_vars(Create \/ Join) /\ \A i \in Phils : WF_vars(Philosopher(i))

Spec == Init /\ [][Next]_vars

FairSpec == Spec /\ Fairness

-----------------------------------------------------------------------------
TypeOK ==
  /\ running \in BOOLEAN /\ created \in 0 .. N /\ joined \in 0 .. N
  /\ pc \in [Phils -> Points]
  /\ fork_left \in [Phils -> Phils]
  /\ fork_right \in [Phils -> Phils]
  /\ tries_left \in [Phils -> 0 .. Tries]
  /\ owner \in [Phils -> Phils \cup {Nobody}]

\* The forks philosopher i holds by its program counter.
Held(i) ==
  CASE pc[i] \in {"second", "fail", "put"} -> {fork_left[i]}
    [] pc[i] = "eat"               -> {fork_left[i], fork_right[i]}
    [] OTHER                       -> {}

\* However often they were swapped, a philosopher's two forks are the two
\* forks beside it.
OwnForks ==
  \A i \in Phils : {fork_left[i], fork_right[i]} = {Left(i), Right(i)}

\* The pointers are swapped back when no try is left: a philosopher that blocks
\* on its second fork has the one on its left.
SwappedPerTry ==
  \A i \in Phils : fork_left[i] = IF tries_left[i] = 1 THEN Right(i) ELSE Left(i)

\* A mutex is held by a philosopher just where PhilPhunction has it between
\* lock and unlock: no unlock of a fork someone else holds, no fork kept.
ForksAccounted ==
  \A i, f \in Phils : owner[f] = i <=> f \in Held(i)

Ended(i) == pc[i] \in {"exit", "failed"}

\* main creates and joins its threads in order.
InOrder ==
  \A i \in Phils : (i >= created => pc[i] = "none") /\ (i < joined => Ended(i))

\* Only a try can fail, so the counter does not fall below 0.
FailedTry == \A i \in Phils : pc[i] = "fail" => tries_left[i] > 0

\* The inductive invariant: types, program counters, forks and their owners.
IInv == TypeOK /\ InOrder /\ FailedTry /\ OwnForks /\ SwappedPerTry /\ ForksAccounted

\* Neighbours never eat at the same time.
Exclusion ==
  \A i \in Phils : pc[i] = "eat" /\ Left(i) # i => pc[Left(i)] # "eat"

Blocked(i) ==
  \/ pc[i] = "first" /\ owner[fork_left[i]] # Nobody
  \/ pc[i] = "second" /\ tries_left[i] = 0 /\ owner[fork_right[i]] # Nobody

\* Every philosopher has failed twice, holds the fork on its left and blocks
\* on the other.
Circle ==
  \A i \in Phils :
    pc[i] = "second" /\ tries_left[i] = 0 /\ fork_left[i] = Left(i)

\* The philosophers come to a standstill in no other way than that.
StuckOnlyInCircle ==
  (\A i \in Phils : Blocked(i) \/ Ended(i)) /\ (\E i \in Phils : Blocked(i)) =>
    Circle

\* main returns, and its forks with it, only when nobody holds a fork.
ForksFreeAtEnd ==
  joined = N => \A f \in Phils : owner[f] = Nobody

\* While philosophers are hungry somebody comes to eat: they do not put
\* forks down and take them up for ever.
SomebodyEats ==
  (\E i \in Phils : pc[i] = "first") ~>
    (\E i \in Phils : pc[i] = "eat") \/ ~running \/ Circle

\* Once running is cleared main joins all philosophers, unless they are stuck.
StopsOrStuck == ~running ~> joined = N \/ Circle

==============================================================================
