------------------------------- MODULE Barrier -------------------------------
(***************************************************************************)
(* The thread barrier (L4 - barriers, dining phils/src/barrier.c): threads  *)
(* that call barrier_wait, and the main thread of barrier_example.c, which  *)
(* destroys the barrier.                                                    *)
(***************************************************************************)
EXTENDS FiniteSets, Integers

CONSTANTS
  Threads,     \* the threads that call barrier_wait
  Main,        \* the thread that calls barrier_destroy
  Nobody,      \* the mutex is not locked
  Threshold,   \* the count given to barrier_init
  MaxCalls,    \* bound: how often each thread calls barrier_wait
  Spurious,    \* pthread_cond_wait may return without a broadcast
  JoinFirst    \* main joins all threads before it calls barrier_destroy

ASSUME ThreadsAssumption ==
  /\ IsFiniteSet(Threads)
  /\ Main \notin Threads /\ Nobody \notin Threads \cup {Main}
ASSUME ThresholdAssumption == Threshold \in Nat \ {0}
ASSUME MaxCallsAssumption == MaxCalls \in Nat
ASSUME ChoicesAssumption == Spurious \in BOOLEAN /\ JoinFirst \in BOOLEAN

VARIABLES
  lock,        \* who holds barrier->lock
  counter,     \* barrier->counter: how many threads left to wait for
  pc,          \* where each thread is
  status,      \* what barrier_wait returns: -1 or 0
  calls,       \* how many calls of barrier_wait each thread has begun
  main,        \* where main is in barrier_destroy
  arrivals,    \* history: how often the counter was decremented
  passed,      \* history: how many calls have returned
  serials      \* history: how many calls have returned -1

barrierVars == <<lock, counter, pc, status, calls>>
history == <<arrivals, passed, serials>>
vars == <<barrierVars, main, history>>

\* "out": not in a call; "lock": in pthread_mutex_lock; "in": holding the lock;
\* "wait": in pthread_cond_wait; "woken": about to lock again; "leave": about
\* to unlock and return.
Points == {"out", "lock", "in", "wait", "woken", "leave"}

At(point) == {t \in Threads : pc[t] = point}

Go(t, point) == pc' = [pc EXCEPT ![t] = point]

Init ==
  /\ lock = Nobody
  /\ counter = Threshold
  /\ pc = [t \in Threads |-> "out"]
  /\ status = [t \in Threads |-> 0]
  /\ calls = [t \in Threads |-> 0]
  /\ main = "join"
  /\ arrivals = 0 /\ passed = 0 /\ serials = 0

\* What threads do with a destroyed barrier is undefined: the model ends.
Usable == main # "gone"

-----------------------------------------------------------------------------
(***************************************************************************)
(* barrier_wait.                                                            *)
(***************************************************************************)
\* A thread calls barrier_wait.
Call(t) ==
  /\ Usable /\ pc[t] = "out" /\ calls[t] < MaxCalls
  /\ Go(t, "lock")
  /\ calls' = [calls EXCEPT ![t] = @ + 1]
  /\ UNCHANGED <<lock, counter, status, main, history>>

Lock(t) ==
  /\ Usable /\ pc[t] = "lock" /\ lock = Nobody
  /\ lock' = t
  /\ Go(t, "in")
  /\ UNCHANGED <<counter, status, calls, main, history>>

\* Not enough threads yet: pthread_cond_wait gives up the lock.
Wait(t) ==
  /\ Usable /\ pc[t] = "in" /\ counter - 1 # 0
  /\ counter' = counter - 1
  /\ lock' = Nobody
  /\ Go(t, "wait")
  /\ arrivals' = arrivals + 1
  /\ UNCHANGED <<status, calls, main, passed, serials>>

\* Mutant: pthread_cond_signal in place of pthread_cond_broadcast.
BreakOne(t) ==
  /\ Usable /\ pc[t] = "in" /\ counter - 1 = 0
  /\ counter' = Threshold
  /\ \/ \E w \in At("wait") : pc' = [pc EXCEPT ![w] = "woken", ![t] = "leave"]
     \/ At("wait") = {} /\ Go(t, "leave")
  /\ status' = [status EXCEPT ![t] = -1]
  /\ arrivals' = arrivals + 1
  /\ UNCHANGED <<lock, calls, main, passed, serials>>

\* Mutant: the counter is not reset to the threshold but to one less.
BreakShort(t) ==
  /\ Usable /\ pc[t] = "in" /\ counter - 1 = 0
  /\ counter' = Threshold - 1
  /\ pc' = [u \in Threads |->
             IF u = t THEN "leave" ELSE IF pc[u] = "wait" THEN "woken" ELSE pc[u]]
  /\ status' = [status EXCEPT ![t] = -1]
  /\ arrivals' = arrivals + 1
  /\ UNCHANGED <<lock, calls, main, passed, serials>>

\* The last thread resets the counter and broadcasts.
Break(t) ==
  /\ Usable /\ pc[t] = "in" /\ counter - 1 = 0
  /\ counter' = Threshold
  /\ pc' = [u \in Threads |->
             IF u = t THEN "leave" ELSE IF pc[u] = "wait" THEN "woken" ELSE pc[u]]
  /\ status' = [status EXCEPT ![t] = -1]
  /\ arrivals' = arrivals + 1
  /\ UNCHANGED <<lock, calls, main, passed, serials>>

\* pthread_cond_wait returns 0 with the lock held.  There is no loop around
\* it, so a thread that woke up spuriously goes on like any other.
Wake(t) ==
  /\ Usable /\ pc[t] = "woken" /\ lock = Nobody
  /\ lock' = t
  /\ status' = [status EXCEPT ![t] = 0]
  /\ Go(t, "leave")
  /\ UNCHANGED <<counter, calls, main, history>>

SpuriousWakeup(t) ==
  /\ Spurious
  /\ Usable /\ pc[t] = "wait"
  /\ Go(t, "woken")
  /\ UNCHANGED <<lock, counter, status, calls, main, history>>

Return(t) ==
  /\ Usable /\ pc[t] = "leave"
  /\ lock' = Nobody
  /\ Go(t, "out")
  /\ passed' = passed + 1
  /\ serials' = IF status[t] = -1 THEN serials + 1 ELSE serials
  /\ UNCHANGED <<counter, status, calls, main, arrivals>>

-----------------------------------------------------------------------------
(***************************************************************************)
(* main and barrier_destroy.                                                *)
(***************************************************************************)
Finished(t) == pc[t] = "out" /\ calls[t] = MaxCalls

DestroyLock ==
  /\ main = "join" /\ lock = Nobody
  /\ JoinFirst => \A t \in Threads : Finished(t)
  /\ lock' = Main
  /\ main' = "locked"
  /\ UNCHANGED <<counter, pc, status, calls, history>>

\* Threads are waiting: barrier_destroy unlocks and returns -1.  If not, the
\* barrier is marked invalid, which barrier_wait never looks at.
DestroyCheck ==
  /\ main = "locked"
  /\ lock' = Nobody
  /\ main' = IF counter # Threshold THEN "refused" ELSE "invalid"
  /\ UNCHANGED <<counter, pc, status, calls, history>>

\* pthread_mutex_destroy and pthread_cond_destroy.
DestroyFree ==
  /\ main = "invalid"
  /\ main' = "gone"
  /\ UNCHANGED <<barrierVars, history>>

-----------------------------------------------------------------------------
Thread(t) ==
  Call(t) \/ Lock(t) \/ Wait(t) \/ Break(t) \/ Wake(t) \/ Return(t)

Destroy == DestroyLock \/ DestroyCheck \/ DestroyFree

\* barrier_destroy has returned, and no thread is left inside.
Terminated ==
  /\ main = "gone" \/ (main = "refused" /\ \A t \in Threads : Finished(t))
  /\ UNCHANGED vars

Next ==
  \/ \E t \in Threads : Thread(t) \/ SpuriousWakeup(t)
  \/ Destroy
  \/ Terminated

\* The threads and main are scheduled; nothing makes a spurious wakeup happen.
\* A mutex need not be granted in any order, for every thread makes a bounded
\* number of calls.
Fairness == (\A t \in Threads : WF_vars(Thread(t))) /\ WF_vars(Destroy)

Spec == Init /\ [][Next]_vars

FairSpec == Spec /\ Fairness

-----------------------------------------------------------------------------
TypeOK ==
  /\ lock \in Threads \cup {Main, Nobody}
  /\ counter \in 1 .. Threshold
  /\ pc \in [Threads -> Points]
  /\ status \in [Threads -> {-1, 0}]
  /\ calls \in [Threads -> 0 .. MaxCalls]
  /\ main \in {"join", "locked", "invalid", "gone", "refused"}
  /\ arrivals \in Nat /\ passed \in Nat /\ serials \in Nat

\* The mutex is held by the one thread that is inside, if there is one.
LockOwner ==
  /\ \A t \in Threads : pc[t] \in {"in", "leave"} <=> lock = t
  /\ main = "locked" <=> lock = Main

\* counter tells how many threads wait for the current round to complete,
\* which is what barrier_destroy goes by.
CounterCounts == counter + Cardinality(At("wait")) = Threshold

\* No call returns before Threshold threads have arrived for its round.
NoEarlyReturn == passed <= (arrivals \div Threshold) * Threshold

\* Of each complete round one call returns -1, as soon as all have returned.
OneSerialThread ==
  At("wait") = {} /\ At("woken") = {} /\ At("leave") = {} =>
    serials = arrivals \div Threshold

\* Rounds come one after the other: no call returns from one that is not
\* complete, and each complete one has its serial thread.
RoundsComplete == NoEarlyReturn /\ OneSerialThread

\* The barrier implements a rendezvous: the broadcast releases all threads
\* that wait and no other, also those of a next round.
R == INSTANCE Rendezvous WITH
       gathered <- At("wait"),
       released <- At("woken") \cup At("leave")
RendezvousSpec == R!Spec

\* Every thread gets through all its calls when their number allows it.
AllReturn == <>(\A t \in Threads : Finished(t))

\* "Lock the mutex so nothing happens while we're destroying", and "If there are
\* threads waiting on this barrier, don't destory it" (barrier.c:35-39): no
\* thread is in pthread_cond_wait when the condition is destroyed.  One may have
\* come in between the check and the destruction, for the mutex is given up in
\* between and barrier_wait does not look at valid.
DestroyRespectsWaiters == main = "gone" => At("wait") = {}

==============================================================================
