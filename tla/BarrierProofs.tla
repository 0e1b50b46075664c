---------------------------- MODULE BarrierProofs ----------------------------
(***************************************************************************)
(* Proofs about the barrier, for any finite set of threads and any          *)
(* threshold: mutual exclusion always, and the rendezvous when              *)
(* pthread_cond_wait does not return without a broadcast.                   *)
(***************************************************************************)
EXTENDS Barrier, FiniteSetTheorems, TLAPS

\* The mutex and the types hold with spurious wakeups or without.
MutexInv == TypeOK /\ LockOwner

LEMMA InitMutex == Init => MutexInv
<1> SUFFICES ASSUME Init PROVE MutexInv
  OBVIOUS
<1>1. TypeOK
  BY ThresholdAssumption, MaxCallsAssumption DEF Init, TypeOK, Points
<1>2. LockOwner
  BY ThreadsAssumption DEF Init, LockOwner
<1> QED  BY <1>1, <1>2 DEF MutexInv

\* Each step of barrier_wait takes the mutex, gives it up, or leaves it alone.
LEMMA ThreadMutex ==
  ASSUME MutexInv, NEW t \in Threads, Thread(t) \/ SpuriousWakeup(t)
  PROVE  MutexInv'
<1> USE ThreadsAssumption, ThresholdAssumption, MaxCallsAssumption
    DEF MutexInv, Usable, Go, history
<1>1. CASE Call(t)
  <2>1. TypeOK'
    BY <1>1 DEF Call, TypeOK, Points
  <2>2. LockOwner'
    BY <1>1 DEF Call, LockOwner, TypeOK
  <2> QED  BY <2>1, <2>2
<1>2. CASE Lock(t)
  <2>1. TypeOK'
    BY <1>2 DEF Lock, TypeOK, Points
  <2>2. LockOwner'
    BY <1>2 DEF Lock, LockOwner, TypeOK
  <2> QED  BY <2>1, <2>2
<1>3. CASE Wait(t)
  <2>1. TypeOK'
    BY <1>3 DEF Wait, TypeOK, Points
  <2>2. LockOwner'
    BY <1>3 DEF Wait, LockOwner, TypeOK
  <2> QED  BY <2>1, <2>2
<1>4. CASE Break(t)
  <2>1. TypeOK'
    BY <1>4 DEF Break, TypeOK, Points
  <2>2. LockOwner'
    BY <1>4 DEF Break, LockOwner, TypeOK
  <2> QED  BY <2>1, <2>2
<1>5. CASE Wake(t)
  <2>1. TypeOK'
    BY <1>5 DEF Wake, TypeOK, Points
  <2>2. LockOwner'
    BY <1>5 DEF Wake, LockOwner, TypeOK
  <2> QED  BY <2>1, <2>2
<1>6. CASE SpuriousWakeup(t)
  <2>1. TypeOK'
    BY <1>6 DEF SpuriousWakeup, TypeOK, Points
  <2>2. LockOwner'
    BY <1>6 DEF SpuriousWakeup, LockOwner, TypeOK
  <2> QED  BY <2>1, <2>2
<1>7. CASE Return(t)
  <2>1. TypeOK'
    BY <1>7 DEF Return, TypeOK, Points
  <2>2. LockOwner'
    BY <1>7 DEF Return, LockOwner, TypeOK
  <2> QED  BY <2>1, <2>2
<1> QED  BY <1>1, <1>2, <1>3, <1>4, <1>5, <1>6, <1>7 DEF Thread

LEMMA NextMutex == MutexInv /\ [Next]_vars => MutexInv'
<1> SUFFICES ASSUME MutexInv, [Next]_vars PROVE MutexInv'
  OBVIOUS
<1>1. CASE \E t \in Threads : Thread(t) \/ SpuriousWakeup(t)
  BY <1>1, ThreadMutex
<1>2. CASE Destroy
  <2> USE ThreadsAssumption DEF MutexInv, Destroy, DestroyLock, DestroyCheck,
                                DestroyFree, barrierVars, history
  <2>1. TypeOK'
    BY <1>2 DEF TypeOK
  <2>2. LockOwner'
    BY <1>2 DEF LockOwner
  <2> QED  BY <2>1, <2>2
<1>3. CASE UNCHANGED vars
  BY <1>3 DEF MutexInv, TypeOK, LockOwner, vars, barrierVars, history
<1> QED  BY <1>1, <1>2, <1>3 DEF Next, Terminated

\* The barrier's state is well typed; counter stays between 1 and Threshold.
THEOREM BarrierTypeCorrect == Spec => []TypeOK
<1>1. MutexInv => TypeOK
  BY DEF MutexInv
<1> QED  BY <1>1, InitMutex, NextMutex, PTL DEF Spec

\* At most one thread is between lock and unlock, and it owns the mutex.
THEOREM MutualExclusion == Spec => []LockOwner
<1>1. MutexInv => LockOwner
  BY DEF MutexInv
<1> QED  BY <1>1, InitMutex, NextMutex, PTL DEF Spec

-----------------------------------------------------------------------------
(***************************************************************************)
(* Without spurious wakeups the counter counts the waiting threads.         *)
(***************************************************************************)
CountInv == MutexInv /\ CounterCounts

\* The waiting threads are finitely many, now and after a step.
LEMMA WaitersFinite ==
  ASSUME MutexInv
  PROVE  /\ IsFiniteSet(At("wait")) /\ Cardinality(At("wait")) \in Nat
         /\ counter \in Nat /\ Threshold \in Nat
<1>1. At("wait") \subseteq Threads
  BY DEF At
<1>2. IsFiniteSet(At("wait"))
  BY <1>1, ThreadsAssumption, FS_Subset
<1>3. Cardinality(At("wait")) \in Nat
  BY <1>2, FS_CardinalityType
<1>4. counter \in Nat /\ Threshold \in Nat
  BY ThresholdAssumption DEF MutexInv, TypeOK
<1> QED  BY <1>2, <1>3, <1>4

LEMMA InitCount == Init => CountInv
<1> SUFFICES ASSUME Init PROVE CountInv
  OBVIOUS
<1>1. At("wait") = {}
  BY DEF Init, At
<1> QED  BY <1>1, InitMutex, FS_EmptySet, ThresholdAssumption
         DEF CountInv, CounterCounts, Init

\* What a step of barrier_wait does to the set of waiting threads.
LEMMA WaitStep ==
  ASSUME CountInv, NEW t \in Threads, Wait(t)
  PROVE  /\ At("wait")' = At("wait") \cup {t} /\ t \notin At("wait")
         /\ At("woken")' = At("woken") /\ At("leave")' = At("leave")
         /\ t \notin At("woken") \cup At("leave")
BY DEF CountInv, MutexInv, TypeOK, Wait, Go, At

LEMMA BreakStep ==
  ASSUME CountInv, NEW t \in Threads, Break(t)
  PROVE  /\ At("wait")' = {} /\ t \notin At("wait") \cup At("woken") \cup At("leave")
         /\ (At("woken") \cup At("leave"))' = At("woken") \cup At("leave") \cup At("wait") \cup {t}
BY DEF CountInv, MutexInv, TypeOK, Break, At

LEMMA ReturnStep ==
  ASSUME CountInv, NEW t \in Threads, Return(t)
  PROVE  /\ At("wait")' = At("wait") /\ t \in At("leave")
         /\ (At("woken") \cup At("leave"))' = (At("woken") \cup At("leave")) \ {t}
BY DEF CountInv, MutexInv, TypeOK, Return, Go, At

\* All other steps keep the waiting threads and the released ones.
OtherStep(t) == Call(t) \/ Lock(t) \/ Wake(t)

LEMMA OtherSteps ==
  ASSUME CountInv, NEW t \in Threads, OtherStep(t)
  PROVE  /\ At("wait")' = At("wait")
         /\ (At("woken") \cup At("leave"))' = At("woken") \cup At("leave")
         /\ counter' = counter
BY DEF CountInv, MutexInv, TypeOK, OtherStep, Call, Lock, Wake, Go, At

LEMMA DestroySteps ==
  ASSUME Destroy \/ UNCHANGED vars
  PROVE  /\ At("wait")' = At("wait")
         /\ (At("woken") \cup At("leave"))' = At("woken") \cup At("leave")
         /\ counter' = counter
BY DEF Destroy, DestroyLock, DestroyCheck, DestroyFree, barrierVars, vars, At

LEMMA NextCount ==
  ASSUME Spurious = FALSE, CountInv, [Next]_vars
  PROVE  CountInv'
<1>0. MutexInv'
  BY NextMutex DEF CountInv
<1>1. ASSUME NEW t \in Threads, Wait(t)
      PROVE  CounterCounts'
  <2>1. Cardinality(At("wait")') = Cardinality(At("wait")) + 1
    <3>1. At("wait")' = At("wait") \cup {t} /\ t \notin At("wait")
      BY <1>1, WaitStep
    <3>2. IsFiniteSet(At("wait"))
      BY WaitersFinite DEF CountInv
    <3>3. Cardinality(At("wait") \cup {t}) = Cardinality(At("wait")) + 1
      BY <3>1, <3>2, FS_AddElement
    <3> QED  BY <3>1, <3>3
  <2>2. counter' = counter - 1
    BY <1>1 DEF Wait
  <2> HIDE DEF At
  <2>3. /\ counter + Cardinality(At("wait")) = Threshold
        /\ Cardinality(At("wait")) \in Nat /\ counter \in Nat
    BY WaitersFinite DEF CounterCounts, CountInv
  <2>4. counter' + Cardinality(At("wait")') = Threshold
    BY <2>1, <2>2, <2>3
  <2> QED  BY <2>4 DEF CounterCounts
<1>2. ASSUME NEW t \in Threads, Break(t)
      PROVE  CounterCounts'
  <2>1. Cardinality(At("wait")') = 0
    BY <1>2, BreakStep, FS_EmptySet
  <2>2. counter' = Threshold
    BY <1>2 DEF Break
  <2> QED  BY <2>1, <2>2, ThresholdAssumption DEF CounterCounts
<1>3. ASSUME NEW t \in Threads, Return(t)
      PROVE  CounterCounts'
  BY <1>3, ReturnStep DEF CounterCounts, CountInv, Return
<1>4. ASSUME NEW t \in Threads, OtherStep(t)
      PROVE  CounterCounts'
  BY <1>4, OtherSteps DEF CounterCounts, CountInv
<1>5. ASSUME Destroy \/ UNCHANGED vars
      PROVE  CounterCounts'
  BY <1>5, DestroySteps DEF CounterCounts, CountInv
<1>6. \/ \E t \in Threads : Wait(t) \/ Break(t) \/ Return(t) \/ OtherStep(t)
      \/ Destroy \/ UNCHANGED vars
  BY DEF Next, Terminated, Thread, OtherStep, SpuriousWakeup
<1>7. CounterCounts'
  BY <1>1, <1>2, <1>3, <1>4, <1>5, <1>6
<1> QED  BY <1>0, <1>7 DEF CountInv

\* counter and the number of waiting threads always make up the threshold.
THEOREM CounterIsRight ==
  ASSUME Spurious = FALSE
  PROVE  Spec => []CounterCounts
<1>1. CountInv /\ [Next]_vars => CountInv'
  BY NextCount
<1>2. CountInv => CounterCounts
  BY DEF CountInv
<1> QED  BY <1>1, <1>2, InitCount, PTL DEF Spec

\* barrier_destroy's check, at least, sees every thread that waits then: the
\* barrier is not marked invalid before all of them are released.
CheckSeesWaiters == [][main = "locked" /\ main' = "invalid" => At("wait") = {}]_vars

LEMMA CheckIsRight ==
  ASSUME Spurious = FALSE
  PROVE  Spec => CheckSeesWaiters
<1>1. CountInv /\ [Next]_vars => CountInv'
  BY NextCount
<1>2. CountInv /\ [Next]_vars =>
        [main = "locked" /\ main' = "invalid" => At("wait") = {}]_vars
  <2> SUFFICES ASSUME CountInv, Next, main = "locked", main' = "invalid"
               PROVE  At("wait") = {}
    BY DEF vars
  <2>1. DestroyCheck
    BY DEF Next, Thread, Call, Lock, Wait, Break, Wake, SpuriousWakeup, Return,
           Destroy, DestroyLock, DestroyFree, Terminated, vars
  <2>2. Cardinality(At("wait")) = 0
    BY <2>1, WaitersFinite DEF DestroyCheck, CountInv, CounterCounts
  <2> QED  BY <2>2, WaitersFinite, FS_EmptySet DEF CountInv
<1> QED  BY <1>1, <1>2, InitCount, PTL DEF Spec, CheckSeesWaiters

-----------------------------------------------------------------------------
(***************************************************************************)
(* Without spurious wakeups the rounds come one after the other: after q    *)
(* complete rounds the calls that have returned and those that are about to *)
(* make up q * Threshold, and so do the serial threads make up q.           *)
(***************************************************************************)
Released == At("woken") \cup At("leave")
Serial == {t \in At("leave") : status[t] = -1}

Rounds(q) ==
  /\ arrivals = q * Threshold + Cardinality(At("wait"))
  /\ passed + Cardinality(Released) = q * Threshold
  /\ serials + Cardinality(Serial) = q

RoundsInv == CountInv /\ \E q \in Nat : Rounds(q)

LEMMA ReleasedFinite ==
  ASSUME MutexInv
  PROVE  /\ IsFiniteSet(Released) /\ Cardinality(Released) \in Nat
         /\ IsFiniteSet(Serial) /\ Cardinality(Serial) \in Nat
<1>1. Released \subseteq Threads /\ Serial \subseteq Threads
  BY DEF Released, Serial, At
<1>2. IsFiniteSet(Released) /\ IsFiniteSet(Serial)
  BY <1>1, ThreadsAssumption, FS_Subset
<1> QED  BY <1>2, FS_CardinalityType

LEMMA InitRounds == Init => RoundsInv
<1> SUFFICES ASSUME Init PROVE RoundsInv
  OBVIOUS
<1>1. At("wait") = {} /\ Released = {} /\ Serial = {}
  BY DEF Init, At, Released, Serial
<1>2. arrivals = 0 /\ passed = 0 /\ serials = 0
  BY DEF Init
<1>3. Cardinality({}) = 0
  BY FS_EmptySet
<1>4. 0 * Threshold = 0
  BY ThresholdAssumption
<1>5. Rounds(0)
  BY <1>1, <1>2, <1>3, <1>4 DEF Rounds
<1> QED  BY <1>5, InitCount DEF RoundsInv

\* The last thread of a round completes it, and is its serial thread.
LEMMA BreakRound ==
  ASSUME CountInv, NEW q \in Nat, Rounds(q), NEW t \in Threads, Break(t)
  PROVE  Rounds(q + 1)'
<1> DEFINE wait == At("wait")
<1>0. MutexInv /\ Threshold \in Nat /\ arrivals \in Nat /\ serials \in Nat /\ passed \in Nat
  BY ThresholdAssumption DEF CountInv, MutexInv, TypeOK
<1>1. IsFiniteSet(wait) /\ Cardinality(wait) = Threshold - 1
  <2>1. counter - 1 = 0 /\ counter + Cardinality(wait) = Threshold
    BY DEF Break, CountInv, CounterCounts
  <2> QED  BY <1>0, <2>1, WaitersFinite
<1>2. Cardinality(Released') = Cardinality(Released) + Threshold
  <2>1. /\ Released' = Released \cup wait \cup {t}
        /\ t \notin Released \cup wait
    BY BreakStep DEF Released
  <2>2. Released \cap wait = {}
    BY DEF Released, At
  <2>3. /\ IsFiniteSet(Released \cup wait)
        /\ Cardinality(Released \cup wait)
             = Cardinality(Released) + Cardinality(wait) - Cardinality(Released \cap wait)
    BY <1>0, <1>1, ReleasedFinite, FS_Union
  <2>4. Cardinality(Released \cup wait) = Cardinality(Released) + (Threshold - 1)
    <3>1. Cardinality(Released \cap wait) = 0
      BY <2>2, FS_EmptySet
    <3>2. Cardinality(Released) \in Nat
      BY <1>0, ReleasedFinite
    <3> HIDE DEF wait
    <3> QED  BY <1>0, <1>1, <2>3, <3>1, <3>2
  <2>5. Cardinality((Released \cup wait) \cup {t}) = Cardinality(Released \cup wait) + 1
    BY <2>1, <2>3, FS_AddElement
  <2>6. Cardinality(Released) \in Nat
    BY <1>0, ReleasedFinite
  <2> HIDE DEF wait
  <2> QED  BY <1>0, <2>1, <2>4, <2>5, <2>6
<1>3. Cardinality(Serial') = Cardinality(Serial) + 1
  <2>1. Serial' = Serial \cup {t} /\ t \notin Serial
    BY <1>0 DEF Break, Serial, At, MutexInv, TypeOK
  <2> QED  BY <1>0, <2>1, ReleasedFinite, FS_AddElement
<1>4. Cardinality(At("wait")') = 0
  BY BreakStep, FS_EmptySet
<1>5. arrivals' = arrivals + 1 /\ passed' = passed /\ serials' = serials
  BY DEF Break
<1>6. (q + 1) * Threshold = q * Threshold + Threshold /\ q * Threshold \in Nat
  BY <1>0
<1>7. arrivals' = (q + 1) * Threshold + Cardinality(At("wait")')
  <2>1. arrivals = q * Threshold + Cardinality(wait)
    BY DEF Rounds
  <2> HIDE DEF wait
  <2> QED  BY <1>0, <1>1, <1>4, <1>5, <1>6, <2>1
<1>8. passed' + Cardinality(Released') = (q + 1) * Threshold
  <2> DEFINE before == q * Threshold
             after == (q + 1) * Threshold
  <2>1. passed + Cardinality(Released) = before /\ Cardinality(Released) \in Nat
    BY <1>0, ReleasedFinite DEF Rounds
  <2>2. after = before + Threshold /\ passed \in Nat /\ Threshold \in Nat
    BY <1>0, <1>6, ThresholdAssumption DEF MutexInv, TypeOK
  <2> HIDE DEF wait, before, after
  <2>3. passed' + Cardinality(Released') = after
    BY <1>2, <1>5, <2>1, <2>2
  <2> QED  BY <2>3 DEF after
<1>9. serials' + Cardinality(Serial') = q + 1
  <2>1. serials + Cardinality(Serial) = q /\ Cardinality(Serial) \in Nat
    BY <1>0, ReleasedFinite DEF Rounds
  <2> QED  BY <1>0, <1>3, <1>5, <2>1
<1> QED  BY <1>7, <1>8, <1>9 DEF Rounds

\* A thread that returns counts, as the serial one if it is.
LEMMA ReturnRound ==
  ASSUME CountInv, NEW q \in Nat, Rounds(q), NEW t \in Threads, Return(t)
  PROVE  Rounds(q)'
<1>0. /\ MutexInv /\ serials \in Nat /\ passed \in Nat /\ Threshold \in Nat
      /\ Cardinality(Released) \in Nat /\ Cardinality(Serial) \in Nat
  BY ThresholdAssumption, ReleasedFinite DEF CountInv, MutexInv, TypeOK
<1>1. Cardinality(Released') = Cardinality(Released) - 1
  <2>1. Released' = Released \ {t} /\ t \in Released
    BY ReturnStep DEF Released
  <2> QED  BY <1>0, <2>1, ReleasedFinite, FS_RemoveElement
<1>2. CASE status[t] = -1
  <2>1. Serial' = Serial \ {t} /\ t \in Serial
    BY <1>0, <1>2 DEF Return, Go, Serial, At, MutexInv, TypeOK
  <2>2. Cardinality(Serial') = Cardinality(Serial) - 1
    BY <1>0, <2>1, ReleasedFinite, FS_RemoveElement
  <2>3. serials' = serials + 1 /\ passed' = passed + 1 /\ arrivals' = arrivals
    BY <1>2 DEF Return
  <2> QED  BY <1>0, <1>1, <2>2, <2>3, ReturnStep DEF Rounds
<1>3. CASE status[t] # -1
  <2>1. Serial' = Serial
    BY <1>0, <1>3 DEF Return, Go, Serial, At, MutexInv, TypeOK
  <2>2. serials' = serials /\ passed' = passed + 1 /\ arrivals' = arrivals
    BY <1>3 DEF Return
  <2> QED  BY <1>0, <1>1, <2>1, <2>2, ReturnStep DEF Rounds
<1> QED  BY <1>2, <1>3

LEMMA NextRounds ==
  ASSUME Spurious = FALSE, RoundsInv, [Next]_vars
  PROVE  RoundsInv'
<1>0. CountInv' /\ CountInv /\ MutexInv
  BY NextCount DEF RoundsInv, CountInv
<1>1. PICK q \in Nat : Rounds(q)
  BY DEF RoundsInv
<1>2. ASSUME NEW t \in Threads, Wait(t)
      PROVE  Rounds(q)'
  <2>1. Cardinality(At("wait")') = Cardinality(At("wait")) + 1
    BY <1>0, <1>2, WaitStep, WaitersFinite, FS_AddElement
  <2>2. Released' = Released /\ Serial' = Serial
    BY <1>0, <1>2, WaitStep DEF Released, Serial, Wait
  <2>3. arrivals' = arrivals + 1 /\ passed' = passed /\ serials' = serials
    BY <1>2 DEF Wait
  <2>4. /\ arrivals \in Nat /\ Threshold \in Nat /\ q * Threshold \in Nat
        /\ Cardinality(At("wait")) \in Nat
    BY <1>0, ThresholdAssumption, WaitersFinite DEF MutexInv, TypeOK
  <2>5. arrivals' = q * Threshold + Cardinality(At("wait")')
    <3>1. arrivals = q * Threshold + Cardinality(At("wait"))
      BY <1>1 DEF Rounds
    <3> QED  BY <2>1, <2>3, <2>4, <3>1
  <2> QED  BY <1>1, <2>2, <2>3, <2>5 DEF Rounds
<1>3. ASSUME NEW t \in Threads, OtherStep(t)
      PROVE  Rounds(q)'
  <2>1. Serial' = Serial
    BY <1>0, <1>3 DEF OtherStep, Call, Lock, Wake, Go, Serial, At, MutexInv, TypeOK
  <2>2. UNCHANGED history
    BY <1>3 DEF OtherStep, Call, Lock, Wake
  <2> QED  BY <1>0, <1>1, <1>3, <2>1, <2>2, OtherSteps DEF Rounds, Released, history
<1>4. ASSUME Destroy \/ UNCHANGED vars
      PROVE  Rounds(q)'
  <2>1. Serial' = Serial
    BY <1>4 DEF Destroy, DestroyLock, DestroyCheck, DestroyFree, barrierVars, vars, Serial, At
  <2>2. UNCHANGED history
    BY <1>4 DEF Destroy, DestroyLock, DestroyCheck, DestroyFree, vars
  <2> QED  BY <1>1, <1>4, <2>1, <2>2, DestroySteps DEF Rounds, Released, history
<1>5. \/ \E t \in Threads : Wait(t) \/ Break(t) \/ Return(t) \/ OtherStep(t)
      \/ Destroy \/ UNCHANGED vars
  BY DEF Next, Terminated, Thread, OtherStep, SpuriousWakeup
<1>6. \E r \in Nat : Rounds(r)'
  <2>1. q + 1 \in Nat
    OBVIOUS
  <2> QED  BY <1>0, <1>1, <1>2, <1>3, <1>4, <1>5, <2>1, BreakRound, ReturnRound
<1> QED  BY <1>0, <1>6 DEF RoundsInv

\* No call returns from a round that is not complete, and of each round exactly
\* one call returns -1, for any number of threads and any threshold.
THEOREM RoundsAreComplete ==
  ASSUME Spurious = FALSE
  PROVE  Spec => []RoundsComplete
<1>1. RoundsInv /\ [Next]_vars => RoundsInv'
  BY NextRounds
<1>2. RoundsInv => RoundsComplete
  <2> SUFFICES ASSUME CountInv, NEW q \in Nat, Rounds(q)
               PROVE  RoundsComplete
    BY DEF RoundsInv
  <2>1. /\ MutexInv /\ Threshold \in Nat \ {0} /\ arrivals \in Nat
        /\ passed \in Nat /\ serials \in Nat
    BY ThresholdAssumption DEF CountInv, MutexInv, TypeOK
  <2>2. arrivals \div Threshold = q
    <3>1. Cardinality(At("wait")) \in 0 .. Threshold - 1
      BY <2>1, WaitersFinite DEF CountInv, CounterCounts, MutexInv, TypeOK
    <3>2. arrivals = q * Threshold + Cardinality(At("wait"))
      BY DEF Rounds
    <3> HIDE DEF At
    <3> QED  BY <2>1, <3>1, <3>2
  <2>3. NoEarlyReturn
    BY <2>1, <2>2, ReleasedFinite DEF NoEarlyReturn, Rounds
  <2>4. OneSerialThread
    <3> SUFFICES ASSUME At("leave") = {} PROVE serials = q
      BY <2>2 DEF OneSerialThread
    <3>1. Cardinality(Serial) = 0
      BY FS_EmptySet DEF Serial
    <3> QED  BY <2>1, <3>1 DEF Rounds
  <2> QED  BY <2>3, <2>4 DEF RoundsComplete
<1> QED  BY <1>1, <1>2, InitRounds, PTL DEF Spec

-----------------------------------------------------------------------------
\* The barrier implements the rendezvous of Threshold threads.
THEOREM BarrierImplementsRendezvous ==
  ASSUME Spurious = FALSE
  PROVE  Spec => RendezvousSpec
<1> DEFINE gathered == At("wait")
           released == At("woken") \cup At("leave")
<1>1. Init => R!Init
  BY DEF Init, R!Init, At
<1>2. CountInv /\ [Next]_vars => CountInv'
  BY NextCount
<1>3. CountInv /\ [Next]_vars => [R!Next]_<<gathered, released>>
  <2> SUFFICES ASSUME CountInv, [Next]_vars
               PROVE  R!Next \/ UNCHANGED <<gathered, released>>
    OBVIOUS
  <2>1. ASSUME NEW t \in Threads, Wait(t)
        PROVE  R!Arrive(t)
    <3>1. Cardinality(At("wait")) + 1 # Threshold
      <4>1. counter - 1 # 0
        BY <2>1 DEF Wait
      <4>2. counter + Cardinality(At("wait")) = Threshold
        BY DEF CountInv, CounterCounts
      <4> QED  BY <4>1, <4>2, WaitersFinite DEF CountInv
    <3>2. R!Outside(t)
      BY <2>1, WaitStep DEF R!Outside
    <3>3. gathered' = gathered \cup {t} /\ released' = released
      BY <2>1, WaitStep
    <3> QED  BY <3>1, <3>2, <3>3 DEF R!Arrive, Cardinality, R!Cardinality
  <2>2. ASSUME NEW t \in Threads, Break(t)
        PROVE  R!Break(t)
    <3>1. Cardinality(At("wait")) + 1 = Threshold
      <4>1. counter - 1 = 0
        BY <2>2 DEF Break
      <4>2. counter + Cardinality(At("wait")) = Threshold
        BY DEF CountInv, CounterCounts
      <4> QED  BY <4>1, <4>2, WaitersFinite DEF CountInv
    <3>2. R!Outside(t)
      BY <2>2, BreakStep DEF R!Outside
    <3>3. gathered' = {} /\ released' = released \cup gathered \cup {t}
      BY <2>2, BreakStep
    <3> QED  BY <3>1, <3>2, <3>3 DEF R!Break, Cardinality, R!Cardinality
  <2>3. ASSUME NEW t \in Threads, Return(t)
        PROVE  R!Leave(t)
    BY <2>3, ReturnStep DEF R!Leave
  <2>4. ASSUME NEW t \in Threads, OtherStep(t)
        PROVE  UNCHANGED <<gathered, released>>
    BY <2>4, OtherSteps
  <2>5. CASE Destroy \/ UNCHANGED vars
    BY <2>5, DestroySteps
  <2> QED  BY <2>1, <2>2, <2>3, <2>4, <2>5
           DEF R!Next, Next, Terminated, Thread, OtherStep, SpuriousWakeup
<1> QED  BY <1>1, <1>2, <1>3, InitCount, PTL DEF Spec, RendezvousSpec, R!Spec

==============================================================================
