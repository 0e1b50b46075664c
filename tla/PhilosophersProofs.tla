------------------------- MODULE PhilosophersProofs --------------------------
(***************************************************************************)
(* Proofs about the philosophers, for any number of them from two on.       *)
(***************************************************************************)
EXTENDS Philosophers, FiniteSetTheorems, WellFoundedInduction, TLAPS

\* The forks beside a philosopher are two.
LEMMA TwoForks ==
  ASSUME NEW i \in Phils
  PROVE  Left(i) \in Phils /\ Right(i) \in Phils /\ Left(i) # Right(i)
<1>1. CASE i + 1 < N
  BY <1>1, NAssumption DEF Phils, Left, Right
<1>2. CASE i + 1 = N
  BY <1>2, NAssumption DEF Phils, Left, Right
<1> QED  BY <1>1, <1>2, NAssumption DEF Phils

\* So a philosopher's two fork pointers differ.
LEMMA PointersDiffer ==
  ASSUME IInv, NEW i \in Phils
  PROVE  fork_left[i] # fork_right[i]
BY TwoForks DEF IInv, OwnForks

LEMMA InitInv == Init => IInv
<1> SUFFICES ASSUME Init PROVE IInv
  OBVIOUS
<1>1. TypeOK
  BY TwoForks, NAssumption DEF Init, TypeOK, Points, Tries
<1>2. OwnForks
  BY DEF Init, OwnForks
<1>3. ForksAccounted
  BY NAssumption DEF Init, ForksAccounted, Held, Phils, Nobody
<1>4. FailedTry
  BY DEF Init, FailedTry
<1>5. InOrder
  BY DEF Init, InOrder, Phils
<1>6. SwappedPerTry
  BY DEF Init, SwappedPerTry, Tries
<1> QED  BY <1>1, <1>2, <1>3, <1>4, <1>5, <1>6 DEF IInv

\* Only a failed try swaps the pointers, and counts itself.
LEMMA SwapStep ==
  ASSUME IInv, NEW i \in Phils, Philosopher(i)
  PROVE  SwappedPerTry'
<1> USE DEF IInv, SwappedPerTry
<1>1. CASE Think(i)
  BY <1>1 DEF Think, TypeOK, Tries
<1>2. CASE Retry(i)
  <2>1. tries_left[i] \in {1, 2} /\ tries_left'[i] = tries_left[i] - 1
    BY <1>2 DEF Retry, TypeOK, FailedTry, Tries
  <2>2. fork_left'[i] = fork_right[i]
    BY <1>2 DEF Retry, Swap, TypeOK
  <2>3. {fork_left[i], fork_right[i]} = {Left(i), Right(i)} /\ Left(i) # Right(i)
    BY TwoForks DEF OwnForks
  <2>4. fork_left'[i] = IF tries_left'[i] = 1 THEN Right(i) ELSE Left(i)
    BY <2>1, <2>2, <2>3, PointersDiffer
  <2>5. \A k \in Phils \ {i} : fork_left'[k] = fork_left[k] /\ tries_left'[k] = tries_left[k]
    BY <1>2 DEF Retry, Swap, TypeOK
  <2> QED  BY <2>4, <2>5
<1>3. CASE UNCHANGED <<fork_left, tries_left>>
  BY <1>3
<1> QED  BY <1>1, <1>2, <1>3
         DEF Philosopher, Exit, LockFirst, LockSecond, TryFails, PutRight, PutLeft

LEMMA PhilosopherStep ==
  ASSUME IInv, NEW i \in Phils, Philosopher(i)
  PROVE  IInv'
<1> USE NAssumption DEF IInv, mainVars, Go
<1>d. fork_left[i] # fork_right[i]
  BY PointersDiffer
<1>s. SwappedPerTry'
  BY SwapStep
<1>1. CASE Think(i)
  <2>1. TypeOK'
    BY <1>1, TwoForks DEF Think, TypeOK, Points, Tries
  <2>2. OwnForks'
    BY <1>1 DEF Think, OwnForks, TypeOK
  <2>3. ForksAccounted'
    BY <1>1 DEF Think, ForksAccounted, Held, TypeOK
  <2>4. FailedTry'
    BY <1>1 DEF Think, FailedTry, TypeOK
  <2>5. InOrder'
    BY <1>1 DEF Think, InOrder, Ended, TypeOK
  <2> QED  BY <1>s, <2>1, <2>2, <2>3, <2>4, <2>5
<1>2. CASE Exit(i)
  <2>1. TypeOK'
    BY <1>2 DEF Exit, TypeOK, Points
  <2>2. OwnForks'
    BY <1>2 DEF Exit, OwnForks
  <2>3. ForksAccounted'
    BY <1>2 DEF Exit, ForksAccounted, Held, TypeOK
  <2>4. FailedTry'
    BY <1>2 DEF Exit, FailedTry, TypeOK
  <2>5. InOrder'
    BY <1>2 DEF Exit, InOrder, Ended, TypeOK
  <2> QED  BY <1>s, <2>1, <2>2, <2>3, <2>4, <2>5
<1>3. CASE LockFirst(i)
  <2>1. TypeOK'
    BY <1>3 DEF LockFirst, Take, TypeOK, Points
  <2>2. OwnForks'
    BY <1>3 DEF LockFirst, OwnForks
  <2>3. ForksAccounted'
    BY <1>3 DEF LockFirst, Take, ForksAccounted, Held, TypeOK, Phils, Nobody
  <2>4. FailedTry'
    BY <1>3 DEF LockFirst, FailedTry, TypeOK
  <2>5. InOrder'
    BY <1>3 DEF LockFirst, InOrder, Ended, TypeOK
  <2> QED  BY <1>s, <2>1, <2>2, <2>3, <2>4, <2>5
<1>4. CASE LockSecond(i)
  <2>1. TypeOK'
    BY <1>4 DEF LockSecond, Take, TypeOK, Points
  <2>2. OwnForks'
    BY <1>4 DEF LockSecond, OwnForks
  <2>3. ForksAccounted'
    BY <1>4 DEF LockSecond, Take, ForksAccounted, Held, TypeOK, Phils, Nobody
  <2>4. FailedTry'
    BY <1>4 DEF LockSecond, FailedTry, TypeOK
  <2>5. InOrder'
    BY <1>4 DEF LockSecond, InOrder, Ended, TypeOK
  <2> QED  BY <1>s, <2>1, <2>2, <2>3, <2>4, <2>5
<1>5. CASE TryFails(i)
  <2>1. TypeOK'
    BY <1>5 DEF TryFails, TypeOK, Points
  <2>2. OwnForks'
    BY <1>5 DEF TryFails, OwnForks
  <2>3. ForksAccounted'
    BY <1>5 DEF TryFails, ForksAccounted, Held, TypeOK
  <2>4. FailedTry'
    BY <1>5 DEF TryFails, FailedTry, TypeOK
  <2>5. InOrder'
    BY <1>5 DEF TryFails, InOrder, Ended, TypeOK
  <2> QED  BY <1>s, <2>1, <2>2, <2>3, <2>4, <2>5
<1>6. CASE Retry(i)
  <2>1. TypeOK'
    BY <1>6 DEF Retry, Drop, Swap, TypeOK, Points, FailedTry, Tries
  <2>2. OwnForks'
    BY <1>6 DEF Retry, Swap, OwnForks, TypeOK
  <2>3. ForksAccounted'
    <3> SUFFICES ASSUME NEW k \in Phils, NEW f \in Phils
                 PROVE  owner'[f] = k <=> f \in Held(k)'
      BY DEF ForksAccounted
    <3>1. fork_left[i] \in Phils /\ k # Nobody
      BY DEF TypeOK, Phils, Nobody
    <3>2. owner[f] = k <=> f \in Held(k)
      BY DEF ForksAccounted
    <3>3. owner[fork_left[i]] = i
      BY <1>6, <3>1 DEF Retry, ForksAccounted, Held
    <3>4. CASE k = i
      BY <1>6, <3>1, <3>2, <3>4 DEF Retry, Drop, Held, TypeOK
    <3>5. CASE k # i
      <4>1. Held(k)' = Held(k)
        BY <1>6, <3>5 DEF Retry, Swap, Held, TypeOK
      <4> QED  BY <1>6, <3>1, <3>2, <3>3, <3>5, <4>1 DEF Retry, Drop, TypeOK
    <3> QED  BY <3>4, <3>5
  <2>4. FailedTry'
    BY <1>6 DEF Retry, FailedTry, TypeOK
  <2>5. InOrder'
    BY <1>6 DEF Retry, InOrder, Ended, TypeOK
  <2> QED  BY <1>s, <2>1, <2>2, <2>3, <2>4, <2>5
<1>7. CASE PutRight(i)
  <2>1. TypeOK'
    BY <1>7 DEF PutRight, Drop, TypeOK, Points
  <2>2. OwnForks'
    BY <1>7 DEF PutRight, OwnForks
  <2>3. ForksAccounted'
    <3> SUFFICES ASSUME NEW k \in Phils, NEW f \in Phils
                 PROVE  owner'[f] = k <=> f \in Held(k)'
      BY DEF ForksAccounted
    <3>1. fork_left[i] \in Phils /\ fork_right[i] \in Phils /\ k # Nobody
      BY DEF TypeOK, Phils, Nobody
    <3>2. owner[f] = k <=> f \in Held(k)
      BY DEF ForksAccounted
    <3>3. owner[fork_right[i]] = i
      BY <1>7, <3>1 DEF PutRight, ForksAccounted, Held
    <3>4. CASE k = i
      BY <1>7, <1>d, <3>1, <3>2, <3>4 DEF PutRight, Drop, Held, TypeOK
    <3>5. CASE k # i
      <4>1. Held(k)' = Held(k)
        BY <1>7, <3>5 DEF PutRight, Held, TypeOK
      <4> QED  BY <1>7, <3>1, <3>2, <3>3, <3>5, <4>1 DEF PutRight, Drop, TypeOK
    <3> QED  BY <3>4, <3>5
  <2>4. FailedTry'
    BY <1>7 DEF PutRight, FailedTry, TypeOK
  <2>5. InOrder'
    BY <1>7 DEF PutRight, InOrder, Ended, TypeOK
  <2> QED  BY <1>s, <2>1, <2>2, <2>3, <2>4, <2>5
<1>8. CASE PutLeft(i)
  <2>1. TypeOK'
    BY <1>8 DEF PutLeft, Drop, TypeOK, Points
  <2>2. OwnForks'
    BY <1>8 DEF PutLeft, OwnForks
  <2>3. ForksAccounted'
    <3> SUFFICES ASSUME NEW k \in Phils, NEW f \in Phils
                 PROVE  owner'[f] = k <=> f \in Held(k)'
      BY DEF ForksAccounted
    <3>1. fork_left[i] \in Phils /\ k # Nobody
      BY DEF TypeOK, Phils, Nobody
    <3>2. owner[f] = k <=> f \in Held(k)
      BY DEF ForksAccounted
    <3>3. owner[fork_left[i]] = i
      BY <1>8, <3>1 DEF PutLeft, ForksAccounted, Held
    <3>4. CASE k = i
      BY <1>8, <3>1, <3>2, <3>4 DEF PutLeft, Drop, Held, TypeOK
    <3>5. CASE k # i
      <4>1. Held(k)' = Held(k)
        BY <1>8, <3>5 DEF PutLeft, Held, TypeOK
      <4> QED  BY <1>8, <3>1, <3>2, <3>3, <3>5, <4>1 DEF PutLeft, Drop, TypeOK
    <3> QED  BY <3>4, <3>5
  <2>4. FailedTry'
    BY <1>8 DEF PutLeft, FailedTry, TypeOK
  <2>5. InOrder'
    BY <1>8 DEF PutLeft, InOrder, Ended, TypeOK
  <2> QED  BY <1>s, <2>1, <2>2, <2>3, <2>4, <2>5
<1> QED  BY <1>1, <1>2, <1>3, <1>4, <1>5, <1>6, <1>7, <1>8 DEF Philosopher

LEMMA MainStep ==
  ASSUME IInv, Main
  PROVE  IInv'
<1> USE NAssumption DEF IInv
<1>1. CASE Create
  <2>1. created \in Phils /\ pc[created] = "none" /\ created + 1 \in 0 .. N
    BY <1>1 DEF Create, TypeOK, InOrder, Phils
  <2>2. PICK start \in {"loop", "failed"} : pc' = [pc EXCEPT ![created] = start]
    BY <1>1 DEF Create
  <2>3. TypeOK'
    BY <1>1, <2>1, <2>2 DEF Create, TypeOK, Points
  <2>4. OwnForks' /\ SwappedPerTry' /\ FailedTry'
    BY <1>1, <2>1, <2>2 DEF Create, OwnForks, SwappedPerTry, FailedTry, TypeOK
  <2>5. ForksAccounted'
    <3>1. \A i \in Phils : Held(i)' = Held(i)
      BY <1>1, <2>1, <2>2 DEF Create, Held, TypeOK
    <3> QED  BY <1>1, <3>1 DEF Create, ForksAccounted
  <2>6. InOrder'
    <3> SUFFICES ASSUME NEW i \in Phils
                 PROVE  /\ i >= created + 1 => pc'[i] = "none"
                        /\ i < joined => pc'[i] \in {"exit", "failed"}
      BY <1>1 DEF Create, InOrder, Ended
    <3>1. /\ i >= created => pc[i] = "none"
          /\ i < joined => pc[i] \in {"exit", "failed"}
      BY DEF InOrder, Ended
    <3>2. CASE i = created
      <4>1. ~(i >= created + 1) /\ ~(i < joined)
        BY <2>1, <3>1, <3>2 DEF Phils
      <4> QED  BY <4>1
    <3>3. CASE i # created
      <4>1. pc'[i] = pc[i]
        BY <2>1, <2>2, <3>3 DEF TypeOK
      <4>2. i >= created + 1 => i >= created
        BY <2>1 DEF Phils
      <4> QED  BY <3>1, <4>1, <4>2
    <3> QED  BY <3>2, <3>3
  <2> QED  BY <2>3, <2>4, <2>5, <2>6
<1>2. CASE StopAll
  BY <1>2 DEF StopAll, TypeOK, OwnForks, SwappedPerTry, FailedTry, ForksAccounted, Held, InOrder, Ended
<1>3. CASE Join
  <2>1. TypeOK'
    BY <1>3 DEF Join, TypeOK
  <2>2. OwnForks' /\ SwappedPerTry' /\ FailedTry' /\ ForksAccounted'
    BY <1>3 DEF Join, OwnForks, SwappedPerTry, FailedTry, ForksAccounted, Held
  <2>3. InOrder'
    <3> SUFFICES ASSUME NEW i \in Phils
                 PROVE  /\ i >= created => pc[i] = "none"
                        /\ i < joined + 1 => pc[i] \in {"exit", "failed"}
      BY <1>3 DEF Join, InOrder, Ended
    <3>1. /\ i >= created => pc[i] = "none"
          /\ i < joined => pc[i] \in {"exit", "failed"}
      BY DEF InOrder, Ended
    <3>2. i < joined + 1 => i < joined \/ i = joined
      BY DEF TypeOK, Phils
    <3> QED  BY <1>3, <3>1, <3>2 DEF Join
  <2> QED  BY <2>1, <2>2, <2>3
<1> QED  BY <1>1, <1>2, <1>3 DEF Main

\* However often philosophers fail and swap their forks, types, program counters,
\* forks and their owners agree.
THEOREM Invariance == Spec => []IInv
<1>1. IInv /\ [Next]_vars => IInv'
  <2> SUFFICES ASSUME IInv, [Next]_vars PROVE IInv'
    OBVIOUS
  <2>1. CASE UNCHANGED vars
    BY <2>1 DEF IInv, TypeOK, FailedTry, OwnForks, SwappedPerTry, ForksAccounted, Held,
                 InOrder, Ended, vars, mainVars
  <2> QED  BY <2>1, PhilosopherStep, MainStep DEF Next
<1> QED  BY <1>1, InitInv, PTL DEF Spec

\* The threads' state is well typed; no counter leaves its bounds.
THEOREM PhilosophersTypeCorrect == Spec => []TypeOK
<1>1. IInv => TypeOK
  BY DEF IInv
<1> QED  BY <1>1, Invariance, PTL

\* A fork is held by the philosopher that is between lock and unlock, and by
\* nobody else: PhilPhunction keeps no fork and unlocks none it has not locked.
THEOREM ForksAreAccounted == Spec => []ForksAccounted
<1>1. IInv => ForksAccounted
  BY DEF IInv
<1> QED  BY <1>1, Invariance, PTL

\* Neighbours never eat at the same time, however many philosophers there are.
THEOREM NeighboursExclude == Spec => []Exclusion
<1>1. IInv => Exclusion
  <2> SUFFICES ASSUME IInv, NEW i \in Phils, pc[i] = "eat", Left(i) # i,
                      pc[Left(i)] = "eat"
               PROVE  FALSE
    BY DEF Exclusion
  <2> DEFINE f == Left(i)
  <2>1. f \in Phils
    BY TwoForks
  <2>2. f \in Held(i) /\ f \in Held(f)
    BY <2>1 DEF IInv, OwnForks, Held, Right
  <2>3. owner[f] = i /\ owner[f] = f
    BY <2>1, <2>2 DEF IInv, ForksAccounted
  <2> QED  BY <2>3
<1> QED  BY <1>1, Invariance, PTL

-----------------------------------------------------------------------------
(***************************************************************************)
(* The only standstill is the full circle.  Philosophers that wait for a    *)
(* last fork wait for one that the philosopher before them holds, who waits *)
(* in turn: so it goes all around the table.                                *)
(***************************************************************************)
\* Induction over the natural numbers, as it is needed below: the library's
\* theorems take the formula as a parameter.
LEMMA LeastElement ==
  ASSUME NEW S \in SUBSET Nat, S # {}
  PROVE  \E n \in S : \A m \in S : n <= m
<1> DEFINE Intervals == {0 .. n : n \in S}
<1>1. Intervals \subseteq FiniteSubsetsOf(Nat) /\ Intervals # {}
  <2> SUFFICES ASSUME NEW n \in S PROVE 0 .. n \in FiniteSubsetsOf(Nat)
    OBVIOUS
  <2>1. IsFiniteSet(0 .. n)
    BY FS_Interval
  <2> QED  BY <2>1 DEF FiniteSubsetsOf
<1>2. PICK X \in Intervals :
        \A Y \in Intervals : <<Y, X>> \notin StrictSubsetOrdering(Nat)
  <2> HIDE DEF Intervals
  <2> QED  BY <1>1, FS_StrictSubsetOrderingWellFounded, WFMin
<1>3. PICK n \in S : X = 0 .. n
  OBVIOUS
<1>4. ASSUME NEW m \in S, m < n
      PROVE  FALSE
  <2>1. n \in X /\ n \notin 0 .. m
    BY <1>3, <1>4
  <2>2. 0 .. m \subseteq X /\ X \subseteq Nat
    BY <1>3, <1>4
  <2>3. <<0 .. m, X>> \in StrictSubsetOrdering(Nat)
    BY <2>1, <2>2 DEF StrictSubsetOrdering
  <2> QED  BY <1>2, <2>3
<1> QED  BY <1>4

\* A set of philosophers that has, with each, the one before it has them all.
LEMMA AroundTheTable ==
  ASSUME NEW S \in SUBSET Phils, S # {},
         \A i, k \in Phils : i \in S /\ Left(k) = i => k \in S
  PROVE  S = Phils
<1> USE NAssumption DEF Phils
<1>1. \A i \in 1 .. N - 1 : Left(i - 1) = i
  BY DEF Left
<1>2. Left(N - 1) = 0
  BY DEF Left
<1>3. 0 \in S
  <2>1. PICK n \in S : \A m \in S : n <= m
    BY LeastElement
  <2>2. CASE n # 0
    <3>1. n - 1 \in S
      BY <1>1, <2>2
    <3> QED  BY <2>1, <3>1
  <2> QED  BY <2>2
<1>4. N - 1 \in S
  BY <1>2, <1>3
<1>5. SUFFICES ASSUME Phils \ S # {} PROVE FALSE
  OBVIOUS
<1> DEFINE Below == {N - 1 - k : k \in Phils \ S}
<1>6. Below \in SUBSET Nat /\ Below # {}
  BY <1>5
<1>7. PICK n \in Below : \A m \in Below : n <= m
  <2> HIDE DEF Below
  <2> QED  BY <1>6, LeastElement
<1>8. PICK k \in Phils \ S : n = N - 1 - k
  BY <1>7
<1>9. k # N - 1
  BY <1>4, <1>8
<1>10. k + 1 \in S
  <2> SUFFICES ASSUME k + 1 \notin S PROVE FALSE
    OBVIOUS
  <2>1. k + 1 \in Phils \ S
    BY <1>9
  <2>2. N - 1 - (k + 1) \in Below
    BY <2>1
  <2> QED  BY <1>7, <1>8, <2>2
<1>11. k \in S
  BY <1>1, <1>9, <1>10
<1> QED  BY <1>8, <1>11

\* Who has a fork holds it by its program counter.
LEMMA OwnerHolds ==
  ASSUME IInv, NEW f \in Phils, owner[f] # Nobody
  PROVE  owner[f] \in Phils /\ f \in Held(owner[f])
BY DEF IInv, TypeOK, ForksAccounted

\* If nobody can go on, and somebody has not ended, all hold the fork on their
\* left and block on the other: there is no other deadlock, neither with
\* philosophers that have failed to start, nor with ones that have ended.
THEOREM OnlyTheCircleIsStuck == Spec => []StuckOnlyInCircle
<1>1. IInv => StuckOnlyInCircle
  <2> SUFFICES ASSUME IInv, \A i \in Phils : Blocked(i) \/ Ended(i),
                      \E i \in Phils : Blocked(i)
               PROVE  Circle
    BY DEF StuckOnlyInCircle
  <2> DEFINE Last(i) == pc[i] = "second" /\ tries_left[i] = 0
             S == {i \in Phils : Last(i)}
  <2>1. \A i \in Phils : /\ Last(i) => fork_left[i] = Left(i) /\ fork_right[i] = Right(i)
                         /\ fork_left[i] \in Phils /\ fork_right[i] \in Phils
    <3> SUFFICES ASSUME NEW i \in Phils
                 PROVE  /\ Last(i) => fork_left[i] = Left(i) /\ fork_right[i] = Right(i)
                        /\ fork_left[i] \in Phils /\ fork_right[i] \in Phils
      OBVIOUS
    <3>1. {fork_left[i], fork_right[i]} = {Left(i), Right(i)}
      BY DEF IInv, OwnForks
    <3>2. fork_left[i] # fork_right[i]
      BY PointersDiffer
    <3>3. Last(i) => fork_left[i] = Left(i)
      BY DEF IInv, SwappedPerTry
    <3>4. fork_left[i] \in Phils /\ fork_right[i] \in Phils
      BY DEF IInv, TypeOK
    <3> QED  BY <3>1, <3>2, <3>3, <3>4
  <2>2. \A i \in Phils, f \in Phils :
          f \in Held(i) => Last(i) /\ f = Left(i) /\ owner[Right(i)] # Nobody
    BY <2>1 DEF Held, Blocked, Ended
  <2>3. \A f \in Phils : owner[f] # Nobody => owner[f] \in S /\ Left(owner[f]) = f
    BY <2>2, OwnerHolds
  <2>4. S # {}
    <3>1. PICK i \in Phils : Blocked(i)
      OBVIOUS
    <3>2. owner[fork_left[i]] # Nobody \/ owner[fork_right[i]] # Nobody
      BY <3>1 DEF Blocked
    <3> QED  BY <2>1, <2>3, <3>2
  <2>5. ASSUME NEW i \in Phils, NEW k \in Phils, i \in S, Left(k) = i
        PROVE  k \in S
    <3>1. owner[i] # Nobody
      BY <2>1, <2>5 DEF Blocked, Ended, Right
    <3>2. owner[i] \in S /\ Left(owner[i]) = Left(k)
      BY <2>3, <2>5, <3>1
    <3>3. owner[i] = k
      BY <3>2, NAssumption DEF Left, Phils
    <3> QED  BY <3>2, <3>3
  <2>6. S = Phils
    <3> HIDE DEF S
    <3> QED  BY <2>4, <2>5, AroundTheTable DEF S
  <2> QED  BY <2>1, <2>6 DEF Circle
<1> QED  BY <1>1, Invariance, PTL

\* main returns only when all forks have been put down.
THEOREM NoForkIsKept == Spec => []ForksFreeAtEnd
<1>1. IInv => ForksFreeAtEnd
  <2> SUFFICES ASSUME IInv, joined = N, NEW f \in Phils
               PROVE  owner[f] = Nobody
    BY DEF ForksFreeAtEnd
  <2>1. \A i \in Phils : i < joined
    BY NAssumption DEF Phils
  <2>2. \A i \in Phils : Held(i) = {}
    BY <2>1 DEF IInv, InOrder, Ended, Held
  <2> QED  BY <2>2 DEF IInv, TypeOK, ForksAccounted
<1> QED  BY <1>1, Invariance, PTL

==============================================================================
