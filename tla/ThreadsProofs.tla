--------------------------- MODULE ThreadsProofs -----------------------------
(***************************************************************************)
(* Proofs about the programs of threads: that the counting programs with a  *)
(* mutex lose no increment, for any number of threads and increments, and   *)
(* that the shared linked list is changed by whole operations only and      *)
(* loses no node, for any number of threads, calls and nodes.               *)
(***************************************************************************)
EXTENDS Counters, SharedList, FiniteSetTheorems, SequenceTheorems, WellFoundedInduction,
        TLAPS

-----------------------------------------------------------------------------
(***************************************************************************)
(* The counting programs.                                                   *)
(***************************************************************************)
CountInv == CountersTypeOK /\ FreshRegister

LEMMA CountInit == CountersInit => CountInv
  BY DEF CountersInit, CountInv, CountersTypeOK, FreshRegister, Programs, Points

\* Only one thread is between lock and unlock, so that nobody writes the
\* counter between its load and its store.
LEMMA CountNext == CountInv /\ [CountersNext]_countersVars => CountInv'
<1> SUFFICES ASSUME CountInv, [CountersNext]_countersVars PROVE CountInv'
  OBVIOUS
<1> USE DEF CountInv, CountersTypeOK, Programs, Points
<1>1. ASSUME NEW t \in Threads, Lock(t) PROVE CountInv'
  BY <1>1 DEF Lock, Go, FreshRegister
<1>2. ASSUME NEW t \in Threads, Load(t) PROVE CountInv'
  BY <1>2 DEF Load, Go, FreshRegister
<1>3. ASSUME NEW t \in Threads, Store(t) PROVE CountInv'
  <2>1. Following(i[t] + 1) \in Points
    BY <1>3 DEF Following
  <2>2. i'[t] = i[t] + 1
    BY <1>3 DEF Store
  <2>3. CountersTypeOK'
    BY <1>3, <2>1, <2>2 DEF Store, Go
  <2>4. ASSUME program # "no_locks", NEW u \in Threads
        PROVE  /\ at'[u] \in {"load", "store", "unlock"} => mutex' = {u}
               /\ at'[u] = "store" => register'[u] = counter'
    <3>1. mutex = {t} /\ mutex' = mutex /\ program' = program
      BY <1>3, <2>4 DEF Store, FreshRegister
    <3>2. CASE u = t
      <4>1. at'[t] # "store"
        BY <1>3, <2>2 DEF Store, Go, Following
      <4> QED  BY <3>1, <3>2, <4>1
    <3>3. CASE u # t
      <4>1. at'[u] = at[u] /\ mutex # {u}
        BY <1>3, <3>1, <3>3 DEF Store, Go
      <4> QED  BY <2>4, <3>1, <4>1 DEF FreshRegister
    <3> QED  BY <3>2, <3>3
  <2> QED  BY <1>3, <2>3, <2>4 DEF FreshRegister, Store
<1>4. ASSUME NEW t \in Threads, Unlock(t) PROVE CountInv'
  BY <1>4 DEF Unlock, Go, FreshRegister
<1>5. CASE Join
  BY <1>5 DEF Join, FreshRegister
<1>6. CASE UNCHANGED countersVars
  BY <1>6 DEF countersVars, FreshRegister
<1> QED  BY <1>1, <1>2, <1>3, <1>4, <1>5, <1>6 DEF CountersNext, thread_routine

\* The types of the counting programs' state.
THEOREM CountersTypeCorrect == CountersSpec => []CountersTypeOK
<1>1. CountInv => CountersTypeOK
  BY DEF CountInv
<1> QED  BY CountInit, CountNext, <1>1, PTL DEF CountersSpec

\* The value a thread has loaded under the mutex is the counter's until it
\* stores its own.
THEOREM RegistersAreFresh == CountersSpec => []FreshRegister
<1>1. CountInv => FreshRegister
  BY DEF CountInv
<1> QED  BY CountInit, CountNext, <1>1, PTL DEF CountersSpec

LEMMA StepLosesNothing ==
  CountInv /\ [CountersNext]_countersVars =>
    [program # "no_locks" =>
       counter' = IF i' = i THEN counter ELSE counter + 1]_countersVars
<1> SUFFICES ASSUME CountInv, CountersNext, program # "no_locks"
             PROVE  counter' = IF i' = i THEN counter ELSE counter + 1
  BY DEF countersVars
<1>1. ASSUME NEW t \in Threads, Store(t)
      PROVE  counter' = counter + 1 /\ i' # i
  <2>1. counter' = counter + 1
    BY <1>1 DEF CountInv, FreshRegister, Store
  <2>2. i'[t] # i[t]
    BY <1>1 DEF CountInv, CountersTypeOK, Store
  <2> QED  BY <2>1, <2>2
<1>2. ASSUME NEW t \in Threads, Lock(t) \/ Load(t) \/ Unlock(t)
      PROVE  counter' = counter /\ i' = i
  BY <1>2 DEF Lock, Load, Unlock
<1>3. CASE Join
  BY <1>3 DEF Join
<1> QED  BY <1>1, <1>2, <1>3 DEF CountersNext, thread_routine

\* With a mutex around the increment or the loop, every increment counts.
THEOREM NothingIsLost == CountersSpec => NoIncrementLost
<1> QED  BY CountInit, CountNext, StepLosesNothing, PTL DEF CountersSpec, NoIncrementLost

-----------------------------------------------------------------------------
(***************************************************************************)
(* The number that main prints.                                             *)
(***************************************************************************)

\* The increments that have been made: the n-th of each thread.
Increments == Threads \X (1 .. Times)
Made == {p \in Increments : p[2] <= i[p[1]]}

\* A thread that is not through its loop has increments to make, and one that
\* has left it has made them all.
LoopInv == \A t \in Threads :
  /\ i[t] <= Times
  /\ at[t] \in {"lock", "load", "store"} => i[t] < Times
  /\ at[t] = "exit" => i[t] = Times

\* Nobody has seen a number above that of the increments made; with a mutex it
\* is the number.
NumberInv ==
  /\ counter <= Cardinality(Made)
  /\ \A t \in Threads : register[t] <= Cardinality(Made)
  /\ program # "no_locks" => counter = Cardinality(Made)

\* After an increment the counter is not zero again, and a thread that has made
\* one has not loaded a zero since.  So a one can only have been written by a
\* thread's first increment, and that thread has others to make, if it is to
\* make more than one.
AboveOne ==
  /\ \A t \in Threads : i[t] >= 1 => counter >= 1
  /\ \A t \in Threads : i[t] >= 1 /\ at[t] = "store" => register[t] >= 1
  /\ \/ counter >= 2
     \/ \A t \in Threads : i[t] = 0
     \/ \E t \in Threads : i[t] = 1

\* main prints the counter when nobody changes it any more.
PrintInv == count # -1 => count = counter /\ \A t \in Threads : at[t] = "exit"

PrintedInv == CountInv /\ LoopInv /\ NumberInv /\ AboveOne /\ PrintInv

LEMMA MadeFinite ==
  ASSUME Sized
  PROVE  IsFiniteSet(Increments) /\ Cardinality(Increments) = Cardinality(Threads) * Times
<1>1. IsFiniteSet(1 .. Times) /\ Cardinality(1 .. Times) = Times
  BY FS_Interval DEF Sized
<1> QED  BY <1>1, FS_Product DEF Sized, Increments

LEMMA MadeCounted ==
  ASSUME Sized
  PROVE  /\ IsFiniteSet(Made) /\ Cardinality(Made) \in Nat
         /\ Cardinality(Made) <= Cardinality(Threads) * Times
<1>1. Made \in SUBSET Increments
  BY DEF Made
<1> QED  BY <1>1, MadeFinite, FS_Subset, FS_CardinalityType

LEMMA PrintedInit == Sized /\ CountersInit => PrintedInv
<1> SUFFICES ASSUME Sized, CountersInit PROVE PrintedInv
  OBVIOUS
<1>1. LoopInv /\ AboveOne /\ PrintInv
  BY DEF CountersInit, Sized, LoopInv, AboveOne, PrintInv
<1>2. Made = {}
  BY DEF CountersInit, Made, Increments
<1>3. NumberInv
  BY <1>2, FS_EmptySet DEF CountersInit, NumberInv
<1> QED  BY <1>1, <1>3, CountInit DEF PrintedInv

\* A store makes one increment, the thread's next one.
LEMMA StoreMakesOne ==
  ASSUME Sized, PrintedInv, NEW t \in Threads, Store(t)
  PROVE  /\ Cardinality(Made') = Cardinality(Made) + 1
         /\ i' = [i EXCEPT ![t] = i[t] + 1]
<1> USE DEF PrintedInv, CountInv, CountersTypeOK
<1>1. i' = [i EXCEPT ![t] = i[t] + 1] /\ i[t] < Times
  BY DEF Store, LoopInv
<1>2. Made' = Made \cup {<<t, i[t] + 1>>}
  BY <1>1 DEF Sized, Made, Increments
<1>3. <<t, i[t] + 1>> \notin Made
  BY DEF Made
<1> QED  BY <1>1, <1>2, <1>3, MadeCounted, FS_AddElement

LEMMA StorePrinted ==
  ASSUME Sized, PrintedInv, NEW t \in Threads, Store(t)
  PROVE  LoopInv' /\ NumberInv' /\ AboveOne' /\ PrintInv'
<1> USE DEF PrintedInv, CountInv, CountersTypeOK
<1>1. i' = [i EXCEPT ![t] = i[t] + 1] /\ counter' = register[t] + 1 /\ register' = register
  BY StoreMakesOne DEF Store
<1>2. at' = [at EXCEPT ![t] = Following(i[t] + 1)] /\ at[t] = "store" /\ program' = program
  BY <1>1 DEF Store, Go
<1>3. LoopInv'
  <2>1. i[t] < Times /\ i[t] \in Nat /\ Times \in Nat
    BY <1>2 DEF LoopInv, Sized
  <2>2. i'[t] <= Times /\ (at'[t] = "load" => i'[t] < Times) /\ (at'[t] = "exit" => i'[t] = Times)
        /\ at'[t] \in {"load", "exit", "unlock"}
    <3>1. i'[t] = i[t] + 1 /\ at'[t] = Following(i[t] + 1)
      BY <1>1, <1>2
    <3>2. CASE program # "locks" /\ i[t] + 1 < Times
      BY <2>1, <3>1, <3>2 DEF Following
    <3>3. CASE program # "locks" /\ ~(i[t] + 1 < Times)
      BY <2>1, <3>1, <3>3 DEF Following
    <3>4. CASE program = "locks"
      BY <2>1, <3>1, <3>4 DEF Following
    <3> QED  BY <3>2, <3>3, <3>4
  <2>3. \A u \in Threads \ {t} : at'[u] = at[u] /\ i'[u] = i[u]
    BY <1>1, <1>2
  <2> QED  BY <2>2, <2>3 DEF LoopInv
<1>4. NumberInv'
  <2>1. Cardinality(Made') = Cardinality(Made) + 1 /\ Cardinality(Made) \in Nat
    BY StoreMakesOne, MadeCounted
  <2>2. program # "no_locks" => register[t] = counter
    BY <1>2 DEF FreshRegister
  <2> QED  BY <1>1, <1>2, <2>1, <2>2 DEF NumberInv
<1>5. AboveOne'
  <2>1. \A u \in Threads \ {t} : at'[u] = at[u] /\ i'[u] = i[u]
    BY <1>1, <1>2
  <2>2. at'[t] # "store"
    BY <1>2 DEF Following
  <2>3. counter' >= 1 /\ (i[t] = 0 \/ counter' >= 2)
    BY <1>1, <1>2 DEF AboveOne
  <2>4. i[t] = 0 => i'[t] = 1
    BY <1>1
  <2> QED  BY <1>1, <2>1, <2>2, <2>3, <2>4 DEF AboveOne
<1>6. PrintInv'
  BY <1>2 DEF PrintInv, Store
<1> QED  BY <1>3, <1>4, <1>5, <1>6

LEMMA PrintedNext == Sized /\ PrintedInv /\ [CountersNext]_countersVars => PrintedInv'
<1> SUFFICES ASSUME Sized, PrintedInv, [CountersNext]_countersVars PROVE PrintedInv'
  OBVIOUS
<1>1. CountInv'
  BY CountNext DEF PrintedInv
<1> USE DEF PrintedInv, CountInv, CountersTypeOK
<1>2. ASSUME UNCHANGED <<program, counter, i, register, count>>,
             ASSUME NEW u \in Threads
             PROVE  /\ at'[u] = at[u] \/ at[u] # "exit"
                    /\ at'[u] = "store" => at[u] = "store"
                    /\ at'[u] \in {"lock", "load", "store"} => i[u] < Times
                    /\ at'[u] = "exit" => i[u] = Times
      PROVE  PrintedInv'
  <2>1. Made' = Made
    BY <1>2 DEF Made
  <2>2. LoopInv' /\ PrintInv'
    BY <1>2 DEF LoopInv, PrintInv
  <2>3. NumberInv' /\ AboveOne'
    BY <1>2, <2>1 DEF NumberInv, AboveOne
  <2> QED  BY <1>1, <2>2, <2>3
<1>3. ASSUME NEW t \in Threads, Lock(t) PROVE PrintedInv'
  BY <1>2, <1>3 DEF Lock, Go, LoopInv
<1>4. ASSUME NEW t \in Threads, Load(t) PROVE PrintedInv'
  <2>1. Made' = Made /\ at[t] = "load" /\ at' = [at EXCEPT ![t] = "store"]
    BY <1>4 DEF Load, Go, Made
  <2>2. LoopInv' /\ PrintInv'
    BY <1>4, <2>1 DEF Load, LoopInv, PrintInv
  <2>3. register' = [register EXCEPT ![t] = counter]
    BY <1>4 DEF Load
  <2>4. NumberInv' /\ AboveOne'
    BY <1>4, <2>1, <2>3 DEF Load, NumberInv, AboveOne
  <2> QED  BY <1>1, <2>2, <2>4
<1>5. ASSUME NEW t \in Threads, Store(t) PROVE PrintedInv'
  BY <1>1, <1>5, StorePrinted
<1>6. ASSUME NEW t \in Threads, Unlock(t) PROVE PrintedInv'
  <2>1. i[t] <= Times /\ i[t] \in Nat /\ Times \in Nat
    BY DEF LoopInv, Sized
  <2>2. at[t] = "unlock" /\ at' = [at EXCEPT ![t] = IF i[t] < Times THEN "lock" ELSE "exit"]
    BY <1>6 DEF Unlock, Go
  <2>3. UNCHANGED <<program, counter, i, register, count>>
    BY <1>6 DEF Unlock
  <2>4. ASSUME NEW u \in Threads
        PROVE  /\ at'[u] = at[u] \/ at[u] # "exit"
               /\ at'[u] = "store" => at[u] = "store"
               /\ at'[u] \in {"lock", "load", "store"} => i[u] < Times
               /\ at'[u] = "exit" => i[u] = Times
    <3>1. CASE u = t
      BY <2>1, <2>2, <3>1
    <3>2. CASE u # t
      BY <2>2, <3>2 DEF LoopInv
    <3> QED  BY <3>1, <3>2
  <2> QED  BY <1>2, <2>3, <2>4
<1>7. CASE Join
  <2>1. UNCHANGED <<program, counter, mutex, at, i, register>> /\ count' = counter
        /\ \A t \in Threads : at[t] = "exit"
    BY <1>7 DEF Join
  <2>2. Made' = Made
    BY <2>1 DEF Made
  <2>3. LoopInv' /\ NumberInv' /\ AboveOne' /\ PrintInv'
    BY <2>1, <2>2 DEF LoopInv, NumberInv, AboveOne, PrintInv
  <2> QED  BY <1>1, <2>3
<1>8. CASE UNCHANGED countersVars
  BY <1>2, <1>8 DEF countersVars, LoopInv
<1> QED  BY <1>3, <1>4, <1>5, <1>6, <1>7, <1>8 DEF CountersNext, thread_routine

\* With a mutex main prints the exact number, without one never more, and never
\* less than two if there are two threads that increment twice: for any number
\* of threads and of increments.
THEOREM CountIsInBounds == Sized => (CountersSpec => []CountInBounds)
<1> SUFFICES ASSUME Sized PROVE CountersSpec => []CountInBounds
  OBVIOUS
<1>1. CountersInit => PrintedInv
  BY PrintedInit
<1>2. PrintedInv /\ [CountersNext]_countersVars => PrintedInv'
  BY PrintedNext
<1>3. PrintedInv => CountInBounds
  <2> SUFFICES ASSUME PrintedInv, count # -1 PROVE CountInBounds
    BY DEF CountInBounds
  <2>1. count = counter /\ \A t \in Threads : i[t] = Times
    BY DEF PrintedInv, PrintInv, LoopInv
  <2>2. Made = Increments
    BY <2>1 DEF Made, Increments, Sized
  <2>3. counter <= Cardinality(Threads) * Times
        /\ (program # "no_locks" => counter = Cardinality(Threads) * Times)
    BY <2>2, MadeFinite DEF PrintedInv, NumberInv
  <2>4. ASSUME Cardinality(Threads) > 1, Times > 1
        PROVE  counter >= 2
    <3>1. Threads # {}
      BY <2>4, FS_EmptySet
    <3>2. \A t \in Threads : i[t] # 0 /\ i[t] # 1
      BY <2>1, <2>4 DEF Sized
    <3> QED  BY <3>1, <3>2 DEF PrintedInv, AboveOne
  <2> QED  BY <2>1, <2>3, <2>4 DEF CountInBounds
<1> QED  BY <1>1, <1>2, <1>3, PTL DEF CountersSpec

-----------------------------------------------------------------------------
(***************************************************************************)
(* The list: chains of pointers.                                            *)
(***************************************************************************)
\* A set of numbers has a least one: among the intervals from 0 to its members,
\* which are finite sets, one has no other below it.
LEMMA LeastElement ==
  ASSUME NEW S \in SUBSET Nat, S # {}
  PROVE  \E n \in S : \A m \in S : n <= m
<1> DEFINE Intervals == {0 .. n : n \in S}
<1>1. Intervals \subseteq FiniteSubsetsOf(Nat) /\ Intervals # {}
  <2> SUFFICES ASSUME NEW n \in S PROVE 0 .. n \in FiniteSubsetsOf(Nat)
    OBVIOUS
  <2>1. IsFiniteSet(0 .. n)
    BY FS_Interval
  <2> QED  BY <2>1 DEF FiniteSubsetsOf
<1>2. PICK X \in Intervals :
        \A Y \in Intervals : <<Y, X>> \notin StrictSubsetOrdering(Nat)
  <2> HIDE DEF Intervals
  <2> QED  BY <1>1, FS_StrictSubsetOrderingWellFounded, WFMin
<1>3. PICK n \in S : X = 0 .. n
  OBVIOUS
<1>4. ASSUME NEW m \in S, m < n
      PROVE  FALSE
  <2>1. n \in X /\ n \notin 0 .. m
    BY <1>3, <1>4
  <2>2. 0 .. m \subseteq X /\ X \subseteq Nat
    BY <1>3, <1>4
  <2>3. <<0 .. m, X>> \in StrictSubsetOrdering(Nat)
    BY <2>1, <2>2 DEF StrictSubsetOrdering
  <2> QED  BY <1>2, <2>3
<1> QED  BY <1>4

-----------------------------------------------------------------------------
(***************************************************************************)
(* The list that the pointers of a heap make.                               *)
(***************************************************************************)

\* s is the list in the nodes: it starts at the first, each node points to the
\* one behind it, and no node is in it twice.
IsChain(nodes, s) ==
  /\ Len(s) \in Nat \ {0} /\ s \in [1 .. Len(s) -> Nodes]
  /\ s[1] = first
  /\ \A k \in 1 .. Len(s) - 1 : nodes[s[k]].next = s[k + 1]
  /\ nodes[s[Len(s)]].next = Null
  /\ \A j, k \in 1 .. Len(s) : s[j] = s[k] => j = k

\* It is no longer than there are nodes.
LEMMA ChainFits ==
  ASSUME NEW nodes, NEW s, IsChain(nodes, s)
  PROVE  Len(s) <= MaxNodes
<1>1. s \in Injection(1 .. Len(s), Nodes)
  BY DEF IsChain, Injection, IsInjective
<1>2. IsFiniteSet(Nodes) /\ Cardinality(Nodes) = MaxNodes
  BY FS_Interval, ListAssumption DEF Nodes
<1>3. Cardinality(1 .. Len(s)) <= MaxNodes
  BY <1>1, <1>2, FS_Injection
<1>4. Cardinality(1 .. Len(s)) = Len(s)
  BY FS_Interval DEF IsChain
<1> QED  BY <1>3, <1>4

\* Following the pointers gives it.
LEMMA ChainFound ==
  ASSUME NEW nodes, NEW s, IsChain(nodes, s)
  PROVE  ChainOf(nodes) = s
<1> DEFINE Step(f, k) == IF k = 1 THEN first
                         ELSE IF f[k - 1] \notin Nodes THEN Null ELSE nodes[f[k - 1]].next
           Follows(f) == f = [k \in Nodes |-> Step(f, k)]
           node == CHOOSE f : Follows(f)
           L == Len(s)
           g == [k \in Nodes |-> IF k <= L THEN s[k] ELSE Null]
<1>0. L \in 1 .. MaxNodes /\ Nodes = 1 .. MaxNodes /\ MaxNodes \in Nat /\ Null \notin Nodes
  <2>1. Len(s) <= MaxNodes
    BY ChainFits
  <2>2. MaxNodes \in Nat \ {0}
    BY ListAssumption
  <2>3. L \in Nat \ {0}
    BY DEF IsChain
  <2> QED  BY <2>1, <2>2, <2>3 DEF Nodes, Null
<1>1. Follows(g)
  <2> SUFFICES ASSUME NEW k \in Nodes PROVE g[k] = Step(g, k)
    OBVIOUS
  <2>1. CASE k = 1
    BY <2>1, <1>0 DEF IsChain
  <2>2. CASE k # 1 /\ k <= L
    <3>1. k - 1 \in Nodes /\ k - 1 \in 1 .. L - 1 /\ g[k - 1] = s[k - 1] /\ s[k - 1] \in Nodes
      <4>1. k - 1 \in Nodes /\ k - 1 \in 1 .. L - 1 /\ k - 1 \in 1 .. L /\ k - 1 <= L
        <5> HIDE DEF g
        <5> QED  BY <2>2, <1>0
      <4>2. g[k - 1] = s[k - 1]
        BY <4>1
      <4>3. s[k - 1] \in Nodes
        <5>1. s \in [1 .. L -> Nodes]
          BY DEF IsChain
        <5> HIDE DEF g
        <5> QED  BY <4>1, <5>1
      <4> QED  BY <4>1, <4>2, <4>3
    <3>2. nodes[s[k - 1]].next = s[k]
      <4>1. nodes[s[k - 1]].next = s[(k - 1) + 1]
        BY <3>1 DEF IsChain
      <4> QED  BY <4>1, <1>0
    <3> QED  BY <2>2, <1>0, <3>1, <3>2
  <2>3. CASE k = L + 1
    <3>1. k - 1 \in Nodes /\ k - 1 = L /\ g[k - 1] = s[L] /\ s[L] \in Nodes /\ nodes[s[L]].next = Null
      BY <2>3, <1>0 DEF IsChain
    <3> QED  BY <2>3, <1>0, <3>1
  <2>4. CASE k > L + 1
    <3>1. k - 1 \in Nodes /\ g[k - 1] = Null
      BY <2>4, <1>0
    <3> QED  BY <2>4, <1>0, <3>1
  <2> QED  BY <2>1, <2>2, <2>3, <2>4, <1>0
<1>2. Follows(node)
  <2> HIDE DEF Follows, g
  <2> QED  BY <1>1
<1>3. ASSUME NEW k \in Nodes PROVE node[k] = g[k]
  <2> DEFINE Bad == {n \in Nodes : node[n] # g[n]}
  <2> SUFFICES ASSUME Bad # {} PROVE FALSE
    OBVIOUS
  <2>1. Bad \in SUBSET Nat
    BY <1>0
  <2>2. PICK n \in Bad : \A m \in Bad : n <= m
    <3> HIDE DEF Bad
    <3> QED  BY <2>1, LeastElement
  <2> HIDE DEF node, g
  <2>3. n # 1 => n - 1 \in Nodes /\ node[n - 1] = g[n - 1]
    <3> SUFFICES ASSUME n # 1 PROVE n - 1 \in Nodes /\ n - 1 \notin Bad
      OBVIOUS
    <3> QED  BY <1>0, <2>1, <2>2
  <2>4. node[n] = Step(node, n) /\ g[n] = Step(g, n)
    BY <1>1, <1>2
  <2> QED  BY <2>3, <2>4
<1>4. node = g
  <2>1. node = [k \in Nodes |-> Step(node, k)]
    BY <1>2
  <2>2. \A k \in Nodes : Step(node, k) = g[k]
    BY <1>2, <1>3
  <2> QED  BY <2>1, <2>2
<1>5. {k \in Nodes : g[k] \in Nodes} = 1 .. L
  <2>1. \A k \in 1 .. L : s[k] \in Nodes
    BY <1>0 DEF IsChain
  <2> QED  BY <1>0, <2>1
<1>6. Cardinality({k \in Nodes : g[k] \in Nodes}) = L
  <2>1. Cardinality(1 .. L) = L
    BY <1>0, FS_Interval
  <2> QED  BY <1>5, <2>1
<1>7. SubSeq(g, 1, L) = s
  <2>1. SubSeq(g, 1, L) = [k \in 1 .. L |-> g[k]]
    BY <1>0
  <2> QED  BY <1>0, <2>1 DEF IsChain
<1>8. ChainOf(nodes) = SubSeq(node, 1, Cardinality({k \in Nodes : node[k] \in Nodes}))
  BY DEF ChainOf
<1> HIDE DEF g, node
<1> QED  BY <1>4, <1>6, <1>7, <1>8

\* Following the pointers gives nodes, even when they do not make a list: first
\* that there is such a sequence, then that it stops where the pointers do.
LEMMA Followed ==
  ASSUME NEW nodes
  PROVE  \E f : f = [k \in Nodes |-> IF k = 1 THEN first
                                     ELSE IF f[k - 1] \notin Nodes THEN Null ELSE nodes[f[k - 1]].next]
<1> DEFINE Step(f, k) == IF k = 1 THEN first
                         ELSE IF f[k - 1] \notin Nodes THEN Null ELSE nodes[f[k - 1]].next
           Upto(n, f) == f = [k \in 1 .. n |-> Step(f, k)]
           Bad == {n \in 0 .. MaxNodes : ~\E f : Upto(n, f)}
<1>0. MaxNodes \in Nat
  BY ListAssumption
<1>1. ASSUME Bad # {} PROVE FALSE
  <2>1. Bad \in SUBSET Nat
    BY <1>0
  <2>2. PICK n \in Bad : \A m \in Bad : n <= m
    <3> HIDE DEF Bad
    <3> QED  BY <1>1, <2>1, LeastElement
  <2>3. n # 0
    <3>1. 1 .. 0 = {}
      OBVIOUS
    <3> DEFINE none == [k \in {} |-> first]
    <3>2. none = [k \in 1 .. 0 |-> Step(none, k)]
      BY <3>1
    <3>3. Upto(0, none)
      BY <3>2
    <3> QED  BY <3>3
  <2>4. n - 1 \in 0 .. MaxNodes /\ n - 1 \notin Bad /\ n \in 1 .. MaxNodes
    <3>1. n \in 0 .. MaxNodes
      BY <2>2
    <3>2. n - 1 \in 0 .. MaxNodes /\ ~(n <= n - 1) /\ n \in 1 .. MaxNodes
      BY <1>0, <2>3, <3>1
    <3> HIDE DEF Bad
    <3> QED  BY <2>2, <3>2
  <2>5. PICK f : Upto(n - 1, f)
    BY <2>4
  <2> DEFINE g == [k \in 1 .. n |-> IF k = n THEN Step(f, n) ELSE f[k]]
  <2>6. ASSUME NEW k \in 1 .. n PROVE g[k] = Step(g, k)
    <3>1. Step(g, k) = Step(f, k)
      <4>1. k # 1 => g[k - 1] = f[k - 1]
        BY <2>4
      <4> QED  BY <4>1
    <3>2. k # n => k \in 1 .. n - 1 /\ f[k] = Step(f, k)
      <4>1. k # n => k \in 1 .. n - 1
        BY <2>4
      <4> HIDE DEF Step
      <4> QED  BY <4>1, <2>5
    <3> HIDE DEF Step
    <3> QED  BY <3>1, <3>2
  <2>7. g = [k \in 1 .. n |-> Step(g, k)]
    <3>1. \A k \in 1 .. n : g[k] = Step(g, k)
      BY <2>6
    <3>2. g = [k \in 1 .. n |-> g[k]]
      OBVIOUS
    <3> HIDE DEF g, Step
    <3> QED  BY <3>1, <3>2
  <2>8. Upto(n, g)
    BY <2>7
  <2> HIDE DEF g, Upto
  <2> QED  BY <2>2, <2>8
<1>2. \E f : Upto(MaxNodes, f)
  <2>1. MaxNodes \in 0 .. MaxNodes
    BY <1>0
  <2> HIDE DEF Upto
  <2> QED  BY <1>1, <2>1
<1> QED  BY <1>2 DEF Nodes

LEMMA LinkedAreNodes == Linked \subseteq Nodes
<1> DEFINE Step(f, k) == IF k = 1 THEN first
                         ELSE IF f[k - 1] \notin Nodes THEN Null ELSE heap[f[k - 1]].next
           Follows(f) == f = [k \in Nodes |-> Step(f, k)]
           node == CHOOSE f : Follows(f)
           In == {k \in Nodes : node[k] \in Nodes}
           Out == {k \in Nodes : node[k] \notin Nodes}
<1>0. MaxNodes \in Nat \ {0} /\ Nodes = 1 .. MaxNodes /\ Null \notin Nodes
  BY ListAssumption DEF Nodes, Null
<1>1. Follows(node)
  <2>1. \E f : Follows(f)
    BY Followed
  <2> HIDE DEF Follows
  <2> QED  BY <2>1
<1>2. \A k \in Nodes : node[k] = Step(node, k)
  <2> HIDE DEF node, Step
  <2> QED  BY <1>1
<1> HIDE DEF node
<1>3. \E m \in 0 .. MaxNodes : In = 1 .. m
  <2>1. CASE Out = {}
    BY <2>1, <1>0
  <2>2. CASE Out # {}
    <3>1. Out \in SUBSET Nat
      BY <1>0
    <3>2. PICK n \in Out : \A m \in Out : n <= m
      <4> HIDE DEF Out
      <4> QED  BY <2>2, <3>1, LeastElement
    <3> DEFINE Late == {k \in In : k > n}
    <3>3. ASSUME Late # {} PROVE FALSE
      <4>1. Late \in SUBSET Nat
        BY <1>0
      <4>2. PICK l \in Late : \A m \in Late : l <= m
        <5> HIDE DEF Late
        <5> QED  BY <3>3, <4>1, LeastElement
      <4>3. l \in Nodes /\ l > n /\ n \in Nodes /\ n >= 1 /\ l # 1 /\ l - 1 \in Nodes
        BY <1>0, <4>2
      <4>4. node[l - 1] \notin Nodes
        <5>1. CASE l - 1 = n
          BY <5>1
        <5>2. CASE l - 1 # n
          <6>1. l - 1 > n /\ ~(l <= l - 1)
            BY <1>0, <4>3, <5>2
          <6>2. l - 1 \notin Late
            BY <4>2, <6>1
          <6> QED  BY <4>3, <6>1, <6>2
        <5> QED  BY <5>1, <5>2
      <4>5. node[l] = Null
        BY <1>2, <4>3, <4>4
      <4> QED  BY <1>0, <4>2, <4>5
    <3>4. In = 1 .. n - 1
      <4>1. ASSUME NEW k \in In PROVE k \in 1 .. n - 1
        <5>1. k \in Nodes /\ ~(k > n) /\ k # n
          BY <3>3
        <5> QED  BY <1>0, <5>1
      <4>2. ASSUME NEW k \in 1 .. n - 1 PROVE k \in In
        <5>1. k \in Nodes /\ ~(n <= k)
          BY <1>0
        <5> QED  BY <3>2, <5>1
      <4> QED  BY <4>1, <4>2
    <3>5. n - 1 \in 0 .. MaxNodes
      BY <1>0
    <3> QED  BY <3>4, <3>5
  <2> QED  BY <2>1, <2>2
<1>4. PICK m \in 0 .. MaxNodes : In = 1 .. m
  BY <1>3
<1>5. Cardinality(In) = m
  <2> HIDE DEF In
  <2> QED  BY <1>0, <1>4, FS_Interval
<1>6. chain = SubSeq(node, 1, m)
  <2>1. chain = SubSeq(node, 1, Cardinality(In))
    BY DEF chain, ChainOf, node
  <2> QED  BY <1>5, <2>1
<1>7. SubSeq(node, 1, m) = [k \in 1 .. m |-> node[k]]
  BY <1>0
<1>8. Linked = {node[k] : k \in 1 .. m}
  <2>1. chain = [k \in 1 .. m |-> node[k]]
    BY <1>6, <1>7
  <2> QED  BY <2>1 DEF Linked, ToSet
<1> QED  BY <1>4, <1>8

\* A change elsewhere leaves it as it is.
LEMMA ChainKept ==
  ASSUME NEW nodes, NEW changed, NEW s, IsChain(nodes, s),
         \A k \in 1 .. Len(s) : changed[s[k]].next = nodes[s[k]].next
  PROVE  IsChain(changed, s)
<1>1. \A k \in 1 .. Len(s) - 1 : k \in 1 .. Len(s)
  BY DEF IsChain
<1>2. Len(s) \in 1 .. Len(s)
  BY DEF IsChain
<1> QED  BY <1>1, <1>2 DEF IsChain

\* What InsertAt and RemoveFirst make of a sequence.
LEMMA Inserted ==
  ASSUME NEW s, Len(s) \in Nat \ {0}, s \in [1 .. Len(s) -> Nodes],
         NEW p \in 1 .. Len(s), NEW new \in Nodes
  PROVE  LET r == InsertAt(s, p + 1, new) IN
         /\ Len(r) = Len(s) + 1 /\ r \in [1 .. Len(s) + 1 -> Nodes]
         /\ \A k \in 1 .. Len(s) + 1 :
              r[k] = IF k <= p THEN s[k] ELSE IF k = p + 1 THEN new ELSE s[k - 1]
<1> DEFINE front == SubSeq(s, 1, p)
           back == SubSeq(s, p + 1, Len(s))
           r == InsertAt(s, p + 1, new)
<1>1. s \in Seq(Nodes)
  BY IsASeq
<1>2. front \in Seq(Nodes) /\ Len(front) = p /\ \A k \in 1 .. p : front[k] = s[k]
  BY <1>1
<1>3. back \in Seq(Nodes) /\ Len(back) = Len(s) - p /\ \A k \in 1 .. Len(s) - p : back[k] = s[p + k]
  <2> DEFINE m == p + 1  n == Len(s)
  <2>0. m \in Int /\ n \in Int /\ \A j \in m .. n : s[j] \in Nodes
    OBVIOUS
  <2>1. /\ SubSeq(s, m, n) \in Seq(Nodes)
        /\ Len(SubSeq(s, m, n)) = IF m <= n THEN n - m + 1 ELSE 0
        /\ \A j \in 1 .. n - m + 1 : SubSeq(s, m, n)[j] = s[m + j - 1]
    <3> HIDE DEF m, n
    <3> QED  BY <2>0, SubSeqProperties
  <2>2. n - m + 1 = n - p /\ \A k \in 1 .. n - p : m + k - 1 = p + k
    OBVIOUS
  <2>3. (IF m <= n THEN n - m + 1 ELSE 0) = n - p
    <3>1. p \in Int /\ n \in Int /\ m = p + 1 /\ p <= n
      OBVIOUS
    <3> HIDE DEF m, n
    <3> QED  BY <3>1
  <2>4. ASSUME NEW k \in 1 .. n - p PROVE back[k] = s[p + k]
    <3>1. k \in 1 .. n - m + 1 /\ m + k - 1 = p + k
      BY <2>2
    <3>2. SubSeq(s, m, n)[k] = s[m + k - 1]
      BY <2>1, <3>1
    <3> QED  BY <3>1, <3>2
  <2> QED  BY <2>1, <2>3, <2>4
<1>4. r = front \o <<new>> \o back
  <2>1. (p + 1) - 1 = p
    OBVIOUS
  <2> QED  BY <2>1 DEF InsertAt
<1> HIDE DEF front, back, r
<1>5. r \in Seq(Nodes) /\ Len(r) = Len(s) + 1
  BY <1>2, <1>3, <1>4
<1>6. ASSUME NEW k \in 1 .. Len(s) + 1
      PROVE  r[k] = IF k <= p THEN s[k] ELSE IF k = p + 1 THEN new ELSE s[k - 1]
  <2>1. CASE k <= p
    BY <2>1, <1>2, <1>3, <1>4
  <2>2. CASE k = p + 1
    BY <2>2, <1>2, <1>3, <1>4
  <2>3. CASE k > p + 1
    <3>1. r[k] = back[k - (p + 1)]
      BY <2>3, <1>2, <1>3, <1>4
    <3>2. k - (p + 1) \in 1 .. Len(s) - p /\ p + (k - (p + 1)) = k - 1
      BY <2>3
    <3> QED  BY <2>3, <1>3, <3>1, <3>2
  <2> QED  BY <2>1, <2>2, <2>3
<1>7. r \in [1 .. Len(r) -> Nodes]
  BY <1>5
<1> QED  BY <1>5, <1>6, <1>7 DEF r

LEMMA Removed ==
  ASSUME NEW s, Len(s) \in Nat \ {0}, s \in [1 .. Len(s) -> Nodes],
         NEW p \in 1 .. Len(s), \A k \in 1 .. Len(s) : s[k] = s[p] => k = p
  PROVE  LET r == RemoveFirst(s, s[p]) IN
         /\ Len(r) = Len(s) - 1 /\ r \in [1 .. Len(s) - 1 -> Nodes]
         /\ \A k \in 1 .. Len(s) - 1 : r[k] = IF k < p THEN s[k] ELSE s[k + 1]
<1> DEFINE front == SubSeq(s, 1, p - 1)
           back == SubSeq(s, p + 1, Len(s))
           r == RemoveFirst(s, s[p])
<1>1. s \in Seq(Nodes)
  BY IsASeq
<1>2. front \in Seq(Nodes) /\ Len(front) = p - 1 /\ \A k \in 1 .. p - 1 : front[k] = s[k]
  BY <1>1
<1>3. back \in Seq(Nodes) /\ Len(back) = Len(s) - p /\ \A k \in 1 .. Len(s) - p : back[k] = s[p + k]
  <2> DEFINE m == p + 1  n == Len(s)
  <2>0. m \in Int /\ n \in Int /\ \A j \in m .. n : s[j] \in Nodes
    OBVIOUS
  <2>1. /\ SubSeq(s, m, n) \in Seq(Nodes)
        /\ Len(SubSeq(s, m, n)) = IF m <= n THEN n - m + 1 ELSE 0
        /\ \A j \in 1 .. n - m + 1 : SubSeq(s, m, n)[j] = s[m + j - 1]
    <3> HIDE DEF m, n
    <3> QED  BY <2>0, SubSeqProperties
  <2>2. n - m + 1 = n - p /\ \A k \in 1 .. n - p : m + k - 1 = p + k
    OBVIOUS
  <2>3. (IF m <= n THEN n - m + 1 ELSE 0) = n - p
    <3>1. p \in Int /\ n \in Int /\ m = p + 1 /\ p <= n
      OBVIOUS
    <3> HIDE DEF m, n
    <3> QED  BY <3>1
  <2>4. ASSUME NEW k \in 1 .. n - p PROVE back[k] = s[p + k]
    <3>1. k \in 1 .. n - m + 1 /\ m + k - 1 = p + k
      BY <2>2
    <3>2. SubSeq(s, m, n)[k] = s[m + k - 1]
      BY <2>1, <3>1
    <3> QED  BY <3>1, <3>2
  <2> QED  BY <2>1, <2>3, <2>4
<1>4. r = front \o back
  <2>1. {k \in 1 .. Len(s) : s[k] = s[p]} = {p}
    OBVIOUS
  <2>2. Min({p}) = p
    BY DEF Min
  <2>3. SelectInSeq(s, LAMBDA v : v = s[p]) = p
    BY <2>1, <2>2 DEF SelectInSeq
  <2>4. r = RemoveAt(s, p)
    BY <2>3 DEF RemoveFirst
  <2> QED  BY <2>4 DEF RemoveAt
<1> HIDE DEF front, back, r
<1>5. r \in Seq(Nodes) /\ Len(r) = Len(s) - 1
  <2>1. r \in Seq(Nodes) /\ Len(r) = Len(front) + Len(back)
    <3>1. front \in Seq(Nodes) /\ back \in Seq(Nodes)
      BY <1>2, <1>3
    <3> QED  BY <1>4, <3>1, ConcatProperties
  <2> QED  BY <1>2, <1>3, <2>1
<1>6. ASSUME NEW k \in 1 .. Len(s) - 1
      PROVE  r[k] = IF k < p THEN s[k] ELSE s[k + 1]
  <2>1. CASE k < p
    BY <2>1, <1>2, <1>3, <1>4
  <2>2. CASE k >= p
    <3>1. r[k] = back[k - (p - 1)]
      <4>1. front \in Seq(Nodes) /\ back \in Seq(Nodes)
        BY <1>2, <1>3
      <4>2. k \in 1 .. Len(front) + Len(back) /\ ~(k <= Len(front))
        BY <2>2, <1>2, <1>3
      <4> QED  BY <4>1, <4>2, <1>2, <1>4, ConcatProperties
    <3>2. k - (p - 1) \in 1 .. Len(s) - p /\ p + (k - (p - 1)) = k + 1
      BY <2>2
    <3> QED  BY <2>2, <1>3, <3>1, <3>2
  <2> QED  BY <2>1, <2>2
<1>7. r \in [1 .. Len(r) -> Nodes]
  BY <1>5
<1> QED  BY <1>5, <1>6, <1>7 DEF r

\* A node put behind the p-th, the last one included.
LEMMA ChainInserted ==
  ASSUME NEW nodes, NEW changed, NEW s, IsChain(nodes, s),
         NEW p \in 1 .. Len(s), NEW new \in Nodes, \A k \in 1 .. Len(s) : s[k] # new,
         changed[new].next = nodes[s[p]].next, changed[s[p]].next = new,
         \A k \in 1 .. Len(s) : k # p => changed[s[k]].next = nodes[s[k]].next
  PROVE  IsChain(changed, InsertAt(s, p + 1, new))
<1> DEFINE L == Len(s)
           r == InsertAt(s, p + 1, new)
<1>0. L \in Nat \ {0} /\ s \in [1 .. L -> Nodes] /\ p \in 1 .. L
  BY DEF IsChain
<1>1. /\ Len(r) = L + 1 /\ r \in [1 .. L + 1 -> Nodes]
      /\ \A k \in 1 .. L + 1 : r[k] = IF k <= p THEN s[k] ELSE IF k = p + 1 THEN new ELSE s[k - 1]
  BY <1>0, Inserted
<1> HIDE DEF r, L
<1>2. \A k \in 1 .. L - 1 : nodes[s[k]].next = s[k + 1]
  BY DEF IsChain, L
<1>3. nodes[s[L]].next = Null
  BY DEF IsChain, L
<1>4. \A k \in 1 .. L : k # p => changed[s[k]].next = nodes[s[k]].next
  BY DEF L
<1>5. ASSUME NEW k \in 1 .. L PROVE changed[r[k]].next = r[k + 1]
  <2>1. CASE k < p
    <3>1. r[k] = s[k] /\ r[k + 1] = s[k + 1] /\ k \in 1 .. L - 1 /\ k # p
      BY <2>1, <1>0, <1>1
    <3> QED  BY <3>1, <1>2, <1>4
  <2>2. CASE k = p
    BY <2>2, <1>0, <1>1
  <2>3. CASE k = p + 1
    <3>1. r[k] = new /\ r[k + 1] = s[p + 1] /\ p \in 1 .. L - 1
      BY <2>3, <1>0, <1>1
    <3> QED  BY <3>1, <1>2
  <2>4. CASE k > p + 1
    <3>0. k - 1 \in 1 .. L - 1 /\ k - 1 \in 1 .. L /\ k - 1 # p /\ (k - 1) + 1 = k /\ (k + 1) - 1 = k
            /\ k \in 1 .. L + 1 /\ k + 1 \in 1 .. L + 1 /\ ~(k <= p + 1) /\ ~(k + 1 <= p + 1)
      BY <2>4, <1>0
    <3>1. r[k] = s[k - 1] /\ r[k + 1] = s[k]
      BY <3>0, <1>0, <1>1
    <3> QED  BY <3>0, <3>1, <1>2, <1>4
  <2> QED  BY <2>1, <2>2, <2>3, <2>4, <1>0
<1>6. changed[r[L + 1]].next = Null
  <2>1. CASE p = L
    BY <2>1, <1>0, <1>1, <1>3
  <2>2. CASE p # L
    <3>1. r[L + 1] = s[L] /\ L \in 1 .. L
      BY <2>2, <1>0, <1>1
    <3> QED  BY <2>2, <3>1, <1>3, <1>4
  <2> QED  BY <2>1, <2>2
<1>7. ASSUME NEW j \in 1 .. L + 1, NEW k \in 1 .. L + 1, r[j] = r[k]
      PROVE  j = k
  <2>1. \A a, b \in 1 .. L : s[a] = s[b] => a = b
    BY DEF IsChain, L
  <2>2. \A a \in 1 .. L : s[a] # new
    BY DEF L
  <2> DEFINE was(a) == IF a <= p THEN a ELSE a - 1
  <2>3. \A a \in 1 .. L + 1 : a # p + 1 => was(a) \in 1 .. L /\ r[a] = s[was(a)] /\ r[a] # new
    BY <1>0, <1>1, <2>2
  <2>4. r[p + 1] = new
    BY <1>0, <1>1
  <2>5. CASE j = p + 1 \/ k = p + 1
    BY <1>7, <2>3, <2>4, <2>5
  <2>6. CASE j # p + 1 /\ k # p + 1
    <3>1. was(j) = was(k)
      <4> HIDE DEF was
      <4> QED  BY <1>7, <2>1, <2>3, <2>6
    <3> QED  BY <3>1, <2>6, <1>0
  <2> QED  BY <2>5, <2>6
<1>8. r[1] = first
  <2>1. s[1] = first
    BY DEF IsChain
  <2> QED  BY <2>1, <1>0, <1>1
<1>9. Len(r) - 1 = L
  BY <1>0, <1>1
<1> QED  BY <1>0, <1>1, <1>5, <1>6, <1>7, <1>8, <1>9 DEF IsChain, r

\* At the end, that is Append.
LEMMA InsertedAtEnd ==
  ASSUME NEW nodes, NEW s, IsChain(nodes, s), NEW new \in Nodes
  PROVE  InsertAt(s, Len(s) + 1, new) = Append(s, new)
<1> DEFINE L == Len(s)
<1>0. L \in Nat \ {0} /\ s \in [1 .. L -> Nodes] /\ L \in 1 .. L /\ s \in Seq(Nodes)
  BY IsASeq DEF IsChain
<1>1. /\ Len(InsertAt(s, L + 1, new)) = L + 1 /\ InsertAt(s, L + 1, new) \in [1 .. L + 1 -> Nodes]
      /\ \A k \in 1 .. L + 1 : InsertAt(s, L + 1, new)[k] =
           IF k <= L THEN s[k] ELSE IF k = L + 1 THEN new ELSE s[k - 1]
  BY <1>0, Inserted
<1>2. Append(s, new) \in Seq(Nodes) /\ Len(Append(s, new)) = L + 1
  BY <1>0
<1>3. \A k \in 1 .. L + 1 : Append(s, new)[k] = IF k <= L THEN s[k] ELSE new
  BY <1>0
<1>4. InsertAt(s, L + 1, new) \in Seq(Nodes)
  BY <1>0, <1>1, IsASeq
<1>5. \A k \in 1 .. L + 1 : InsertAt(s, L + 1, new)[k] = Append(s, new)[k]
  BY <1>0, <1>1, <1>3
<1> QED  BY <1>1, <1>2, <1>4, <1>5, SeqEqual

\* A node behind the first taken out of it.
LEMMA ChainRemoved ==
  ASSUME NEW nodes, NEW changed, NEW s, IsChain(nodes, s), NEW p \in 2 .. Len(s),
         changed[s[p - 1]].next = nodes[s[p]].next,
         \A k \in 1 .. Len(s) : k \notin {p - 1, p} => changed[s[k]].next = nodes[s[k]].next
  PROVE  IsChain(changed, RemoveFirst(s, s[p]))
<1> DEFINE L == Len(s)
           r == RemoveFirst(s, s[p])
<1>0. L \in Nat \ {0, 1} /\ s \in [1 .. L -> Nodes] /\ p \in 2 .. L
  BY DEF IsChain
<1>a. \A a, b \in 1 .. L : s[a] = s[b] => a = b
  BY DEF IsChain
<1>1. /\ Len(r) = L - 1 /\ r \in [1 .. L - 1 -> Nodes]
      /\ \A k \in 1 .. L - 1 : r[k] = IF k < p THEN s[k] ELSE s[k + 1]
  <2>1. p \in 1 .. L /\ L \in Nat \ {0} /\ \A k \in 1 .. L : s[k] = s[p] => k = p
    BY <1>0, <1>a
  <2> QED  BY <1>0, <2>1, Removed
<1> HIDE DEF r, L
<1>2. \A k \in 1 .. L - 1 : nodes[s[k]].next = s[k + 1]
  BY DEF IsChain, L
<1>3. nodes[s[L]].next = Null
  BY DEF IsChain, L
<1>4. \A k \in 1 .. L : k \notin {p - 1, p} => changed[s[k]].next = nodes[s[k]].next
  BY DEF L
<1>5. ASSUME NEW k \in 1 .. L - 2 PROVE changed[r[k]].next = r[k + 1]
  <2>1. CASE k < p - 1
    <3>1. r[k] = s[k] /\ r[k + 1] = s[k + 1] /\ k \in 1 .. L - 1 /\ k \in 1 .. L /\ k \notin {p - 1, p}
      BY <2>1, <1>0, <1>1
    <3> QED  BY <3>1, <1>2, <1>4
  <2>2. CASE k = p - 1
    <3>1. r[k] = s[p - 1] /\ r[k + 1] = s[p + 1] /\ p \in 1 .. L - 1
      BY <2>2, <1>0, <1>1
    <3> QED  BY <3>1, <1>2
  <2>3. CASE k > p - 1
    <3>0. k + 1 \in 1 .. L - 1 /\ k + 1 \in 1 .. L /\ ~(k < p) /\ ~(k + 1 < p)
            /\ k \in 1 .. L - 1 /\ k + 1 \notin {p - 1, p}
      BY <2>3, <1>0
    <3>1. r[k] = s[k + 1] /\ r[k + 1] = s[(k + 1) + 1]
      BY <3>0, <1>1
    <3> QED  BY <3>0, <3>1, <1>2, <1>4
  <2> QED  BY <2>1, <2>2, <2>3, <1>0
<1>6. changed[r[L - 1]].next = Null
  <2>1. CASE p = L
    <3>1. r[L - 1] = s[p - 1]
      BY <2>1, <1>0, <1>1
    <3> QED  BY <2>1, <3>1, <1>3
  <2>2. CASE p # L
    <3>1. r[L - 1] = s[L] /\ L \in 1 .. L /\ L \notin {p - 1, p}
      BY <2>2, <1>0, <1>1
    <3> QED  BY <3>1, <1>3, <1>4
  <2> QED  BY <2>1, <2>2
<1>7. ASSUME NEW j \in 1 .. L - 1, NEW k \in 1 .. L - 1, r[j] = r[k]
      PROVE  j = k
  <2> DEFINE was(a) == IF a < p THEN a ELSE a + 1
  <2>1. \A a \in 1 .. L - 1 : was(a) \in 1 .. L /\ r[a] = s[was(a)]
    BY <1>0, <1>1
  <2>2. was(j) = was(k)
    <3> HIDE DEF was
    <3> QED  BY <1>7, <1>a, <2>1
  <2> QED  BY <2>2, <1>0
<1>8. r[1] = first
  <2>1. s[1] = first
    BY DEF IsChain
  <2> QED  BY <2>1, <1>0, <1>1
<1>9. Len(r) \in Nat \ {0} /\ Len(r) - 1 = L - 2 /\ Len(r) = L - 1
  BY <1>0, <1>1
<1> QED  BY <1>1, <1>5, <1>6, <1>7, <1>8, <1>9 DEF IsChain, r

-----------------------------------------------------------------------------
(***************************************************************************)
(* The inductive invariant of the shared list.                              *)
(***************************************************************************)

ListNode == [value : Int, next : Nodes \cup {Null, Garbage}, mutex : Nodes, live : BOOLEAN]
ListCall == [op : {"append", "insert", "delete", "print"}, value : Int]
WorkerState ==
  [at : {"call", "lock", "append", "insert", "delete", "print", "next", "unlock"},
   calls : Seq(ListCall),
   iter : Nodes \cup {Null}, previous : Nodes \cup {Null}, new : Nodes \cup {Null}]

ListShaped ==
  /\ heap \in [Nodes -> ListNode]
  /\ lock \in [Nodes -> SUBSET Workers] /\ stray \in BOOLEAN
  /\ status \in {"running", "returned", "segv", "abort"}
  /\ thread \in [Workers -> WorkerState]

\* Who holds the mutex, and who has a node that is not in the list yet.
Holding(t) == thread[t].at \in {"append", "insert", "delete", "print", "next", "unlock"}
Making(t) == \/ thread[t].at = "lock" /\ Op(t) \in {"append", "insert"}
             \/ thread[t].at \in {"append", "insert"}

\* Where a thread is in which call, and the nodes it has for it.
Placed(w) ==
  LET op == Head(w.calls).op IN
  /\ w.at # "call" => w.calls # <<>>
  /\ w.at \in {"append", "insert", "delete", "print"} => op = w.at
  /\ w.at = "next" => op = "delete"
  /\ w.at \in {"append", "next"} => w.iter \in Nodes
  /\ w.at \in {"append", "insert"} \/ (w.at = "lock" /\ op \in {"append", "insert"}) => w.new \in Nodes
  /\ w.at # "call" /\ op = "insert" => w.previous \in Nodes
  /\ w.at = "lock" /\ op = "delete" => w.previous = Null

InCall == \A t \in Workers : Placed(thread[t])

Locked == \A t \in Workers : Holding(t) => lock[first] = {t}

\* The list is one, of nodes that are allocated, and the first has its mutex.
Listed ==
  IsChain(heap, chain) /\ (\A n \in Linked : heap[n].live) /\ heap[first].mutex = first

\* A new node is the thread's own until it is linked.
OwnNode ==
  \A t \in Workers : Making(t) =>
    /\ thread[t].new \in Nodes \ Linked
    /\ heap[thread[t].new].live /\ heap[thread[t].new].next = Null
    /\ \A u \in Workers : Making(u) /\ thread[u].new = thread[t].new => u = t

\* Nothing else is allocated.
NothingLeaks ==
  \A n \in Nodes : heap[n].live => n \in Linked \/ \E t \in Workers : Making(t) /\ thread[t].new = n

\* Where a walk along the list has come to.  From a node that has just been
\* freed it still finds back, unless malloc has handed the node out meanwhile.  An
\* insert stands behind a node of the list that leads to the list's mutex.
OnTheWay(t) ==
  /\ thread[t].at = "append" => thread[t].iter \in Linked
  /\ thread[t].at \in {"print", "delete"} => thread[t].iter \in Linked \cup {Null}
  /\ thread[t].at = "delete" =>
       /\ thread[t].previous = Null => thread[t].iter = first
       /\ thread[t].previous \in Linked => heap[thread[t].previous].next = thread[t].iter
  /\ thread[t].at = "next" =>
       /\ thread[t].iter \in Nodes \ Linked
       /\ heap[thread[t].iter].next \in Linked \cup {Null}
  /\ thread[t].at \in {"insert", "unlock"} /\ Op(t) = "insert" =>
       thread[t].previous \in Linked /\ heap[thread[t].previous].mutex = first

OnTheList == \A t \in Workers : OnTheWay(t)

\* All this holds until a call goes astray, the types always.
WhileRunning == Locked /\ Listed /\ OwnNode /\ NothingLeaks /\ OnTheList

ListInv ==
  /\ ListShaped /\ InCall
  /\ status = "running" /\ ~stray => WhileRunning
  /\ ~stray => status # "abort" /\ (status = "returned" => \A n \in Nodes : ~heap[n].live)

-----------------------------------------------------------------------------
(***************************************************************************)
(* The list in the heap before and after a step.                            *)
(***************************************************************************)

\* The nodes of the list.
LEMMA OfTheList ==
  ASSUME IsChain(heap, chain)
  PROVE  /\ Len(chain) \in Nat \ {0} /\ chain \in [1 .. Len(chain) -> Nodes]
         /\ Linked = {chain[k] : k \in 1 .. Len(chain)}
         /\ Linked \subseteq Nodes /\ first \in Linked
         /\ \A n \in Linked : heap[n].next \in Linked \cup {Null}
<1>1. Len(chain) \in Nat \ {0} /\ chain \in [1 .. Len(chain) -> Nodes] /\ chain[1] = first
  BY DEF IsChain
<1>2. Linked = {chain[k] : k \in 1 .. Len(chain)}
  BY <1>1 DEF Linked, ToSet
<1>3. ASSUME NEW k \in 1 .. Len(chain) PROVE heap[chain[k]].next \in Linked \cup {Null}
  <2>1. CASE k = Len(chain)
    BY <2>1 DEF IsChain
  <2>2. CASE k # Len(chain)
    <3>1. k \in 1 .. Len(chain) - 1 /\ k + 1 \in 1 .. Len(chain)
      <4> DEFINE L == Len(chain)
      <4>1. L \in Nat /\ k \in 1 .. L /\ k # L
        BY <2>2, <1>1
      <4> HIDE DEF L
      <4>2. k \in 1 .. L - 1 /\ k + 1 \in 1 .. L
        BY <4>1
      <4> QED  BY <4>2 DEF L
    <3>2. heap[chain[k]].next = chain[k + 1]
      BY <3>1 DEF IsChain
    <3> QED  BY <3>1, <3>2, <1>2
  <2> QED  BY <2>1, <2>2
<1> QED  BY <1>1, <1>2, <1>3

\* A step that points no linked node elsewhere leaves the list as it is.
LEMMA SameList ==
  ASSUME IsChain(heap, chain), \A n \in Linked : heap'[n].next = heap[n].next
  PROVE  IsChain(heap', chain') /\ chain' = chain /\ Linked' = Linked
<1>1. \A k \in 1 .. Len(chain) : heap'[chain[k]].next = heap[chain[k]].next
  BY OfTheList
<1>2. IsChain(heap', chain)
  BY <1>1, ChainKept
<1>3. chain' = chain
  BY <1>2, ChainFound DEF chain
<1> QED  BY <1>2, <1>3 DEF Linked

\* The other threads are where they were.
LEMMA OthersStay ==
  ASSUME NEW t \in Workers, NEW u \in Workers, thread'[u] = thread[u]
  PROVE  (Making(u))' = Making(u) /\ (Holding(u))' = Holding(u) /\ (Op(u))' = Op(u)
BY DEF Making, Holding, Op

LEMMA PointedElsewhere ==
  ASSUME NEW h \in [Nodes -> ListNode], NEW n \in Nodes, NEW to \in Nodes \cup {Null, Garbage}
  PROVE  [h EXCEPT ![n].next = to] \in [Nodes -> ListNode]
<1>1. [h[n] EXCEPT !.next = to] \in ListNode
  BY DEF ListNode
<1>2. [h EXCEPT ![n].next = to] = [h EXCEPT ![n] = [h[n] EXCEPT !.next = to]]
  OBVIOUS
<1> QED  BY <1>1, <1>2

-----------------------------------------------------------------------------
(***************************************************************************)
(* The steps.                                                               *)
(***************************************************************************)

\* What a call is made of.
LEMMA InACall ==
  ASSUME ListShaped, InCall, NEW t \in Workers
  PROVE  /\ thread[t].at # "call" => thread[t].calls # <<>>
         /\ thread[t].calls # <<>> =>
              /\ Op(t) \in {"append", "insert", "delete", "print"} /\ Value(t) \in Int
              /\ Tail(thread[t].calls) \in Seq(ListCall)
         /\ thread[t].at \in {"append", "insert", "delete", "print"} => Op(t) = thread[t].at
         /\ thread[t].at = "next" => Op(t) = "delete"
         /\ thread[t].at \in {"append", "next"} => thread[t].iter \in Nodes
         /\ Making(t) => thread[t].new \in Nodes
         /\ thread[t].at # "call" /\ Op(t) = "insert" => thread[t].previous \in Nodes
         /\ thread[t].at = "lock" /\ Op(t) = "delete" => thread[t].previous = Null
<1>1. thread[t] \in WorkerState
  BY DEF ListShaped
<1>2. thread[t].calls \in Seq(ListCall)
  BY <1>1 DEF WorkerState
<1>3. thread[t].calls # <<>> =>
        Head(thread[t].calls) \in ListCall /\ Tail(thread[t].calls) \in Seq(ListCall)
  BY <1>2, HeadTailProperties
<1>4. thread[t].calls # <<>> =>
        /\ Op(t) \in {"append", "insert", "delete", "print"} /\ Value(t) \in Int
        /\ Tail(thread[t].calls) \in Seq(ListCall)
  BY <1>3 DEF ListCall, Op, Value
<1> QED  BY <1>4 DEF InCall, Placed, Op, Making

LEMMA FirstIsANode == first \in Nodes /\ Null \notin Nodes /\ Garbage \notin Nodes /\ Null # Garbage
BY ListAssumption DEF first, Nodes, Null, Garbage

\* One thread moves on: it is enough to look at its own state.
LEMMA OneMoves ==
  ASSUME ListShaped, InCall, NEW t \in Workers, NEW w \in WorkerState, Placed(w),
         thread' = [thread EXCEPT ![t] = w]
  PROVE  thread' \in [Workers -> WorkerState] /\ InCall'
<1>1. \A u \in Workers : thread'[u] = IF u = t THEN w ELSE thread[u]
  BY DEF ListShaped
<1>2. InCall'
  <2> SUFFICES ASSUME NEW u \in Workers PROVE Placed(thread'[u])
    BY DEF InCall, Placed
  <2> QED  BY <1>1 DEF InCall
<1> QED  BY <1>2 DEF ListShaped

LEMMA AllocateShape ==
  ASSUME ListShaped, InCall, NEW t \in Workers, Allocate(t)
  PROVE  ListShaped' /\ InCall'
<1>a. PICK new \in Nodes, previous \in IF Op(t) = "insert" THEN Linked ELSE {Null},
           own \in Nodes \cup {heap[first].mutex} :
        /\ ~heap[new].live
        /\ heap' = [heap EXCEPT ![new] = [value |-> Value(t), next |-> Null, mutex |-> own, live |-> TRUE]]
        /\ lock' = IF own = new THEN [lock EXCEPT ![new] = {}] ELSE lock
        /\ thread' = [thread EXCEPT ![t].at = "lock", ![t].new = new, ![t].previous = previous]
  BY DEF Allocate
<1>b. /\ status' = status /\ stray' = stray /\ Op(t) \in {"append", "insert"}
      /\ thread[t].calls # <<>>
  BY DEF Allocate
<1>c. own \in Nodes /\ heap[first].mutex \in Nodes
  BY FirstIsANode DEF ListShaped, ListNode
<1>d. heap' \in [Nodes -> ListNode]
  <2>1. [value |-> Value(t), next |-> Null, mutex |-> own, live |-> TRUE] \in ListNode
    BY <1>b, <1>c, InACall DEF ListNode
  <2> QED  BY <1>a, <2>1 DEF ListShaped
<1>e. Linked \subseteq Nodes
  BY LinkedAreNodes
<1> DEFINE w == [thread[t] EXCEPT !.at = "lock", !.new = new, !.previous = previous]
<1>f. previous \in Nodes \cup {Null} /\ (Op(t) = "insert" => previous \in Nodes)
        /\ (Op(t) # "insert" => previous = Null)
  BY <1>e
<1>g. w \in WorkerState /\ Placed(w)
  <2>1. thread[t] \in WorkerState
    BY DEF ListShaped
  <2>2. /\ w \in WorkerState /\ w.at = "lock" /\ w.calls = thread[t].calls
        /\ w.new = new /\ w.previous = previous
    BY <2>1, <1>f DEF WorkerState
  <2> HIDE DEF w
  <2> QED  BY <2>2, <1>b, <1>f DEF Placed, Op
<1>h. thread' = [thread EXCEPT ![t] = w]
  BY <1>a
<1> HIDE DEF w
<1>i. lock' \in [Nodes -> SUBSET Workers]
  BY <1>a DEF ListShaped
<1> QED  BY <1>b, <1>d, <1>g, <1>h, <1>i, OneMoves DEF ListShaped

LEMMA LockShape ==
  ASSUME ListShaped, InCall, NEW t \in Workers, LockList(t)
  PROVE  ListShaped' /\ InCall'
<1>0. thread[t].at = "lock" /\ thread[t].calls # <<>>
  BY InACall DEF LockList, LockWith, Running
<1>a. CASE Crash("segv")
  BY <1>a DEF Crash, ListShaped, InCall, Placed
<1>b. CASE /\ lock' = [lock EXCEPT ![Mutex(t)] = {t}]
           /\ thread' = [thread EXCEPT ![t].at = Op(t), ![t].iter = first]
           /\ stray' = (stray \/ Via(t) \notin Linked \/ Mutex(t) # first)
           /\ UNCHANGED <<heap, status>>
  <2> DEFINE w == [thread[t] EXCEPT !.at = Op(t), !.iter = first]
  <2>1. thread[t] \in WorkerState /\ Op(t) \in {"append", "insert", "delete", "print"} /\ first \in Nodes
    BY <1>0, InACall, FirstIsANode DEF ListShaped
  <2>2. /\ w \in WorkerState /\ w.at = Op(t) /\ w.calls = thread[t].calls /\ w.iter = first
        /\ w.new = thread[t].new /\ w.previous = thread[t].previous
    BY <2>1 DEF WorkerState
  <2>3. thread' = [thread EXCEPT ![t] = w]
    BY <1>b
  <2> HIDE DEF w
  <2>4. Placed(thread[t])
    BY DEF InCall
  <2>5. Placed(w)
    BY <1>0, <2>1, <2>2, <2>4 DEF Placed, Op
  <2>6. lock' \in [Nodes -> SUBSET Workers] /\ stray' \in BOOLEAN
    BY <1>b DEF ListShaped
  <2> QED  BY <1>b, <2>2, <2>3, <2>5, <2>6, OneMoves DEF ListShaped
<1> QED  BY <1>a, <1>b DEF LockList, LockWith

\* A thread that only looks at the list, and goes to a node or to none.
LEMMA LookShape ==
  ASSUME ListShaped, InCall, NEW t \in Workers, Call(t) \/ Walk(t) \/ Advance(t)
  PROVE  ListShaped' /\ InCall'
<1>0. thread[t] \in WorkerState /\ Placed(thread[t])
  BY DEF ListShaped, InCall
<1>a. ASSUME NEW point \in {"lock", "append", "print", "delete"}, NEW iter \in Nodes \cup {Null},
             NEW previous \in Nodes \cup {Null},
             thread' = [thread EXCEPT ![t] = [thread[t] EXCEPT !.at = point, !.iter = iter, !.previous = previous]],
             UNCHANGED <<heap, lock, status, stray>>, thread[t].calls # <<>>,
             point = "lock" => Op(t) \in {"delete", "print"} /\ previous = Null,
             point # "lock" => Op(t) = point,
             point = "append" => thread[t].at = "append" /\ iter \in Nodes
      PROVE  ListShaped' /\ InCall'
  <2> DEFINE w == [thread[t] EXCEPT !.at = point, !.iter = iter, !.previous = previous]
  <2>1. /\ w \in WorkerState /\ w.at = point /\ w.calls = thread[t].calls /\ w.iter = iter
        /\ w.new = thread[t].new /\ w.previous = previous
    BY <1>0 DEF WorkerState
  <2> HIDE DEF w
  <2>2. Placed(w)
    BY <1>0, <1>a, <2>1 DEF Placed, Op
  <2>3. thread' = [thread EXCEPT ![t] = w]
    BY <1>a DEF w
  <2> QED  BY <1>a, <2>1, <2>2, <2>3, OneMoves DEF ListShaped
<1>b. ASSUME NEW how \in {"segv", "abort"}, Crash(how)
      PROVE  ListShaped' /\ InCall'
  BY <1>b DEF Crash, ListShaped, InCall, Placed
<1>1. CASE Call(t)
  <2>1. thread[t] = [thread[t] EXCEPT !.iter = thread[t].iter] /\ thread[t].iter \in Nodes \cup {Null}
    BY <1>0 DEF WorkerState
  <2>2. [thread[t] EXCEPT !.at = "lock", !.previous = Null] =
          [thread[t] EXCEPT !.at = "lock", !.iter = thread[t].iter, !.previous = Null]
    BY <1>0 DEF WorkerState
  <2>3. thread' = [thread EXCEPT ![t] = [thread[t] EXCEPT !.at = "lock", !.previous = Null]]
    BY <1>1 DEF Call
  <2> QED  BY <1>1, <1>a, <2>1, <2>2, <2>3 DEF Call
<1>2. CASE Walk(t)
  <2>1. PICK next \in NextOf(thread[t].iter) :
          /\ thread[t].at = "append" => next # Null
          /\ IF next = Garbage THEN Crash("segv")
             ELSE thread' = [thread EXCEPT ![t].iter = next] /\ UNCHANGED <<heap, lock, status, stray>>
    BY <1>2 DEF Walk
  <2>2. thread[t].at \in {"append", "print"} /\ thread[t].iter \in Nodes /\ Op(t) = thread[t].at
          /\ thread[t].calls # <<>>
    <3>1. thread[t].at \in {"append", "print"} /\ (thread[t].at = "print" => thread[t].iter # Null)
      BY <1>2 DEF Walk, Running
    <3> QED  BY <3>1, <1>0, InACall DEF WorkerState
  <2>3. next \in Nodes \cup {Null, Garbage}
    BY <2>1, <2>2 DEF NextOf, Seen, ListShaped, ListNode
  <2>4. CASE next = Garbage
    BY <2>1, <2>4, <1>b
  <2>5. CASE next # Garbage
    <3>1. thread' = [thread EXCEPT ![t] = [thread[t] EXCEPT !.iter = next]]
      BY <2>1, <2>5
    <3>2. [thread[t] EXCEPT !.iter = next] =
            [thread[t] EXCEPT !.at = thread[t].at, !.iter = next, !.previous = thread[t].previous]
      BY <1>0 DEF WorkerState
    <3>3. thread[t].previous \in Nodes \cup {Null}
      BY <1>0 DEF WorkerState
    <3> QED  BY <2>1, <2>2, <2>3, <2>5, <3>1, <3>2, <3>3, <1>a
  <2> QED  BY <2>4, <2>5
<1>3. CASE Advance(t)
  <2>1. PICK next \in NextOf(thread[t].iter) :
          IF next = Garbage THEN Crash("segv")
          ELSE /\ thread' = [thread EXCEPT ![t].at = "delete", ![t].iter = next, ![t].previous = thread[t].iter]
               /\ UNCHANGED <<heap, lock, status, stray>>
    BY <1>3 DEF Advance
  <2>2. thread[t].at \in {"next", "delete"} /\ thread[t].iter \in Nodes /\ Op(t) = "delete"
          /\ thread[t].calls # <<>>
    <3>1. thread[t].at \in {"next", "delete"} /\ (thread[t].at = "delete" => thread[t].iter # Null)
      BY <1>3 DEF Advance, Running
    <3> QED  BY <3>1, <1>0, InACall DEF WorkerState
  <2>3. next \in Nodes \cup {Null, Garbage}
    BY <2>1, <2>2 DEF NextOf, Seen, ListShaped, ListNode
  <2>4. CASE next = Garbage
    BY <2>1, <2>4, <1>b
  <2>5. CASE next # Garbage
    <3>1. thread' = [thread EXCEPT ![t] = [thread[t] EXCEPT !.at = "delete", !.iter = next, !.previous = thread[t].iter]]
      BY <2>1, <2>5
    <3> QED  BY <2>1, <2>2, <2>3, <2>5, <3>1, <1>a
  <2> QED  BY <2>4, <2>5
<1> QED  BY <1>1, <1>2, <1>3

\* A thread that has changed the list, with what it leaves in the heap.
LEMMA ChangeShape ==
  ASSUME ListShaped, InCall, NEW t \in Workers, Link(t) \/ Insert(t) \/ Delete(t)
  PROVE  ListShaped' /\ InCall'
<1>0. thread[t] \in WorkerState /\ Placed(thread[t])
  BY DEF ListShaped, InCall
<1>a. ASSUME NEW point \in {"unlock", "next"}, thread' = [thread EXCEPT ![t].at = point],
             thread[t].at # "call", point = "next" => Op(t) = "delete" /\ thread[t].iter \in Nodes,
             heap' \in [Nodes -> ListNode], UNCHANGED <<lock, status>>, stray' \in BOOLEAN
      PROVE  ListShaped' /\ InCall'
  <2> DEFINE w == [thread[t] EXCEPT !.at = point]
  <2>1. /\ w \in WorkerState /\ w.at = point /\ w.calls = thread[t].calls /\ w.iter = thread[t].iter
        /\ w.new = thread[t].new /\ w.previous = thread[t].previous
    BY <1>0 DEF WorkerState
  <2>2. thread' = [thread EXCEPT ![t] = w]
    BY <1>a
  <2> HIDE DEF w
  <2>3. Placed(w)
    BY <1>0, <1>a, <2>1 DEF Placed, Op
  <2> QED  BY <1>a, <2>1, <2>2, <2>3, OneMoves DEF ListShaped
<1>1. CASE Link(t)
  <2>1. thread[t].at = "append" /\ thread[t].iter \in Nodes /\ thread[t].new \in Nodes
    BY <1>1, InACall DEF Link, Running, Making
  <2>2. heap' \in [Nodes -> ListNode]
    BY <1>1, <2>1, PointedElsewhere DEF Link, ListShaped
  <2> QED  BY <1>1, <1>a, <2>1, <2>2 DEF Link, ListShaped
<1>2. CASE Insert(t)
  <2>1. /\ thread[t].at = "insert" /\ thread[t].previous \in Nodes /\ thread[t].new \in Nodes
    BY <1>2, InACall DEF Insert, Running, Making
  <2>2. PICK next \in NextOf(thread[t].previous) :
          heap' = [heap EXCEPT ![thread[t].new].next = next, ![thread[t].previous].next = thread[t].new]
    BY <1>2 DEF Insert
  <2>3. next \in Nodes \cup {Null, Garbage}
    BY <2>1, <2>2 DEF NextOf, Seen, ListShaped, ListNode
  <2>4. heap' \in [Nodes -> ListNode]
    <3> DEFINE h == [heap EXCEPT ![thread[t].new].next = next]
    <3>1. h \in [Nodes -> ListNode]
      BY <2>1, <2>3, PointedElsewhere DEF ListShaped
    <3>2. heap' = [h EXCEPT ![thread[t].previous].next = thread[t].new]
      BY <2>2
    <3> HIDE DEF h
    <3> QED  BY <2>1, <3>1, <3>2, PointedElsewhere
  <2> QED  BY <1>2, <1>a, <2>1, <2>4 DEF Insert, ListShaped
<1>3. CASE Delete(t)
  <2> DEFINE iter == thread[t].iter  previous == thread[t].previous
  <2>1. /\ thread[t].at = "delete" /\ Op(t) = "delete" /\ iter \in Nodes /\ previous \in Nodes \cup {Null}
    BY <1>0, <1>3, InACall DEF Delete, Running, WorkerState
  <2>2. CASE Crash("segv") \/ Crash("abort")
    BY <2>2 DEF Crash, ListShaped, InCall, Placed
  <2>3. CASE ~(Crash("segv") \/ Crash("abort"))
    <3>1. /\ previous \in Nodes
          /\ heap' = [heap EXCEPT ![previous].next = heap[iter].next, ![iter] = Freed(@)]
          /\ stray' = (stray \/ previous \notin Linked)
          /\ thread' = [thread EXCEPT ![t].at = "next"] /\ UNCHANGED <<lock, status>>
      BY <1>3, <2>1, <2>3 DEF Delete
    <3> HIDE DEF iter, previous
    <3>2. heap' \in [Nodes -> ListNode]
      <4> DEFINE after == heap[iter].next
                 h == [heap EXCEPT ![previous].next = after]
      <4>1. after \in Nodes \cup {Null, Garbage}
        BY <2>1 DEF ListShaped, ListNode
      <4>2. heap' = [h EXCEPT ![iter] = [h[iter] EXCEPT !.live = FALSE]]
        BY <3>1 DEF Freed
      <4> HIDE DEF after
      <4>3. h \in [Nodes -> ListNode]
        BY <3>1, <4>1, PointedElsewhere DEF ListShaped
      <4> HIDE DEF h
      <4>4. [h[iter] EXCEPT !.live = FALSE] \in ListNode
        <5>1. h[iter] \in ListNode
          BY <2>1, <4>3
        <5> QED  BY <5>1 DEF ListNode
      <4> QED  BY <2>1, <4>2, <4>3, <4>4
    <3> QED  BY <1>a, <2>1, <3>1, <3>2 DEF ListShaped, iter
  <2> QED  BY <2>2, <2>3
<1> QED  BY <1>1, <1>2, <1>3

LEMMA UnlockShape ==
  ASSUME ListShaped, InCall, NEW t \in Workers, UnlockList(t)
  PROVE  ListShaped' /\ InCall'
<1>0. thread[t] \in WorkerState /\ Placed(thread[t]) /\ thread[t].at # "call" /\ thread[t].calls # <<>>
  BY InACall DEF ListShaped, InCall, UnlockList, Running
<1>a. CASE Crash("segv")
  BY <1>a DEF Crash, ListShaped, InCall, Placed
<1>b. CASE /\ lock' = [lock EXCEPT ![Mutex(t)] = {}]
           /\ thread' = [thread EXCEPT ![t].at = "call", ![t].calls = Tail(@)]
           /\ UNCHANGED <<heap, status, stray>>
  <2> DEFINE w == [thread[t] EXCEPT !.at = "call", !.calls = Tail(thread[t].calls)]
  <2>1. Tail(thread[t].calls) \in Seq(ListCall)
    BY <1>0, InACall
  <2>2. w \in WorkerState /\ w.at = "call"
    BY <1>0, <2>1 DEF WorkerState
  <2>3. thread' = [thread EXCEPT ![t] = w]
    BY <1>b
  <2> HIDE DEF w
  <2>4. Placed(w)
    BY <2>2 DEF Placed
  <2>5. lock' \in [Nodes -> SUBSET Workers]
    BY <1>b DEF ListShaped
  <2> QED  BY <1>b, <2>2, <2>3, <2>4, <2>5, OneMoves DEF ListShaped
<1> QED  BY <1>a, <1>b DEF UnlockList

\* The types hold whatever the threads do.
LEMMA ListShapes ==
  ASSUME ListShaped, InCall, NEW t \in Workers, list_routine(t)
  PROVE  ListShaped' /\ InCall'
BY AllocateShape, LockShape, LookShape, ChangeShape, UnlockShape DEF list_routine

-----------------------------------------------------------------------------
(***************************************************************************)
(* The steps while no call has gone astray.                                 *)
(***************************************************************************)

\* When the heap stays as it is and nobody gets or gives away a node, so does
\* the list.
LEMMA HeapStays ==
  ASSUME ListShaped, WhileRunning, heap' = heap, NEW t \in Workers,
         \A u \in Workers : u # t => thread'[u] = thread[u],
         (Making(t))' <=> Making(t), thread'[t].new = thread[t].new
  PROVE  /\ chain' = chain /\ Linked' = Linked /\ Listed' /\ OwnNode' /\ NothingLeaks'
         /\ (OnTheWay(t))' => OnTheList'
<1>1. chain' = chain /\ Linked' = Linked
  BY DEF chain, Linked
<1>2. ASSUME NEW u \in Workers
      PROVE  ((Making(u))' <=> Making(u)) /\ thread'[u].new = thread[u].new
  BY OthersStay
<1>3. Listed'
  BY <1>1 DEF WhileRunning, Listed
<1>4. OwnNode'
  BY <1>1, <1>2 DEF WhileRunning, OwnNode
<1>5. NothingLeaks'
  BY <1>1, <1>2 DEF WhileRunning, NothingLeaks
<1>6. ASSUME (OnTheWay(t))', NEW u \in Workers, u # t PROVE (OnTheWay(u))'
  <2>1. OnTheWay(u)
    BY DEF WhileRunning, OnTheList
  <2> QED  BY <1>1, <1>6, <2>1 DEF OnTheWay, Op
<1> QED  BY <1>1, <1>3, <1>4, <1>5, <1>6 DEF OnTheList

LEMMA CallStep ==
  ASSUME ListShaped, InCall, WhileRunning, NEW t \in Workers, Call(t)
  PROVE  WhileRunning' /\ chain' = chain
<1>0. heap' = heap /\ lock' = lock /\ Op(t) \in {"delete", "print"} /\ thread[t].at = "call"
  BY DEF Call, Running
<1>1. /\ \A u \in Workers : u # t => thread'[u] = thread[u]
      /\ thread'[t].at = "lock" /\ thread'[t].calls = thread[t].calls /\ thread'[t].new = thread[t].new
  BY DEF Call, ListShaped, WorkerState
<1>2. ~(Making(t))' /\ ~Making(t)
  BY <1>0, <1>1 DEF Making, Op
<1>3. chain' = chain /\ Linked' = Linked /\ Listed' /\ OwnNode' /\ NothingLeaks'
        /\ ((OnTheWay(t))' => OnTheList')
  BY <1>0, <1>1, <1>2, HeapStays
<1>4. Locked'
  BY <1>0, <1>1 DEF WhileRunning, Locked, Holding
<1>5. (OnTheWay(t))'
  BY <1>0, <1>1, <1>3 DEF WhileRunning, OnTheList, OnTheWay, Op
<1> QED  BY <1>3, <1>4, <1>5 DEF WhileRunning

LEMMA LockStep ==
  ASSUME ListShaped, InCall, WhileRunning, NEW t \in Workers, LockList(t), status' = "running", ~stray'
  PROVE  WhileRunning' /\ chain' = chain
<1>0. /\ lock[Mutex(t)] = {} /\ lock' = [lock EXCEPT ![Mutex(t)] = {t}]
      /\ thread' = [thread EXCEPT ![t].at = Op(t), ![t].iter = first] /\ heap' = heap
      /\ Via(t) \in Linked /\ Mutex(t) = first /\ thread[t].at = "lock"
  BY DEF LockList, LockWith, Crash, Running
<1>1. /\ \A u \in Workers : u # t => thread'[u] = thread[u]
      /\ thread'[t].at = Op(t) /\ thread'[t].calls = thread[t].calls /\ thread'[t].iter = first
      /\ thread'[t].new = thread[t].new /\ thread'[t].previous = thread[t].previous
  <2>1. thread[t] \in WorkerState
    BY DEF ListShaped
  <2>2. /\ \A u \in Workers : u # t => thread'[u] = thread[u]
        /\ thread'[t] = [thread[t] EXCEPT !.at = Op(t), !.iter = first]
    BY <1>0 DEF ListShaped
  <2> QED  BY ONLY <2>1, <2>2 DEF WorkerState
<1>2. /\ Op(t) \in {"append", "insert", "delete", "print"} /\ thread[t].calls # <<>>
      /\ Op(t) = "delete" => thread[t].previous = Null
  BY <1>0, InACall
<1>3. (Making(t))' <=> Making(t)
  BY ONLY <1>0, <1>1, <1>2 DEF Making, Op
<1>4. chain' = chain /\ Linked' = Linked /\ Listed' /\ OwnNode' /\ NothingLeaks'
        /\ ((OnTheWay(t))' => OnTheList')
  BY <1>0, <1>1, <1>3, HeapStays
<1>5. Locked'
  <2>1. lock'[first] = {t} /\ lock[first] = {}
    BY <1>0, FirstIsANode DEF ListShaped
  <2>2. \A u \in Workers : u # t => ~Holding(u)
    BY <2>1 DEF WhileRunning, Locked
  <2> QED  BY <1>1, <2>1, <2>2 DEF Locked, Holding
<1>6. (OnTheWay(t))'
  <2>1. first \in Linked /\ Null \notin Linked
    BY OfTheList, FirstIsANode DEF WhileRunning, Listed
  <2>2. Op(t) = "insert" => thread[t].previous \in Linked /\ heap[thread[t].previous].mutex = first
    BY <1>0 DEF Via, Mutex
  <2> QED  BY ONLY <1>0, <1>1, <1>2, <1>4, <2>1, <2>2 DEF OnTheWay, Op
<1> QED  BY <1>4, <1>5, <1>6 DEF WhileRunning

\* What is read of a node of the list.
LEMMA ReadOfLinked ==
  ASSUME ListShaped, WhileRunning, NEW n \in Linked
  PROVE  /\ NextOf(n) = {heap[n].next} /\ ValueOf(n) = {heap[n].value} /\ n \in Nodes
         /\ heap[n].live /\ heap[n].next \in Linked \cup {Null} /\ heap[n].next # Garbage
<1>1. Linked \subseteq Nodes /\ heap[n].live /\ heap[n].next \in Linked \cup {Null}
  BY OfTheList DEF WhileRunning, Listed
<1> QED  BY <1>1, FirstIsANode DEF NextOf, ValueOf, Seen

LEMMA WalkStep ==
  ASSUME ListShaped, InCall, WhileRunning, NEW t \in Workers, Walk(t), status' = "running"
  PROVE  WhileRunning' /\ chain' = chain
<1>1. thread[t].at \in {"append", "print"} /\ thread[t].iter \in Linked
        /\ (thread[t].at = "append" => heap[thread[t].iter].next # Null)
        /\ heap' = heap /\ lock' = lock
        /\ thread' = [thread EXCEPT ![t].iter = heap[thread[t].iter].next]
  <2>1. thread[t].at \in {"append", "print"} /\ thread[t].iter \in Linked
    BY DEF Walk, Running, WhileRunning, OnTheList, OnTheWay
  <2> QED  BY <2>1, ReadOfLinked DEF Walk
<1>2. /\ \A u \in Workers : u # t => thread'[u] = thread[u]
      /\ thread'[t].at = thread[t].at /\ thread'[t].calls = thread[t].calls
      /\ thread'[t].iter = heap[thread[t].iter].next /\ thread'[t].new = thread[t].new
  BY <1>1 DEF ListShaped, WorkerState
<1>3. (Making(t))' <=> Making(t)
  BY <1>2 DEF Making, Op
<1>4. chain' = chain /\ Linked' = Linked /\ Listed' /\ OwnNode' /\ NothingLeaks'
        /\ ((OnTheWay(t))' => OnTheList')
  BY <1>1, <1>2, <1>3, HeapStays
<1>5. Locked'
  BY <1>1, <1>2 DEF WhileRunning, Locked, Holding
<1>6. (OnTheWay(t))'
  <2>1. OnTheWay(t) /\ heap[thread[t].iter].next \in Linked \cup {Null}
    BY <1>1, ReadOfLinked DEF WhileRunning, OnTheList
  <2> QED  BY ONLY <1>1, <1>2, <1>4, <2>1 DEF OnTheWay, Op
<1> QED  BY <1>4, <1>5, <1>6 DEF WhileRunning

LEMMA AdvanceStep ==
  ASSUME ListShaped, InCall, WhileRunning, NEW t \in Workers, Advance(t), status' = "running"
  PROVE  WhileRunning' /\ chain' = chain
<1> DEFINE iter == thread[t].iter
<1>1. PICK next \in NextOf(iter) :
        /\ next # Garbage /\ heap' = heap /\ lock' = lock
        /\ thread' = [thread EXCEPT ![t].at = "delete", ![t].iter = next, ![t].previous = iter]
  BY DEF Advance, Crash
<1>2. /\ thread[t].at \in {"next", "delete"} /\ (thread[t].at = "delete" => iter # Null)
  BY DEF Advance, Running
<1>3. /\ iter \in Nodes /\ next = heap[iter].next /\ next \in Linked \cup {Null}
  <2>1. CASE thread[t].at = "delete"
    <3>1. iter \in Linked
      BY <1>2, <2>1 DEF WhileRunning, OnTheList, OnTheWay
    <3> QED  BY <1>1, <3>1, ReadOfLinked
  <2>2. CASE thread[t].at = "next"
    <3>1. iter \in Nodes /\ heap[iter].next \in Linked \cup {Null}
      BY <2>2 DEF WhileRunning, OnTheList, OnTheWay
    <3> QED  BY <1>1, <3>1 DEF NextOf, Seen
  <2> QED  BY <1>2, <2>1, <2>2
<1> HIDE DEF iter
<1>4. /\ \A u \in Workers : u # t => thread'[u] = thread[u]
      /\ thread'[t].at = "delete" /\ thread'[t].iter = next /\ thread'[t].previous = iter
      /\ thread'[t].calls = thread[t].calls /\ thread'[t].new = thread[t].new
  BY <1>1 DEF ListShaped, WorkerState
<1>5. ~(Making(t))' /\ ~Making(t)
  BY <1>2, <1>4 DEF Making
<1>6. chain' = chain /\ Linked' = Linked /\ Listed' /\ OwnNode' /\ NothingLeaks'
        /\ ((OnTheWay(t))' => OnTheList')
  BY <1>1, <1>4, <1>5, HeapStays
<1>7. Locked'
  <2>1. Locked
    BY DEF WhileRunning
  <2> QED  BY ONLY <1>1, <1>2, <1>4, <2>1 DEF Locked, Holding
<1>8. (OnTheWay(t))'
  <2>1. OnTheWay(t)
    BY DEF WhileRunning, OnTheList
  <2> QED  BY ONLY <1>1, <1>2, <1>3, <1>4, <1>6, <2>1, FirstIsANode DEF OnTheWay, Op
<1> QED  BY <1>6, <1>7, <1>8 DEF WhileRunning

LEMMA UnlockStep ==
  ASSUME ListShaped, InCall, WhileRunning, NEW t \in Workers, UnlockList(t), status' = "running"
  PROVE  WhileRunning' /\ chain' = chain
<1>1. /\ lock' = [lock EXCEPT ![Mutex(t)] = {}] /\ heap' = heap
      /\ thread' = [thread EXCEPT ![t].at = "call", ![t].calls = Tail(@)]
      /\ thread[t].at \in {"unlock", "print", "delete"}
  BY DEF UnlockList, Crash, Running
<1>2. Mutex(t) = first /\ lock[first] = {t}
  <2>1. Op(t) = "insert" => thread[t].at = "unlock"
    BY <1>1, InACall
  <2>2. Op(t) = "insert" => heap[thread[t].previous].mutex = first
    BY <2>1 DEF WhileRunning, OnTheList, OnTheWay
  <2>3. heap[first].mutex = first /\ lock[first] = {t}
    BY <1>1 DEF WhileRunning, Listed, Locked, Holding
  <2> QED  BY <2>2, <2>3 DEF Mutex, Via
<1>3. /\ \A u \in Workers : u # t => thread'[u] = thread[u]
      /\ thread'[t].at = "call" /\ thread'[t].new = thread[t].new
  BY <1>1 DEF ListShaped, WorkerState
<1>4. ~(Making(t))' /\ ~Making(t)
  BY <1>1, <1>3 DEF Making
<1>5. chain' = chain /\ Linked' = Linked /\ Listed' /\ OwnNode' /\ NothingLeaks'
  BY <1>1, <1>3, <1>4, HeapStays
<1>6. \A u \in Workers : ~(Holding(u))'
  <2> SUFFICES ASSUME NEW u \in Workers, u # t PROVE ~(Holding(u))'
    BY <1>3 DEF Holding
  <2>1. ~Holding(u)
    BY <1>2 DEF WhileRunning, Locked
  <2> QED  BY <1>3, <2>1 DEF Holding
<1>7. Locked' /\ OnTheList'
  BY <1>6 DEF Locked, OnTheList, OnTheWay, Holding
<1> QED  BY <1>5, <1>7 DEF WhileRunning

LEMMA AllocateStep ==
  ASSUME ListShaped, InCall, WhileRunning, NEW t \in Workers, Allocate(t)
  PROVE  WhileRunning' /\ chain' = chain
<1>a. PICK new \in Nodes, previous \in IF Op(t) = "insert" THEN Linked ELSE {Null},
           own \in Nodes \cup {heap[first].mutex} :
        /\ ~heap[new].live
        /\ heap' = [heap EXCEPT ![new] = [value |-> Value(t), next |-> Null, mutex |-> own, live |-> TRUE]]
        /\ lock' = IF own = new THEN [lock EXCEPT ![new] = {}] ELSE lock
        /\ thread' = [thread EXCEPT ![t].at = "lock", ![t].new = new, ![t].previous = previous]
  BY DEF Allocate
<1>b. thread[t].at = "call" /\ Op(t) \in {"append", "insert"} /\ thread[t].calls # <<>>
  BY DEF Allocate, Running
<1>c. /\ Linked \subseteq Nodes /\ \A n \in Linked : heap[n].live
      /\ \A n \in Linked : heap[n].next \in Linked \cup {Null}
      /\ first \in Linked /\ heap[first].mutex = first
  BY OfTheList DEF WhileRunning, Listed
<1>d. new \notin Linked /\ new # first
  BY <1>a, <1>c
<1>9. heap'[new].live /\ heap'[new].next = Null /\ \A n \in Nodes : n # new => heap'[n] = heap[n]
  BY <1>a DEF ListShaped
<1>e. lock'[first] = lock[first]
  BY <1>a, <1>d, FirstIsANode DEF ListShaped
<1>2. IsChain(heap', chain') /\ chain' = chain /\ Linked' = Linked
  <2>1. \A n \in Linked : heap'[n].next = heap[n].next
    BY <1>9, <1>c, <1>d
  <2> QED  BY <2>1, SameList DEF WhileRunning, Listed
<1>3. /\ \A u \in Workers : u # t => thread'[u] = thread[u]
      /\ thread'[t].at = "lock" /\ thread'[t].calls = thread[t].calls /\ thread'[t].new = new
  BY <1>a DEF ListShaped, WorkerState
<1>8. ASSUME NEW u \in Workers
      PROVE  /\ u # t => thread'[u] = thread[u] /\ ((Making(u))' <=> Making(u))
             /\ u = t => (Making(u))' /\ thread'[u].new = new /\ ~Making(u)
  <2>1. CASE u # t
    BY <1>3, <2>1, OthersStay
  <2>2. CASE u = t
    BY <1>b, <1>3, <2>2 DEF Making, Op
  <2> QED  BY <2>1, <2>2
<1>4. Locked'
  BY <1>b, <1>e, <1>3 DEF WhileRunning, Locked, Holding
<1>5. Listed'
  <2>1. \A n \in Linked : heap'[n].live
    BY <1>c, <1>d, <1>9
  <2>2. heap'[first].mutex = first
    BY <1>c, <1>d, <1>9
  <2> QED  BY <1>2, <2>1, <2>2 DEF Listed
<1>6. OwnNode'
  <2> SUFFICES ASSUME NEW u \in Workers, (Making(u))'
               PROVE  /\ thread'[u].new \in Nodes \ Linked
                      /\ heap'[thread'[u].new].live /\ heap'[thread'[u].new].next = Null
                      /\ \A v \in Workers : (Making(v))' /\ thread'[v].new = thread'[u].new => v = u
    BY <1>2 DEF OwnNode
  <2>1. \A v \in Workers : v # t /\ (Making(v))' =>
          thread'[v].new = thread[v].new /\ Making(v) /\ heap[thread[v].new].live /\ thread[v].new # new
    BY <1>8, <1>a DEF WhileRunning, OwnNode
  <2>2. CASE u = t
    BY <2>1, <2>2, <1>8, <1>9, <1>d
  <2>3. CASE u # t
    BY <2>1, <2>3, <1>8, <1>9 DEF WhileRunning, OwnNode
  <2> QED  BY <2>2, <2>3
<1>7. NothingLeaks'
  <2> SUFFICES ASSUME NEW n \in Nodes, heap'[n].live, n \notin Linked
               PROVE  \E u \in Workers : (Making(u))' /\ thread'[u].new = n
    BY <1>2 DEF NothingLeaks
  <2>1. CASE n = new
    BY <2>1, <1>8
  <2>2. CASE n # new
    <3>1. PICK u \in Workers : Making(u) /\ thread[u].new = n
      BY <2>2, <1>9 DEF WhileRunning, NothingLeaks
    <3>2. u # t
      BY <3>1, <1>8
    <3> QED  BY <3>1, <3>2, <1>8
  <2> QED  BY <2>1, <2>2
<1>10. OnTheList'
  <2> SUFFICES ASSUME NEW u \in Workers, u # t, thread'[u] = thread[u], (Op(u))' = Op(u)
               PROVE  (/\ thread[u].at = "append" => thread[u].iter \in Linked
                       /\ thread[u].at \in {"print", "delete"} => thread[u].iter \in Linked \cup {Null}
                       /\ thread[u].at = "delete" =>
                            /\ thread[u].previous = Null => thread[u].iter = first
                            /\ thread[u].previous \in Linked => heap'[thread[u].previous].next = thread[u].iter
                       /\ thread[u].at = "next" =>
                            /\ thread[u].iter \in Nodes \ Linked
                            /\ heap'[thread[u].iter].next \in Linked \cup {Null}
                       /\ thread[u].at \in {"insert", "unlock"} /\ Op(u) = "insert" =>
                            thread[u].previous \in Linked /\ heap'[thread[u].previous].mutex = first)
    BY <1>2, <1>3, <1>8, OthersStay DEF OnTheList, OnTheWay
  <2> QED  BY <1>9, <1>c, <1>d DEF WhileRunning, OnTheList, OnTheWay
<1> QED  BY <1>2, <1>4, <1>5, <1>6, <1>7, <1>10 DEF WhileRunning

\* A new node behind one of the list.
LEMMA ListGrows ==
  ASSUME IsChain(heap, chain), NEW behind \in Linked, NEW new \in Nodes \ Linked,
         heap'[new].next = heap[behind].next, heap'[behind].next = new,
         \A n \in Linked : n # behind => heap'[n].next = heap[n].next
  PROVE  /\ IsChain(heap', chain') /\ Linked' = Linked \cup {new}
         /\ \E p \in 1 .. Len(chain) : chain[p] = behind /\ chain' = InsertAt(chain, p + 1, new)
<1> DEFINE L == Len(chain)
<1>1. L \in Nat \ {0} /\ chain \in [1 .. L -> Nodes] /\ Linked = {chain[k] : k \in 1 .. L}
  BY OfTheList
<1>2. PICK p \in 1 .. L : chain[p] = behind
  BY <1>1
<1>3. \A j, k \in 1 .. L : chain[j] = chain[k] => j = k
  BY DEF IsChain
<1>4. IsChain(heap', InsertAt(chain, p + 1, new))
  <2>1. \A k \in 1 .. L : chain[k] # new
    BY <1>1
  <2>2. \A k \in 1 .. L : k # p => heap'[chain[k]].next = heap[chain[k]].next
    BY <1>1, <1>2, <1>3
  <2> QED  BY <1>2, <2>1, <2>2, ChainInserted
<1>5. chain' = InsertAt(chain, p + 1, new)
  BY <1>4, ChainFound DEF chain
<1> DEFINE r == InsertAt(chain, p + 1, new)
<1>6. /\ Len(r) = L + 1 /\ r \in [1 .. L + 1 -> Nodes]
      /\ \A k \in 1 .. L + 1 : r[k] = IF k <= p THEN chain[k] ELSE IF k = p + 1 THEN new ELSE chain[k - 1]
  BY <1>1, Inserted
<1>7. Linked' = {r[k] : k \in 1 .. L + 1}
  <2>1. Linked' = {chain'[k] : k \in DOMAIN chain'}
    BY DEF Linked, ToSet
  <2> HIDE DEF r
  <2>2. DOMAIN r = 1 .. L + 1
    BY <1>6
  <2>3. chain' = r
    BY <1>5 DEF r
  <2> QED  BY <2>1, <2>2, <2>3
<1> HIDE DEF r, L
<1>8. Linked' \subseteq Linked \cup {new}
  <2> SUFFICES ASSUME NEW k \in 1 .. L + 1 PROVE r[k] \in Linked \cup {new}
    BY <1>7
  <2>1. k <= p => k \in 1 .. L
    BY <1>1
  <2>2. k > p + 1 => k - 1 \in 1 .. L
    BY <1>1
  <2> QED  BY <2>1, <2>2, <1>1, <1>6
<1>9. new \in Linked'
  <2>1. p + 1 \in 1 .. L + 1 /\ r[p + 1] = new
    BY <1>1, <1>6
  <2> QED  BY <2>1, <1>7
<1>10. Linked \subseteq Linked'
  <2> SUFFICES ASSUME NEW k \in 1 .. L PROVE chain[k] \in Linked'
    BY <1>1
  <2>1. CASE k <= p
    <3>1. k \in 1 .. L + 1 /\ r[k] = chain[k]
      BY <2>1, <1>1, <1>6
    <3> QED  BY <3>1, <1>7
  <2>2. CASE k > p
    <3>1. k + 1 \in 1 .. L + 1 /\ ~(k + 1 <= p) /\ k + 1 # p + 1 /\ (k + 1) - 1 = k
      BY <2>2, <1>1
    <3>2. r[k + 1] = chain[k]
      BY <3>1, <1>6
    <3> QED  BY <3>1, <3>2, <1>7
  <2> QED  BY <2>1, <2>2
<1> QED  BY <1>2, <1>4, <1>5, <1>8, <1>9, <1>10 DEF r, L

\* A node taken out of the list.
LEMMA ListShrinks ==
  ASSUME IsChain(heap, chain), NEW before \in Linked, NEW gone \in Linked,
         heap[before].next = gone, heap'[before].next = heap[gone].next,
         \A n \in Linked : n \notin {before, gone} => heap'[n].next = heap[n].next
  PROVE  /\ IsChain(heap', chain') /\ chain' = RemoveFirst(chain, gone)
         /\ Linked' = Linked \ {gone} /\ before # gone /\ heap[gone].next # gone
<1> DEFINE L == Len(chain)
<1>1. L \in Nat \ {0} /\ chain \in [1 .. L -> Nodes] /\ Linked = {chain[k] : k \in 1 .. L}
  BY OfTheList
<1>2. PICK q \in 1 .. L : chain[q] = before
  BY <1>1
<1>3. \A j, k \in 1 .. L : chain[j] = chain[k] => j = k
  BY DEF IsChain
<1>4. /\ \A k \in 1 .. L - 1 : heap[chain[k]].next = chain[k + 1]
      /\ heap[chain[L]].next = Null /\ Null \notin Nodes
  BY ListAssumption DEF IsChain, Nodes, Null
<1> HIDE DEF L
<1> DEFINE p == q + 1
<1>5. p \in 2 .. L /\ chain[p] = gone /\ chain[p - 1] = before
  <2>1. q # L
    BY <1>1, <1>2, <1>4
  <2>2. q \in 1 .. L - 1 /\ (q + 1) - 1 = q
    BY <1>1, <1>2, <2>1
  <2> QED  BY <1>1, <1>2, <1>4, <2>2
<1> HIDE DEF p
<1>a. p \in 1 .. L /\ p - 1 \in 1 .. L /\ p - 1 # p
  BY <1>1, <1>5
<1>6. before # gone
  BY <1>3, <1>5, <1>a
<1>7. heap[gone].next # gone
  <2>1. CASE p = L
    BY <1>1, <1>4, <1>5, <2>1
  <2>2. CASE p # L
    <3>1. p \in 1 .. L - 1 /\ p + 1 \in 1 .. L /\ p + 1 # p
      BY <1>1, <1>a, <2>2
    <3> QED  BY <3>1, <1>a, <1>3, <1>4, <1>5
  <2> QED  BY <2>1, <2>2
<1>8. IsChain(heap', RemoveFirst(chain, chain[p]))
  <2>1. \A k \in 1 .. L : k \notin {p - 1, p} => heap'[chain[k]].next = heap[chain[k]].next
    BY <1>1, <1>3, <1>5, <1>a
  <2>2. heap'[chain[p - 1]].next = heap[chain[p]].next
    BY <1>5
  <2> QED  BY <1>5, <2>1, <2>2, ChainRemoved DEF L
<1>9. chain' = RemoveFirst(chain, gone)
  BY <1>5, <1>8, ChainFound DEF chain
<1> DEFINE r == RemoveFirst(chain, chain[p])
<1>10. /\ Len(r) = L - 1 /\ r \in [1 .. L - 1 -> Nodes]
       /\ \A k \in 1 .. L - 1 : r[k] = IF k < p THEN chain[k] ELSE chain[k + 1]
  <2>1. \A k \in 1 .. L : chain[k] = chain[p] => k = p
    BY <1>3, <1>a
  <2> QED  BY <1>1, <1>a, <2>1, Removed DEF L
<1>11. Linked' = {r[k] : k \in 1 .. L - 1}
  <2>1. Linked' = {chain'[k] : k \in DOMAIN chain'}
    BY DEF Linked, ToSet
  <2>2. chain' = r
    BY <1>5, <1>9
  <2> HIDE DEF r
  <2>3. DOMAIN r = 1 .. L - 1
    BY <1>10
  <2> QED  BY <2>1, <2>2, <2>3
<1> HIDE DEF r
<1>12. Linked' \subseteq Linked \ {gone}
  <2> SUFFICES ASSUME NEW k \in 1 .. L - 1 PROVE r[k] \in Linked \ {gone}
    BY <1>11
  <2>1. CASE k < p
    <3>1. k \in 1 .. L /\ k # p /\ r[k] = chain[k]
      BY <2>1, <1>1, <1>10
    <3> QED  BY <3>1, <1>1, <1>3, <1>5, <1>a
  <2>2. CASE ~(k < p)
    <3>1. k + 1 \in 1 .. L /\ k + 1 # p /\ r[k] = chain[k + 1]
      BY <2>2, <1>1, <1>a, <1>10
    <3> QED  BY <3>1, <1>1, <1>3, <1>5, <1>a
  <2> QED  BY <2>1, <2>2
<1>13. Linked \ {gone} \subseteq Linked'
  <2> SUFFICES ASSUME NEW k \in 1 .. L, k # p PROVE chain[k] \in Linked'
    BY <1>1, <1>5
  <2>1. CASE k < p
    <3>1. k \in 1 .. L - 1 /\ r[k] = chain[k]
      BY <2>1, <1>1, <1>a, <1>10
    <3> QED  BY <3>1, <1>11
  <2>2. CASE k > p
    <3>1. k - 1 \in 1 .. L - 1 /\ ~(k - 1 < p) /\ (k - 1) + 1 = k
      BY <2>2, <1>1, <1>a
    <3>2. r[k - 1] = chain[k]
      BY <3>1, <1>10
    <3> QED  BY <3>1, <3>2, <1>11
  <2> QED  BY <2>1, <2>2, <1>1, <1>a
<1> QED  BY <1>5, <1>6, <1>7, <1>8, <1>9, <1>12, <1>13

\* What append and insert have in common: the thread's new node comes behind
\* one of the list, and then it unlocks.
LEMMA LinkedStep ==
  ASSUME ListShaped, InCall, WhileRunning, NEW t \in Workers, thread[t].at \in {"append", "insert"},
         NEW behind \in Linked,
         heap' = [heap EXCEPT ![thread[t].new].next = heap[behind].next, ![behind].next = thread[t].new],
         thread' = [thread EXCEPT ![t].at = "unlock"], lock' = lock
  PROVE  /\ WhileRunning'
         /\ \E p \in 1 .. Len(chain) :
              chain[p] = behind /\ chain' = InsertAt(chain, p + 1, thread[t].new)
<1> DEFINE new == thread[t].new
<1>a. /\ new \in Nodes \ Linked /\ heap[new].live /\ lock[first] = {t}
      /\ Op(t) \in {"append", "insert"}
  BY InACall DEF WhileRunning, OwnNode, Making, Locked, Holding
<1>b. /\ Linked \subseteq Nodes /\ \A n \in Linked : heap[n].live
      /\ \A n \in Linked : heap[n].next \in Linked \cup {Null}
      /\ first \in Linked /\ heap[first].mutex = first
  BY OfTheList DEF WhileRunning, Listed
<1>c. /\ heap' = [heap EXCEPT ![new].next = heap[behind].next, ![behind].next = new]
      /\ behind \in Nodes /\ behind # new
  BY <1>a, <1>b
<1> HIDE DEF new
<1>d. /\ \A n \in Nodes : heap'[n].live = heap[n].live /\ heap'[n].mutex = heap[n].mutex
      /\ heap'[new].next = heap[behind].next /\ heap'[behind].next = new
      /\ \A n \in Nodes : n \notin {behind, new} => heap'[n] = heap[n]
  <2> DEFINE after == heap[behind].next
             h == [heap EXCEPT ![new].next = after]
  <2>1. heap \in [Nodes -> ListNode] /\ after \in Nodes \cup {Null, Garbage} /\ new \in Nodes
    BY <1>a, <1>c DEF ListShaped, ListNode
  <2>2. heap' = [h EXCEPT ![behind].next = new]
    BY <1>c
  <2> HIDE DEF after
  <2>3. /\ h \in [Nodes -> ListNode] /\ h[new].next = after
        /\ \A n \in Nodes : h[n].live = heap[n].live /\ h[n].mutex = heap[n].mutex
        /\ \A n \in Nodes : n # new => h[n] = heap[n]
    <3>1. h \in [Nodes -> ListNode]
      BY <2>1, PointedElsewhere
    <3>2. h = [heap EXCEPT ![new] = [heap[new] EXCEPT !.next = after]] /\ heap[new] \in ListNode
      BY <2>1
    <3>3. [heap[new] EXCEPT !.next = after].next = after
            /\ [heap[new] EXCEPT !.next = after].live = heap[new].live
            /\ [heap[new] EXCEPT !.next = after].mutex = heap[new].mutex
      BY <3>2 DEF ListNode
    <3> HIDE DEF h
    <3> QED  BY <2>1, <3>1, <3>2, <3>3
  <2> HIDE DEF h
  <2>4. /\ heap'[behind].next = new
        /\ \A n \in Nodes : heap'[n].live = h[n].live /\ heap'[n].mutex = h[n].mutex
        /\ \A n \in Nodes : n # behind => heap'[n] = h[n]
    <3>1. heap' = [h EXCEPT ![behind] = [h[behind] EXCEPT !.next = new]] /\ h[behind] \in ListNode
      BY <1>c, <2>2, <2>3
    <3>2. [h[behind] EXCEPT !.next = new].next = new
            /\ [h[behind] EXCEPT !.next = new].live = h[behind].live
            /\ [h[behind] EXCEPT !.next = new].mutex = h[behind].mutex
      BY <3>1 DEF ListNode
    <3> QED  BY <1>c, <2>3, <3>1, <3>2
  <2>5. behind # new /\ behind \in Nodes /\ new \in Nodes
    BY <1>c, <2>1
  <2>6. heap'[new].next = after /\ heap'[behind].next = new
    BY ONLY <2>3, <2>4, <2>5
  <2>7. /\ \A n \in Nodes : heap'[n].live = heap[n].live /\ heap'[n].mutex = heap[n].mutex
        /\ \A n \in Nodes : n \notin {behind, new} => heap'[n] = heap[n]
    BY ONLY <2>3, <2>4
  <2> QED  BY ONLY <2>6, <2>7 DEF after
<1>2. /\ IsChain(heap', chain') /\ Linked' = Linked \cup {new}
      /\ \E p \in 1 .. Len(chain) : chain[p] = behind /\ chain' = InsertAt(chain, p + 1, new)
  <2>1. \A n \in Linked : n # behind => heap'[n].next = heap[n].next
    BY ONLY <1>a, <1>b, <1>d
  <2>2. IsChain(heap, chain)
    BY DEF WhileRunning, Listed
  <2>3. new \in Nodes \ Linked /\ heap'[new].next = heap[behind].next /\ heap'[behind].next = new
    BY <1>a, <1>d DEF new
  <2> QED  BY ONLY <2>1, <2>2, <2>3, ListGrows, behind \in Linked
<1>3. /\ \A u \in Workers : u # t => thread'[u] = thread[u]
      /\ thread'[t].at = "unlock" /\ thread'[t].new = new /\ thread'[t].calls = thread[t].calls
      /\ thread'[t].previous = thread[t].previous
  BY DEF ListShaped, WorkerState, new
<1>8. ASSUME NEW u \in Workers
      PROVE  /\ u # t => thread'[u] = thread[u] /\ ((Making(u))' <=> Making(u))
             /\ u = t => ~(Making(u))' /\ Making(u)
             /\ u # t /\ Making(u) => thread[u].new # new
             /\ u # t => ~Holding(u)
             /\ thread'[u].new = thread[u].new
  <2>2. u = t => ~(Making(u))' /\ Making(u) /\ thread'[u].new = thread[u].new
    BY <1>3 DEF Making, new
  <2>3. u # t /\ Making(u) => thread[u].new # new
    BY <2>2 DEF WhileRunning, OwnNode, Making, new
  <2>4. u # t => ~Holding(u)
    BY <1>a DEF WhileRunning, Locked
  <2> QED  BY <1>3, <2>2, <2>3, <2>4, OthersStay
<1>4. Locked'
  <2> SUFFICES ASSUME NEW u \in Workers
               PROVE  (Holding(u))' => lock'[first] = {u}
    BY DEF Locked
  <2>1. u # t => ~(Holding(u))'
    BY <1>8, OthersStay
  <2> QED  BY <1>a, <2>1
<1>5. Listed'
  <2>1. (\A n \in Linked \cup {new} : heap'[n].live) /\ heap'[first].mutex = first
    BY ONLY <1>a, <1>b, <1>d
  <2>2. IsChain(heap', chain') /\ Linked' = Linked \cup {new}
    BY <1>2
  <2> QED  BY ONLY <2>1, <2>2 DEF Listed
<1>6. OwnNode'
  <2> SUFFICES ASSUME NEW u \in Workers, (Making(u))'
               PROVE  /\ thread'[u].new \in Nodes \ Linked'
                      /\ heap'[thread'[u].new].live /\ heap'[thread'[u].new].next = Null
                      /\ \A v \in Workers : (Making(v))' /\ thread'[v].new = thread'[u].new => v = u
    BY DEF OwnNode
  <2>1. u # t /\ Making(u) /\ thread'[u].new = thread[u].new /\ thread[u].new # new
    BY <1>8
  <2>2. /\ thread[u].new \in Nodes \ Linked /\ heap[thread[u].new].live
        /\ heap[thread[u].new].next = Null
        /\ \A v \in Workers : Making(v) /\ thread[v].new = thread[u].new => v = u
    BY <2>1 DEF WhileRunning, OwnNode
  <2>3. heap'[thread[u].new] = heap[thread[u].new]
    BY <2>1, <2>2, <1>d
  <2>4. \A v \in Workers : (Making(v))' => Making(v) /\ thread'[v].new = thread[v].new
    BY <1>8
  <2> QED  BY ONLY <1>2, <2>1, <2>2, <2>3, <2>4
<1>7. NothingLeaks'
  <2> SUFFICES ASSUME NEW n \in Nodes, heap'[n].live, n \notin Linked'
               PROVE  \E u \in Workers : (Making(u))' /\ thread'[u].new = n
    BY DEF NothingLeaks
  <2>1. PICK u \in Workers : Making(u) /\ thread[u].new = n
    BY <1>2, <1>d DEF WhileRunning, NothingLeaks
  <2>2. u # t
    BY <1>2, <2>1 DEF new
  <2> QED  BY <2>1, <2>2, <1>8
<1>9. OnTheList'
  <2>1. \A u \in Workers : u # t => thread'[u].at \notin {"append", "print", "delete", "next", "insert", "unlock"}
    BY <1>8 DEF Holding
  <2>2. ASSUME Op(t) = "insert"
        PROVE  thread[t].previous \in Linked' /\ heap'[thread[t].previous].mutex = first
    <3>1. thread[t].at = "insert"
      BY <2>2, InACall
    <3>2. thread[t].previous \in Linked /\ heap[thread[t].previous].mutex = first
      BY <2>2, <3>1 DEF WhileRunning, OnTheList, OnTheWay
    <3> QED  BY <3>2, <1>2, <1>b, <1>d
  <2> QED  BY <2>1, <2>2, <1>3 DEF OnTheList, OnTheWay, Op
<1> QED  BY <1>2, <1>4, <1>5, <1>6, <1>7, <1>9 DEF WhileRunning, new

\* append has gone to the last node, which points to none.
LEMMA LinkStep ==
  ASSUME ListShaped, InCall, WhileRunning, NEW t \in Workers, Link(t)
  PROVE  WhileRunning' /\ chain' = Append(chain, thread[t].new)
<1> DEFINE last == thread[t].iter  new == thread[t].new
<1>1. /\ thread[t].at = "append" /\ last \in Linked /\ heap[last].next = Null
      /\ new \in Nodes \ Linked /\ heap[new].next = Null
  <2>1. /\ thread[t].at = "append" /\ last \in Linked /\ Null \in NextOf(last)
        /\ new \in Nodes \ Linked /\ heap[new].next = Null
    BY DEF Link, Running, WhileRunning, OnTheList, OnTheWay, OwnNode, Making
  <2> QED  BY <2>1, ReadOfLinked
<1>2. Linked \subseteq Nodes
  BY LinkedAreNodes
<1>3. heap' = [heap EXCEPT ![new].next = heap[last].next, ![last].next = new]
  <2>1. heap' = [heap EXCEPT ![last].next = new]
    BY DEF Link
  <2>2. [heap EXCEPT ![new].next = Null] = heap
    BY <1>1 DEF ListShaped, ListNode
  <2> QED  BY <1>1, <2>1, <2>2
<1>4. /\ WhileRunning'
      /\ \E p \in 1 .. Len(chain) : chain[p] = last /\ chain' = InsertAt(chain, p + 1, new)
  BY <1>1, <1>3, LinkedStep DEF Link
<1>5. PICK p \in 1 .. Len(chain) : chain[p] = last /\ chain' = InsertAt(chain, p + 1, new)
  BY <1>4
<1>6. p = Len(chain)
  <2> DEFINE L == Len(chain)
  <2> SUFFICES ASSUME p # L PROVE FALSE
    OBVIOUS
  <2>1. L \in Nat \ {0} /\ chain \in [1 .. L -> Nodes] /\ \A k \in 1 .. L - 1 : heap[chain[k]].next = chain[k + 1]
    BY DEF WhileRunning, Listed, IsChain
  <2> HIDE DEF L
  <2>2. p \in 1 .. L
    BY DEF L
  <2>3. p \in 1 .. L - 1 /\ p + 1 \in 1 .. L
    BY <2>1, <2>2
  <2> QED  BY <1>1, <1>5, <2>1, <2>3, FirstIsANode
<1>7. InsertAt(chain, Len(chain) + 1, new) = Append(chain, new)
  BY <1>1, InsertedAtEnd DEF WhileRunning, Listed
<1> QED  BY <1>4, <1>5, <1>6, <1>7

LEMMA InsertStep ==
  ASSUME ListShaped, InCall, WhileRunning, NEW t \in Workers, Insert(t)
  PROVE  WhileRunning' /\ chain' = InsertAt(chain, Behind(thread[t].previous), thread[t].new)
<1> DEFINE previous == thread[t].previous  new == thread[t].new
<1>0. /\ thread[t].at = "insert" /\ lock' = lock /\ previous \in Linked
      /\ heap' = [heap EXCEPT ![new].next = heap[previous].next, ![previous].next = new]
      /\ thread' = [thread EXCEPT ![t].at = "unlock"]
  <2>1. thread[t].at = "insert"
    BY DEF Insert, Running
  <2>2. previous \in Linked
    BY <2>1, InACall DEF WhileRunning, OnTheList, OnTheWay
  <2>3. NextOf(previous) = {heap[previous].next}
    BY <2>2, ReadOfLinked
  <2>4. PICK next \in NextOf(previous) :
          heap' = [heap EXCEPT ![new].next = next, ![previous].next = new]
    BY DEF Insert
  <2>5. heap' = [heap EXCEPT ![new].next = heap[previous].next, ![previous].next = new]
    BY <2>3, <2>4
  <2> QED  BY <2>1, <2>2, <2>5 DEF Insert
<1>1. /\ WhileRunning'
      /\ \E p \in 1 .. Len(chain) : chain[p] = previous /\ chain' = InsertAt(chain, p + 1, new)
  BY <1>0, LinkedStep
<1>2. PICK p \in 1 .. Len(chain) : chain[p] = previous /\ chain' = InsertAt(chain, p + 1, new)
  BY <1>1
<1>3. Behind(previous) = p + 1
  <2>1. \A j, k \in 1 .. Len(chain) : chain[j] = chain[k] => j = k
    BY DEF WhileRunning, Listed, IsChain
  <2>2. DOMAIN chain = 1 .. Len(chain)
    BY DEF WhileRunning, Listed, IsChain
  <2> DEFINE found == CHOOSE k \in DOMAIN chain : chain[k] = previous
  <2>3. found \in 1 .. Len(chain) /\ chain[found] = chain[p]
    BY <1>2, <2>2
  <2>4. Behind(previous) = 1 + found
    BY DEF Behind
  <2> HIDE DEF found
  <2> QED  BY <2>1, <2>3, <2>4
<1> QED  BY <1>1, <1>2, <1>3

LEMMA DeleteStep ==
  ASSUME ListShaped, InCall, WhileRunning, NEW t \in Workers, Delete(t), status' = "running", ~stray'
  PROVE  WhileRunning' /\ chain' = RemoveFirst(chain, thread[t].iter)
<1> DEFINE iter == thread[t].iter  previous == thread[t].previous
<1>0. /\ thread[t].at = "delete" /\ iter \in Linked /\ lock' = lock /\ previous \in Linked
      /\ heap' = [heap EXCEPT ![previous].next = heap[iter].next, ![iter] = Freed(@)]
      /\ thread' = [thread EXCEPT ![t].at = "next"]
  BY DEF Delete, Crash, Running, WhileRunning, OnTheList, OnTheWay
<1>a. /\ Linked \subseteq Nodes /\ \A n \in Linked : heap[n].live
      /\ \A n \in Linked : heap[n].next \in Linked \cup {Null}
      /\ heap[first].mutex = first
  BY OfTheList DEF WhileRunning, Listed
<1>c. previous \in Nodes /\ iter \in Nodes
  BY <1>0, <1>a
<1>d. /\ previous # iter => heap'[previous].next = heap[iter].next /\ heap'[iter].next = heap[iter].next
      /\ \A n \in Nodes : n # iter => heap'[n].live = heap[n].live
      /\ ~heap'[iter].live
      /\ \A n \in Nodes : heap'[n].mutex = heap[n].mutex
      /\ \A n \in Nodes : n \notin {previous, iter} => heap'[n] = heap[n]
  <2> DEFINE after == heap[iter].next
             h == [heap EXCEPT ![previous].next = after]
  <2>1. heap \in [Nodes -> ListNode] /\ after \in Nodes \cup {Null, Garbage}
    BY <1>c DEF ListShaped, ListNode
  <2>2. heap' = [h EXCEPT ![iter] = [h[iter] EXCEPT !.live = FALSE]]
    BY <1>0 DEF Freed
  <2> HIDE DEF iter, previous, after
  <2>3. /\ h \in [Nodes -> ListNode] /\ h[previous].next = after
        /\ \A n \in Nodes : h[n].live = heap[n].live /\ h[n].mutex = heap[n].mutex
        /\ \A n \in Nodes : n # previous => h[n] = heap[n]
    <3>1. h \in [Nodes -> ListNode]
      BY <1>c, <2>1, PointedElsewhere
    <3>2. h = [heap EXCEPT ![previous] = [heap[previous] EXCEPT !.next = after]] /\ heap[previous] \in ListNode
      BY <1>c, <2>1
    <3>3. [heap[previous] EXCEPT !.next = after].next = after
            /\ [heap[previous] EXCEPT !.next = after].live = heap[previous].live
            /\ [heap[previous] EXCEPT !.next = after].mutex = heap[previous].mutex
      BY <3>2 DEF ListNode
    <3> HIDE DEF h
    <3> QED  BY <1>c, <2>1, <3>1, <3>2, <3>3
  <2> HIDE DEF h
  <2>4. /\ heap'[iter].next = h[iter].next /\ ~heap'[iter].live /\ heap'[iter].mutex = h[iter].mutex
        /\ \A n \in Nodes : n # iter => heap'[n] = h[n]
    <3>1. h[iter] \in ListNode
      BY <1>c, <2>3
    <3>2. [h[iter] EXCEPT !.live = FALSE].next = h[iter].next
            /\ ~[h[iter] EXCEPT !.live = FALSE].live
            /\ [h[iter] EXCEPT !.live = FALSE].mutex = h[iter].mutex
      BY <3>1 DEF ListNode
    <3> QED  BY <1>c, <2>2, <2>3, <3>2
  <2> QED  BY <1>c, <2>3, <2>4 DEF after
<1>f. heap[previous].next = iter
  BY <1>0 DEF WhileRunning, OnTheList, OnTheWay
<1>2. /\ IsChain(heap', chain') /\ chain' = RemoveFirst(chain, iter)
      /\ Linked' = Linked \ {iter} /\ heap[iter].next # iter /\ previous # iter
  <2>1. previous # iter
    <3>1. PICK p \in 1 .. Len(chain) : chain[p] = iter
      BY <1>0, OfTheList DEF WhileRunning, Listed
    <3> SUFFICES ASSUME previous = iter PROVE FALSE
      OBVIOUS
    <3>2. heap[chain[p]].next = chain[p]
      BY <1>f, <3>1
    <3> DEFINE L == Len(chain)
    <3>3. /\ L \in Nat \ {0} /\ chain \in [1 .. L -> Nodes] /\ heap[chain[L]].next = Null /\ Null \notin Nodes
          /\ \A k \in 1 .. L - 1 : heap[chain[k]].next = chain[k + 1]
          /\ \A j, k \in 1 .. L : chain[j] = chain[k] => j = k
      BY FirstIsANode DEF WhileRunning, Listed, IsChain
    <3>4. p \in 1 .. L
      OBVIOUS
    <3> HIDE DEF L
    <3>5. p # L
      BY <3>2, <3>3, <3>4
    <3>6. p \in 1 .. L - 1 /\ p + 1 \in 1 .. L /\ p + 1 # p
      BY <3>3, <3>4, <3>5
    <3> QED  BY <3>2, <3>3, <3>4, <3>6
  <2>2. \A n \in Linked : n \notin {previous, iter} => heap'[n].next = heap[n].next
    BY <1>a, <1>d
  <2>3. IsChain(heap, chain) /\ iter \in Linked /\ previous \in Linked
          /\ heap'[previous].next = heap[iter].next
    BY <1>0, <1>d, <2>1 DEF WhileRunning, Listed
  <2> HIDE DEF iter, previous
  <2> QED  BY ONLY <1>f, <2>1, <2>2, <2>3, ListShrinks
<1>9. /\ \A u \in Workers : u # t => thread'[u] = thread[u]
      /\ thread'[t].at = "next" /\ thread'[t].new = thread[t].new /\ thread'[t].iter = iter
  BY <1>0 DEF ListShaped, WorkerState
<1>8. ASSUME NEW u \in Workers
      PROVE  /\ ((Making(u))' <=> Making(u)) /\ thread'[u].new = thread[u].new
             /\ u # t => thread'[u] = thread[u] /\ ~Holding(u)
  <2>1. CASE u = t
    BY <1>0, <1>9, <2>1 DEF Making
  <2>2. CASE u # t
    <3>1. lock[first] = {t}
      BY <1>0 DEF WhileRunning, Locked, Holding
    <3> QED  BY <1>9, <2>2, <3>1, OthersStay DEF WhileRunning, Locked
  <2> QED  BY <2>1, <2>2
<1>4. Locked'
  <2> SUFFICES ASSUME NEW u \in Workers
               PROVE  (Holding(u))' => lock'[first] = {u}
    BY DEF Locked
  <2>1. lock'[first] = {t}
    BY <1>0 DEF Holding, WhileRunning, Locked
  <2>2. u # t => ~(Holding(u))'
    BY <1>8, OthersStay
  <2> QED  BY <2>1, <2>2
<1>5. Listed'
  <2>1. (\A n \in Linked \ {iter} : heap'[n].live) /\ heap'[first].mutex = first
    BY <1>a, <1>d, FirstIsANode
  <2>2. IsChain(heap', chain') /\ Linked' = Linked \ {iter}
    BY <1>2
  <2> QED  BY ONLY <2>1, <2>2 DEF Listed
<1>6. OwnNode'
  <2> SUFFICES ASSUME NEW u \in Workers, Making(u)
               PROVE  /\ thread[u].new \in Nodes \ Linked'
                      /\ heap'[thread[u].new].live /\ heap'[thread[u].new].next = Null
                      /\ \A v \in Workers : Making(v) /\ thread[v].new = thread[u].new => v = u
    BY <1>8 DEF OwnNode
  <2>1. /\ thread[u].new \in Nodes \ Linked /\ heap[thread[u].new].live
        /\ heap[thread[u].new].next = Null
        /\ \A v \in Workers : Making(v) /\ thread[v].new = thread[u].new => v = u
    BY DEF WhileRunning, OwnNode
  <2>2. heap'[thread[u].new] = heap[thread[u].new]
    BY <1>0, <1>d, <2>1
  <2> QED  BY <1>2, <2>1, <2>2
<1>7. NothingLeaks'
  <2> SUFFICES ASSUME NEW n \in Nodes, heap'[n].live, n \notin Linked'
               PROVE  \E u \in Workers : Making(u) /\ thread[u].new = n
    BY <1>8 DEF NothingLeaks
  <2>1. n # iter /\ n \notin Linked /\ heap[n].live
    BY <1>2, <1>d
  <2> QED  BY <2>1 DEF WhileRunning, NothingLeaks
<1>10. OnTheList'
  <2>1. \A u \in Workers : u # t => thread'[u].at \notin {"append", "print", "delete", "next", "insert", "unlock"}
    BY <1>8 DEF Holding
  <2>3. iter \in Nodes \ Linked' /\ heap'[iter].next \in Linked' \cup {Null}
    <3>1. heap'[iter].next = heap[iter].next /\ heap[iter].next \in Linked \cup {Null}
      BY <1>0, <1>a, <1>d, <1>2
    <3> QED  BY <1>c, <1>2, <3>1
  <2> QED  BY <2>1, <1>9, <2>3 DEF OnTheList, OnTheWay
<1> QED  BY <1>2, <1>4, <1>5, <1>6, <1>7, <1>10 DEF WhileRunning

\* main frees the nodes of the list, and there are no others.
LEMMA DeallocStep ==
  ASSUME ListShaped, InCall, WhileRunning, dealloc
  PROVE  /\ status' = "returned" /\ chain' = chain
         /\ \A n \in Nodes : ~heap'[n].live
<1>0. Whole
  <2>1. Len(chain) \in 1 .. Len(chain)
    BY OfTheList DEF WhileRunning, Listed
  <2> QED  BY <2>1 DEF Whole, WhileRunning, Listed, IsChain
<1>1. /\ \A t \in Workers : thread[t].calls = <<>>
      /\ thread' = thread /\ lock' = lock
      /\ heap' = [n \in Nodes |-> IF n \in Linked THEN [heap[n] EXCEPT !.live = FALSE] ELSE heap[n]]
      /\ status' = "returned"
  BY <1>0 DEF dealloc, Freed
<1>2. heap \in [Nodes -> ListNode]
  BY DEF ListShaped
<1>4. \A n \in Nodes : n \in Linked => ~heap'[n].live /\ heap'[n].next = heap[n].next
  BY <1>1, <1>2 DEF ListNode
<1>5. ASSUME NEW n \in Nodes, n \notin Linked PROVE ~heap'[n].live
  <2>1. \A t \in Workers : ~Making(t)
    BY <1>1, InACall DEF Making
  <2>2. ~heap[n].live
    BY <2>1, <1>5 DEF WhileRunning, NothingLeaks
  <2> QED  BY <1>1, <1>5, <2>2
<1>6. chain' = chain
  <2>1. Linked \subseteq Nodes /\ IsChain(heap, chain)
    BY OfTheList DEF WhileRunning, Listed
  <2>2. \A n \in Linked : heap'[n].next = heap[n].next
    BY <1>4, <2>1
  <2> QED  BY <2>1, <2>2, SameList
<1> QED  BY <1>1, <1>4, <1>5, <1>6

LEMMA DeallocShape ==
  ASSUME ListShaped, InCall, dealloc
  PROVE  ListShaped' /\ InCall'
<1>1. CASE Crash("abort") \/ Crash("segv")
  BY <1>1 DEF Crash, ListShaped, InCall, Placed
<1>2. CASE /\ heap' = [n \in Nodes |-> IF n \in Linked THEN Freed(heap[n]) ELSE heap[n]]
           /\ status' = "returned" /\ UNCHANGED <<lock, thread, stray>>
  <2>1. heap' \in [Nodes -> ListNode]
    <3>1. \A n \in Nodes : heap[n] \in ListNode /\ Freed(heap[n]) \in ListNode
      <4> SUFFICES ASSUME NEW node \in ListNode PROVE [node EXCEPT !.live = FALSE] \in ListNode
        BY DEF ListShaped, Freed
      <4> QED  BY DEF ListNode
    <3> QED  BY <1>2, <3>1
  <2> QED  BY <1>2, <2>1 DEF ListShaped, InCall, Placed
<1> QED  BY <1>1, <1>2 DEF dealloc

LEMMA ListStarts ==
  ASSUME ListInit
  PROVE  ListInv
<1>1. PICK scripts \in [Workers -> Scripts] : ListInitWith(scripts)
  BY DEF ListInit
<1>2. first \in Nodes /\ Null \notin Nodes /\ first = 1
  BY FirstIsANode DEF first
<1>3. ListShaped
  <2>1. heap \in [Nodes -> ListNode]
    BY <1>1, <1>2 DEF ListInitWith, ListNode
  <2>2. thread \in [Workers -> WorkerState]
    <3>1. Scripts \subseteq Seq(ListCall)
      BY ListAssumption DEF ListCall
    <3> QED  BY <1>1, <3>1 DEF ListInitWith, WorkerState
  <2> QED  BY <1>1, <2>1, <2>2 DEF ListShaped, ListInitWith
<1>4. IsChain(heap, <<first>>)
  <2>1. heap[first].next = Null
    BY <1>1, <1>2 DEF ListInitWith
  <2> QED  BY <1>2, <2>1 DEF IsChain
<1>5. chain = <<first>>
  BY <1>4, ChainFound DEF chain
<1>6. Linked = {first}
  BY <1>5 DEF Linked, ToSet
<1>7. \A t \in Workers : thread[t].at = "call"
  BY <1>1 DEF ListInitWith
<1>8. (\A n \in Nodes : heap[n].live <=> n = first) /\ heap[first].mutex = first
  BY <1>1, <1>2 DEF ListInitWith
<1>9. InCall /\ Locked /\ OwnNode /\ OnTheList
  BY <1>7 DEF InCall, Placed, Locked, OwnNode, OnTheList, OnTheWay, Holding, Making
<1>10. Listed /\ NothingLeaks
  BY <1>2, <1>4, <1>5, <1>6, <1>8 DEF Listed, NothingLeaks
<1>11. status = "running"
  BY <1>1 DEF ListInitWith
<1> QED  BY <1>3, <1>9, <1>10, <1>11 DEF ListInv, WhileRunning

\* One whole operation of the thread.
OneOperation(t) ==
  /\ t \in lock[first]
  /\ \/ Op(t) = "append" /\ chain' = Append(chain, thread[t].new)
     \/ /\ Op(t) = "insert"
        /\ chain' = InsertAt(chain, Behind(thread[t].previous), thread[t].new)
     \/ /\ Op(t) = "delete" /\ Value(t) = heap[thread[t].iter].value
        /\ chain' = RemoveFirst(chain, thread[t].iter)

\* What every step does to the list, and that the invariant survives it.
LEMMA ListStep ==
  ASSUME ListInv, NEW t \in Workers, list_routine(t)
  PROVE  ListInv' /\ (~stray' /\ chain' # chain => OneOperation(t))
<1>0. status = "running" /\ ListShaped /\ InCall /\ ListShaped' /\ InCall'
  <2>1. status = "running"
    BY DEF list_routine, Allocate, Call, LockList, LockWith, Walk, Link, Insert, Delete, Advance, UnlockList, Running
  <2> QED  BY <2>1, ListShapes DEF ListInv
<1>1. (stray => stray') /\ status' # "returned"
  BY <1>0 DEF ListShaped, list_routine, Allocate, Call, LockList, LockWith, Walk, Link, Insert, Delete, Advance,
     UnlockList, Crash
<1>2. CASE stray'
  BY <1>0, <1>2 DEF ListInv
<1> SUFFICES ASSUME ~stray'
             PROVE  /\ status' # "abort" /\ (status' = "running" => WhileRunning')
                    /\ chain' # chain => OneOperation(t)
  BY <1>0, <1>1, <1>2 DEF ListInv
<1>3. WhileRunning
  BY <1>0, <1>1 DEF ListInv
<1>4. heap' = heap => chain' = chain
  BY DEF chain
<1>5. thread[t].at \in {"append", "insert", "delete"} => t \in lock[first] /\ Op(t) = thread[t].at
  BY <1>0, <1>3, InACall DEF WhileRunning, Locked, Holding
<1>6. ASSUME Crash("segv")
      PROVE  status' = "segv" /\ heap' = heap
  BY <1>6 DEF Crash
<1>a. CASE Allocate(t)
  BY <1>0, <1>3, <1>a, AllocateStep DEF Allocate
<1>b. CASE Call(t)
  BY <1>0, <1>3, <1>b, CallStep DEF Call
<1>c. CASE LockList(t)
  BY <1>0, <1>3, <1>4, <1>6, <1>c, LockStep DEF LockList, LockWith
<1>d. CASE Walk(t)
  BY <1>0, <1>3, <1>4, <1>6, <1>d, WalkStep DEF Walk
<1>e. CASE Link(t)
  <2>1. thread[t].at = "append" /\ status' = "running"
    BY <1>0, <1>e DEF Link, Running
  <2> QED  BY <1>0, <1>3, <1>5, <1>e, <2>1, LinkStep DEF OneOperation
<1>f. CASE Insert(t)
  <2>1. thread[t].at = "insert" /\ status' = "running"
    BY <1>0, <1>f DEF Insert, Running
  <2> QED  BY <1>0, <1>3, <1>5, <1>f, <2>1, InsertStep DEF OneOperation
<1>g. CASE Delete(t)
  <2>1. thread[t].at = "delete" /\ Value(t) = heap[thread[t].iter].value /\ heap[thread[t].iter].live
    <3>1. thread[t].at = "delete" /\ thread[t].iter \in Linked /\ Value(t) \in ValueOf(thread[t].iter)
      BY <1>3, <1>g DEF Delete, Running, WhileRunning, OnTheList, OnTheWay
    <3> QED  BY <1>0, <1>3, <3>1, ReadOfLinked
  <2>2. CASE Crash("segv")
    BY <1>4, <1>6, <2>2
  <2>3. CASE ~Crash("segv")
    <3>1. status' = "running"
      BY <1>0, <1>g, <2>1, <2>3 DEF Delete
    <3> QED  BY <1>0, <1>3, <1>5, <1>g, <2>1, <3>1, DeleteStep DEF OneOperation
  <2> QED  BY <2>2, <2>3
<1>h. CASE Advance(t)
  BY <1>0, <1>3, <1>4, <1>6, <1>h, AdvanceStep DEF Advance
<1>i. CASE UnlockList(t)
  BY <1>0, <1>3, <1>4, <1>6, <1>i, UnlockStep DEF UnlockList
<1> QED  BY <1>a, <1>b, <1>c, <1>d, <1>e, <1>f, <1>g, <1>h, <1>i DEF list_routine

LEMMA ListUnchanged ==
  ASSUME ListInv, UNCHANGED listVars
  PROVE  ListInv'
<1>1. chain' = chain /\ Linked' = Linked
  BY DEF listVars, chain, Linked
<1>2. \A t \in Workers : ((Making(t))' <=> Making(t)) /\ ((Holding(t))' <=> Holding(t)) /\ (Op(t))' = Op(t)
  BY OthersStay DEF listVars
<1>3. ListShaped' /\ InCall'
  BY DEF ListInv, ListShaped, InCall, Placed, listVars
<1>4. ASSUME WhileRunning PROVE WhileRunning'
  <2>1. Locked'
    BY <1>2, <1>4 DEF WhileRunning, Locked, listVars
  <2>2. Listed'
    BY <1>1, <1>4 DEF WhileRunning, Listed, listVars
  <2>3. OwnNode' /\ NothingLeaks'
    BY <1>1, <1>2, <1>4 DEF WhileRunning, OwnNode, NothingLeaks, listVars
  <2>4. OnTheList'
    BY <1>1, <1>2, <1>4 DEF WhileRunning, OnTheList, OnTheWay, listVars
  <2> QED  BY <2>1, <2>2, <2>3, <2>4 DEF WhileRunning
<1> QED  BY <1>3, <1>4 DEF ListInv, listVars

LEMMA ListEnds ==
  ASSUME ListInv, dealloc
  PROVE  ListInv' /\ (~stray' => chain' = chain)
<1>1. ListShaped' /\ InCall' /\ status = "running" /\ stray' = stray /\ status' # "running"
  BY DeallocShape DEF ListInv, dealloc, Crash
<1>2. CASE stray
  BY <1>1, <1>2 DEF ListInv
<1>3. CASE ~stray
  <2>1. WhileRunning
    BY <1>1, <1>3 DEF ListInv
  <2> QED  BY <1>1, <2>1, DeallocStep DEF ListInv
<1> QED  BY <1>2, <1>3

\* The inductive invariant of the list: the types always, and its order until a
\* call uses a node that is not in the list as if it were.
THEOREM ListInvariant == ListSpec => []ListInv
<1>1. ListInit => ListInv
  BY ListStarts
<1>2. ListInv /\ [ListNext]_listVars => ListInv'
  <2> SUFFICES ASSUME ListInv, [ListNext]_listVars PROVE ListInv'
    OBVIOUS
  <2>1. CASE UNCHANGED listVars
    BY <2>1, ListUnchanged
  <2>2. CASE \E t \in Workers : list_routine(t)
    BY <2>2, ListStep
  <2>3. CASE dealloc
    BY <2>3, ListEnds
  <2> QED  BY <2>1, <2>2, <2>3 DEF ListNext
<1> QED  BY <1>1, <1>2, PTL DEF ListSpec

\* The pointers and the mutexes are what their types say, whatever the threads
\* call and whatever they read of freed nodes.
THEOREM ListTyped == ListSpec => []ListTypeOK
<1>1. ListInv => ListTypeOK
  <2> SUFFICES ASSUME ListInv, NEW t \in Workers
               PROVE  /\ thread[t].at \in {"call", "lock", "append", "insert", "delete", "print", "next", "unlock"}
                      /\ {thread[t].iter, thread[t].previous, thread[t].new} \subseteq Nodes \cup {Null}
    BY DEF ListInv, ListShaped, ListNode, ListTypeOK
  <2>1. thread[t] \in WorkerState
    BY DEF ListInv, ListShaped
  <2> QED  BY <2>1 DEF WorkerState
<1> QED  BY <1>1, ListInvariant, PTL

\* As long as no call has used a node that is not in the list as if it were: what
\* is linked is allocated and linked once, no node is freed twice, and when main
\* has returned nothing is allocated (linked_list.c: every node is freed, by a
\* delete or at the end).  It says nothing of what comes after a delete of two
\* equal neighbours, or an insert behind a node that has gone meanwhile or leads
\* to another mutex: the program then links freed nodes and frees them again.
THEOREM ListNodesAccounted == ListSpec => []NodesAccounted
<1>1. ListInv => NodesAccounted
  <2> SUFFICES ASSUME ListInv, ~stray, status = "running"
               PROVE  /\ \A n \in Linked : heap[n].live
                      /\ \A j, k \in DOMAIN chain : chain[j] = chain[k] => j = k
    BY DEF ListInv, NodesAccounted
  <2>1. IsChain(heap, chain) /\ \A n \in Linked : heap[n].live
    BY DEF ListInv, WhileRunning, Listed
  <2> QED  BY <2>1 DEF IsChain
<1> QED  BY <1>1, ListInvariant, PTL

\* Until such a call, every change of the list is one whole operation of the
\* thread that has locked the mutex of the first node.
THEOREM ListIsSequence == ListSpec => ListAsSequence
<1>1. ListInv /\ [ListNext]_listVars =>
        [~stray' /\ chain' # chain => \E t \in lock[first] : OneOperation(t)]_listVars
  <2> SUFFICES ASSUME ListInv, ListNext, ~stray', chain' # chain
               PROVE  \E t \in lock[first] : OneOperation(t)
    OBVIOUS
  <2>1. PICK t \in Workers : list_routine(t)
    BY ListEnds DEF ListNext
  <2>2. OneOperation(t)
    BY <2>1, ListStep
  <2> QED  BY <2>2 DEF OneOperation
<1>2. ListSpec => [][~stray' /\ chain' # chain => \E t \in lock[first] : OneOperation(t)]_listVars
  BY <1>1, ListInvariant, PTL DEF ListSpec
<1>3. (~stray' /\ chain' # chain => \E t \in lock[first] : OneOperation(t)) =>
        (~stray' /\ chain' # chain =>
           \E t \in lock[first] :
             \/ Op(t) = "append" /\ chain' = Append(chain, thread[t].new)
             \/ /\ Op(t) = "insert"
                /\ chain' = InsertAt(chain, Behind(thread[t].previous), thread[t].new)
             \/ /\ Op(t) = "delete" /\ Value(t) = heap[thread[t].iter].value
                /\ chain' = RemoveFirst(chain, thread[t].iter))
  BY DEF OneOperation
<1> QED  BY <1>2, <1>3, PTL DEF ListAsSequence

==============================================================================
