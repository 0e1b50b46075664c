----------------------------- MODULE ChatProofs ------------------------------
(***************************************************************************)
(* Proofs about the chat server, for any number of clients and whatever     *)
(* they type.  Whoever leaves, and whatever updates of connections are lost *)
(* then, it does not count beyond the clients that have come; as long as    *)
(* nobody leaves, buddies are each other's, the server is up, and what is   *)
(* sent is heard.                                                           *)
(***************************************************************************)
EXTENDS Chat, FiniteSetTheorems, SequenceTheorems, WellFoundedInduction, TLAPS

-----------------------------------------------------------------------------
(***************************************************************************)
(* Least and Greatest.                                                      *)
(***************************************************************************)

\* A set of numbers has a least one: among the intervals from 0 to its members,
\* which are finite sets, one has no other below it.
LEMMA LeastElement ==
  ASSUME NEW S \in SUBSET Nat, S # {}
  PROVE  Least(S) \in S /\ \A m \in S : Least(S) <= m
<1> DEFINE Intervals == {0 .. n : n \in S}
<1>1. Intervals \subseteq FiniteSubsetsOf(Nat) /\ Intervals # {}
  <2> SUFFICES ASSUME NEW n \in S PROVE 0 .. n \in FiniteSubsetsOf(Nat)
    OBVIOUS
  <2>1. IsFiniteSet(0 .. n)
    BY FS_Interval
  <2> QED  BY <2>1 DEF FiniteSubsetsOf
<1>2. PICK X \in Intervals :
        \A Y \in Intervals : <<Y, X>> \notin StrictSubsetOrdering(Nat)
  <2> HIDE DEF Intervals
  <2> QED  BY <1>1, FS_StrictSubsetOrderingWellFounded, WFMin
<1>3. PICK n \in S : X = 0 .. n
  OBVIOUS
<1>4. ASSUME NEW m \in S, m < n
      PROVE  FALSE
  <2>1. n \in X /\ n \notin 0 .. m
    BY <1>3, <1>4
  <2>2. 0 .. m \subseteq X /\ X \subseteq Nat
    BY <1>3, <1>4
  <2>3. <<0 .. m, X>> \in StrictSubsetOrdering(Nat)
    BY <2>1, <2>2 DEF StrictSubsetOrdering
  <2> QED  BY <1>2, <2>3
<1>5. \A m \in S : n <= m
  BY <1>4
<1> QED  BY <1>5 DEF Least

\* A set of slots has a greatest: the least when they are counted from the end.
LEMMA GreatestElement ==
  ASSUME NEW S \in SUBSET Slots, S # {}
  PROVE  Greatest(S) \in S
<1> USE ChatAssumption DEF Slots
<1> DEFINE FromEnd == {N - s : s \in S}
<1>1. FromEnd \subseteq Nat /\ FromEnd # {}
  OBVIOUS
<1>2. PICK n \in FromEnd : \A m \in FromEnd : n <= m
  <2> HIDE DEF FromEnd
  <2> QED  BY <1>1, LeastElement
<1>3. PICK greatest \in S : n = N - greatest
  BY <1>2
<1>4. \A m \in S : m <= greatest
  <2> SUFFICES ASSUME NEW m \in S PROVE m <= greatest
    OBVIOUS
  <2>1. N - m \in FromEnd
    OBVIOUS
  <2>2. n <= N - m
    BY <1>2, <2>1
  <2> QED  BY <1>3, <2>2
<1> QED  BY <1>4 DEF Greatest

\* find_client_by_fd returns a slot that holds the descriptor, if there is one.
LEMMA FindsFd ==
  ASSUME NEW f
  PROVE  /\ find_client_by_fd(f) \in Slots \cup {NULL}
         /\ find_client_by_fd(f) # NULL => fd[find_client_by_fd(f)] = f
         /\ (\E s \in Slots : fd[s] = f) => find_client_by_fd(f) # NULL
<1> DEFINE Holding == {s \in Slots : fd[s] = f}
<1>1. CASE Holding = {}
  BY <1>1, ChatAssumption DEF find_client_by_fd, Slots, NULL
<1>2. CASE Holding # {}
  <2>1. Least(Holding) \in Holding
    BY <1>2, LeastElement, ChatAssumption DEF Slots
  <2>2. find_client_by_fd(f) = Least(Holding)
    BY <1>2 DEF find_client_by_fd
  <2> QED  BY <2>1, <2>2, ChatAssumption DEF Slots, NULL
<1> QED  BY <1>1, <1>2

-----------------------------------------------------------------------------
(***************************************************************************)
(* The words.                                                               *)
(***************************************************************************)

\* What a client sends is words, and quiet ones but for its exit signal.
LEMMA ClientWords ==
  ASSUME NEW c \in Clients, NEW n \in Nat \ {0}
  PROVE  /\ Name(c) \in Seq(Quiet) /\ Key(c) \in Seq(Quiet) /\ Text(c, n) \in Seq(Quiet)
         /\ Name(c) \in Seq(Words) /\ Key(c) \in Seq(Words) /\ Text(c, n) \in Seq(Words)
         /\ ExitSignal(c) \in Seq(Words)
<1>1. \A what \in {"name", "key", "text"}, part \in Nat : Word(c, what, part) \in Quiet
  BY DEF Word, Quiet, Words
<1>2. \A part \in Nat : Word(c, "exit", part) \in Words
  BY DEF Word, Words
<1>3. Name(c) \in Seq(Quiet)
  BY <1>1 DEF Name
<1>4. Key(c) \in Seq(Quiet)
  <2>1. Key(c) \in [1 .. 4 -> Quiet]
    BY <1>1 DEF Key
  <2> QED  BY <2>1, SeqDef
<1>5. Text(c, n) \in Seq(Quiet)
  <2>1. 2 * n - 1 \in Nat /\ 2 * n \in Nat
    OBVIOUS
  <2> QED  BY <1>1, <2>1 DEF Text
<1>6. ExitSignal(c) \in Seq(Words)
  BY <1>2 DEF ExitSignal
<1>7. Quiet \subseteq Words
  BY DEF Quiet, Words
<1>8. \A s \in Seq(Quiet) : s \in Seq(Words)
  BY <1>7, SeqMonotonic
<1> QED  BY <1>3, <1>4, <1>5, <1>6, <1>8

\* What is left in a stream when words are taken from it.
LEMMA DropWords ==
  ASSUME NEW S, NEW s \in Seq(S), NEW n \in Nat
  PROVE  Drop(s, n) \in Seq(S)
<1>1. Len(s) \in Nat /\ n + 1 \in Int /\ \A i \in n + 1 .. Len(s) : s[i] \in S
  BY ElementOfSeq
<1> QED  BY <1>1, SubSeqProperties DEF Drop

\* The first words of a stream and the rest make it up.
LEMMA TakeDrop ==
  ASSUME NEW S, NEW s \in Seq(S), NEW n \in Nat \ {0}
  PROVE  /\ Take(s, n) \in Seq(S) /\ Drop(s, n) \in Seq(S)
         /\ Take(s, n) \o Drop(s, n) = s
         /\ s # <<>> => Take(s, n) # <<>>
<1>1. Len(s) \in Nat /\ \A j \in 1 .. Len(s) : s[j] \in S
  BY ElementOfSeq, LenProperties
<1>2. Drop(s, n) \in Seq(S)
  BY DropWords
<1>3. CASE n < Len(s)
  <2>1. Take(s, n) = SubSeq(s, 1, n)
    BY <1>3 DEF Take
  <2>2. SubSeq(s, 1, n) \in Seq(S) /\ Len(SubSeq(s, 1, n)) = n
    <3>1. 1 \in Int /\ n \in Int /\ 1 <= n /\ n - 1 + 1 = n /\ \A j \in 1 .. n : s[j] \in S
      BY <1>1, <1>3
    <3>2. SubSeq(s, 1, n) \in Seq(S)
          /\ Len(SubSeq(s, 1, n)) = IF 1 <= n THEN n - 1 + 1 ELSE 0
      BY <3>1, SubSeqProperties
    <3> QED  BY <3>1, <3>2
  <2>3. SubSeq(s, 1, n) \o SubSeq(s, n + 1, Len(s)) = s
    <3>1. 1 \in 1 .. Len(s) + 1 /\ n \in 1 - 1 .. Len(s) /\ Len(s) \in n .. Len(s)
      BY <1>1, <1>3
    <3>2. SubSeq(s, 1, n) \o SubSeq(s, n + 1, Len(s)) = SubSeq(s, 1, Len(s))
      BY <3>1, ConcatAdjacentSubSeq, Zenon
    <3> QED  BY <3>2, SubSeqFull, Zenon
  <2>4. SubSeq(s, 1, n) # <<>>
    <3>1. Len(<<>>) = 0 /\ n # 0
      BY EmptySeq
    <3> QED  BY <2>2, <3>1, Zenon
  <2> QED  BY <1>2, <2>1, <2>2, <2>3, <2>4, Zenon DEF Drop
<1>4. CASE ~(n < Len(s))
  <2>1. Take(s, n) = s
    <3>1. Take(s, n) = SubSeq(s, 1, Len(s))
      BY <1>4 DEF Take
    <3> QED  BY <3>1, SubSeqFull, Zenon
  <2>2. Drop(s, n) = <<>>
    <3>1. n + 1 \in Int /\ Len(s) \in Int /\ Len(s) < n + 1
      BY <1>1, <1>4
    <3> QED  BY <3>1, SubSeqEmpty, Zenon DEF Drop
  <2>3. s \o <<>> = s
    BY ConcatEmptySeq, Zenon
  <2> QED  BY <1>2, <2>1, <2>2, <2>3, Zenon
<1> QED  BY <1>3, <1>4

\* How much a read takes, and that a buffer it fills has nothing stale.
LEMMA TakeLength ==
  ASSUME NEW S, NEW s \in Seq(S), NEW n \in Nat \ {0}
  PROVE  /\ Len(Take(s, n)) = IF n < Len(s) THEN n ELSE Len(s)
         /\ \A k \in 1 .. Len(Take(s, n)) : Take(s, n)[k] = s[k]
<1>1. Len(s) \in Nat /\ \A j \in 1 .. Len(s) : s[j] \in S
  BY ElementOfSeq, LenProperties
<1>2. PICK m \in Nat : m = (IF n < Len(s) THEN n ELSE Len(s)) /\ m <= Len(s)
  BY <1>1
<1>3. Take(s, n) = SubSeq(s, 1, m)
  BY <1>2 DEF Take
<1>4. /\ Len(SubSeq(s, 1, m)) = IF 1 <= m THEN m - 1 + 1 ELSE 0
      /\ \A k \in 1 .. m - 1 + 1 : SubSeq(s, 1, m)[k] = s[1 + k - 1]
  <2>1. 1 \in Int /\ m \in Int /\ \A j \in 1 .. m : s[j] \in S
    BY <1>1, <1>2
  <2> QED  BY <2>1, SubSeqProperties
<1>5. Len(SubSeq(s, 1, m)) = m /\ \A k \in 1 .. m : SubSeq(s, 1, m)[k] = s[k]
  BY <1>4
<1> QED  BY <1>2, <1>3, <1>5

LEMMA PaddedFull ==
  ASSUME NEW S, NEW words \in Seq(S), NEW n \in Nat, Len(words) = n
  PROVE  Padded(words, n) = words
<1>1. [k \in 1 .. n - Len(words) |-> Stale] = <<>>
  OBVIOUS
<1> QED  BY <1>1, ConcatEmptySeq DEF Padded

\* Whole longs stay whole when a long or a key is added or taken.
LEMMA WholeGrows ==
  ASSUME NEW S, NEW s \in Seq(S), NEW t \in Seq(S), Whole(s), Whole(t)
  PROVE  Whole(s \o t)
<1>1. Len(s) \in Nat /\ Len(t) \in Nat /\ Len(s \o t) = Len(s) + Len(t)
  BY LenProperties, ConcatProperties
<1>2. PICK i \in 0 .. Len(s), j \in 0 .. Len(t) : Len(s) = 2 * i /\ Len(t) = 2 * j
  BY DEF Whole
<1>3. i + j \in 0 .. Len(s \o t) /\ Len(s \o t) = 2 * (i + j)
  BY <1>1, <1>2
<1> QED  BY <1>3 DEF Whole

LEMMA DropLength ==
  ASSUME NEW S, NEW s \in Seq(S), NEW n \in Nat
  PROVE  Len(Drop(s, n)) = IF n < Len(s) THEN Len(s) - n ELSE 0
<1>1. Len(s) \in Nat /\ n + 1 \in Int /\ \A i \in n + 1 .. Len(s) : s[i] \in S
  BY ElementOfSeq, LenProperties
<1>2. Len(SubSeq(s, n + 1, Len(s))) =
        IF n + 1 <= Len(s) THEN Len(s) - (n + 1) + 1 ELSE 0
  BY <1>1, SubSeqProperties
<1> QED  BY <1>1, <1>2 DEF Drop

LEMMA WholeDrops ==
  ASSUME NEW S, NEW s \in Seq(S), Whole(s), NEW n \in {2, 4}
  PROVE  Whole(Drop(s, n))
<1>1. Len(s) \in Nat /\ Len(Drop(s, n)) = IF n < Len(s) THEN Len(s) - n ELSE 0
  BY DropLength, LenProperties
<1>2. PICK i \in 0 .. Len(s) : Len(s) = 2 * i
  BY DEF Whole
<1>3. PICK j \in {1, 2} : n = 2 * j
  OBVIOUS
<1>4. CASE n < Len(s)
  <2>1. i - j \in 0 .. Len(Drop(s, n)) /\ Len(Drop(s, n)) = 2 * (i - j)
    BY <1>1, <1>2, <1>3, <1>4
  <2> QED  BY <2>1 DEF Whole
<1>5. CASE ~(n < Len(s))
  <2>1. 0 \in 0 .. Len(Drop(s, n)) /\ Len(Drop(s, n)) = 2 * 0
    BY <1>1, <1>5
  <2> QED  BY <2>1 DEF Whole
<1> QED  BY <1>4, <1>5

\* A long is read whole, and is one of the words that were sent.
LEMMA WholeLong ==
  ASSUME NEW S, NEW s \in Seq(S), Whole(s), s # <<>>
  PROVE  Padded(Take(s, 2), 2) = Take(s, 2) /\ Take(s, 2)[2] \in S
<1>0. Len(s) \in Nat \ {0}
  BY LenProperties, EmptySeq
<1>1. \A j \in 1 .. Len(s) : s[j] \in S
  BY ElementOfSeq
<1>2. PICK i \in 0 .. Len(s) : Len(s) = 2 * i
  BY DEF Whole
<1>3. \A m \in Nat \ {0} : \A k \in 0 .. m : m = 2 * k =>
        2 \in 1 .. m /\ (2 < m \/ m = 2)
  OBVIOUS
<1>4. 2 \in 1 .. Len(s) /\ (2 < Len(s) \/ Len(s) = 2)
  BY <1>0, <1>2, <1>3, Zenon
<1>4a. 2 \in Nat \ {0} /\ 2 \in 1 .. 2
  OBVIOUS
<1>5. /\ Len(Take(s, 2)) = IF 2 < Len(s) THEN 2 ELSE Len(s)
      /\ \A k \in 1 .. Len(Take(s, 2)) : Take(s, 2)[k] = s[k]
  BY <1>4a, TakeLength, Zenon
<1>6. Len(Take(s, 2)) = 2
  BY <1>4, <1>5
<1>7. Take(s, 2)[2] = s[2]
  BY <1>4a, <1>5, <1>6, Zenon
<1>7a. s[2] \in S
  BY <1>1, <1>4, Zenon
<1>8. Take(s, 2) \in Seq(S)
  BY <1>4a, TakeDrop, Zenon
<1>9. Padded(Take(s, 2), 2) = Take(s, 2)
  BY <1>4a, <1>6, <1>8, PaddedFull
<1> QED  BY <1>7, <1>7a, <1>9

LEMMA BehindClient ==
  ASSUME NEW f, Behind(f) # None
  PROVE  Behind(f) \in Clients /\ open[Behind(f)] = f /\ f # None
BY ChatAssumption DEF Behind, Clients, None

\* A read leaves words, and quiet ones where there were such.
LEMMA ConsumeWords ==
  ASSUME NEW S, toServer \in [Clients -> Seq(S)], NEW f, NEW n,
         Behind(f) # None => n \in Nat, Consume(f, n)
  PROVE  toServer' \in [Clients -> Seq(S)]
<1>1. CASE Behind(f) = None
  BY <1>1 DEF Consume
<1>2. CASE Behind(f) # None
  <2>1. Behind(f) \in Clients
    BY <1>2, BehindClient
  <2>2. Drop(toServer[Behind(f)], n) \in Seq(S)
    BY <1>2, <2>1, DropWords
  <2> QED  BY <1>2, <2>2 DEF Consume
<1> QED  BY <1>1, <1>2

LEMMA SendWords ==
  ASSUME NEW f, NEW words, Send(f, words)
  PROVE  /\ server' \in {server, "up", "sigpipe"}
         /\ NobodyLeft => server' = server
<1>1. Behind(f) # None => Behind(f) \in Clients
  BY BehindClient
<1> QED  BY <1>1 DEF Send, NobodyLeft

-----------------------------------------------------------------------------
(***************************************************************************)
(* Type correctness, by each step that needs nothing but itself.            *)
(***************************************************************************)
Points == {"none", "start", "name", "idle", "key", "chat", "leave", "clear", "load", "store", "done"}
ThreadState == [at : Points, slot : Slots, receiver : Slots \cup {NULL}, count : Int]
ThreadTyped == thread \in [Clients -> ThreadState]

\* A thread's state changes.
LEMMA ThreadChanges ==
  ASSUME TypeOK, NEW c \in Clients, NEW state \in ThreadState,
         thread' = [thread EXCEPT ![c] = state]
  PROVE  ThreadTyped'
<1>1. ThreadTyped
  BY DEF TypeOK, ThreadTyped, ThreadState, Points
<1> QED  BY <1>1 DEF ThreadTyped

\* A thread goes from point to point.
LEMMA GoTyped ==
  ASSUME TypeOK, NEW c \in Clients, NEW point \in Points,
         thread' = [thread EXCEPT ![c].at = point]
  PROVE  ThreadTyped'
<1>1. thread[c] \in ThreadState
  BY DEF TypeOK, ThreadState, Points
<1>2. [thread[c] EXCEPT !.at = point] \in ThreadState
  BY <1>1 DEF ThreadState
<1> QED  BY <1>2, ThreadChanges

\* It goes there and forgets the receiver.
LEMMA ReturnTyped ==
  ASSUME TypeOK, NEW c \in Clients, NEW point \in Points, Return(c, point)
  PROVE  /\ ThreadTyped' /\ thread'[c].at = point /\ thread'[c].slot = thread[c].slot
         /\ \A d \in Clients \ {c} : thread'[d] = thread[d]
<1>1. thread[c] \in ThreadState /\ NULL \in Slots \cup {NULL}
  BY DEF TypeOK, ThreadState, Points
<1>2. [thread[c] EXCEPT !.at = point, !.receiver = NULL] \in ThreadState
  BY <1>1 DEF ThreadState
<1>3. thread' = [thread EXCEPT ![c] = [thread[c] EXCEPT !.at = point, !.receiver = NULL]]
  BY DEF Return
<1>4. ThreadTyped'
  BY <1>2, <1>3, ThreadChanges
<1>5. thread'[c].at = point /\ thread'[c].slot = thread[c].slot
      /\ \A d \in Clients \ {c} : thread'[d] = thread[d]
  BY DEF Return, TypeOK
<1> QED  BY <1>4, <1>5

LEMMA StartTyped ==
  ASSUME TypeOK, NEW c \in Clients, Start(c) PROVE TypeOK'
<1>1. thread[c] \in ThreadState /\ current_client \in Slots
  BY DEF TypeOK, ThreadState, Points
<1>2. [thread[c] EXCEPT !.at = "name", !.slot = current_client] \in ThreadState
  BY <1>1 DEF ThreadState, Points
<1>3. ThreadTyped'
  <2>1. thread' = [thread EXCEPT ![c] = [thread[c] EXCEPT !.at = "name", !.slot = current_client]]
    BY DEF Start
  <2> QED  BY <1>2, <2>1, ThreadChanges
<1> QED  BY <1>3 DEF TypeOK, ThreadTyped, ThreadState, Points, Start, slotVars, clientVars

LEMMA ReadNameTyped ==
  ASSUME TypeOK, NEW c \in Clients, ReadName(c) PROVE TypeOK'
<1> DEFINE from == fd[Slot(c)]
<1>2. Behind(from) # None => Len(toServer[Behind(from)]) \in Nat
  BY BehindClient, LenProperties DEF TypeOK
<1>3. toServer' \in [Clients -> Seq(Words)]
  BY <1>2, ConsumeWords DEF TypeOK, ReadName
<1>4. ThreadTyped'
  BY GoTyped DEF ReadName, Go, Points
<1> QED  BY <1>3, <1>4 DEF TypeOK, ThreadTyped, ThreadState, Points, ReadName, slotVars, clientVars

LEMMA ConnectedTyped ==
  ASSUME TypeOK, NEW c \in Clients, Connected(c) PROVE TypeOK'
<1>1. server' \in {server, "up", "sigpipe"}
  BY SendWords DEF Connected
<1>2. ThreadTyped'
  BY GoTyped DEF Connected, Go, Points
<1> QED  BY <1>1, <1>2 DEF TypeOK, ThreadTyped, ThreadState, Points, Connected, slotVars, clientVars

LEMMA PassKeyTyped ==
  ASSUME TypeOK, NEW c \in Clients, PassKey(c) PROVE TypeOK'
<1>1. server' \in {server, "up", "sigpipe"}
  BY SendWords DEF PassKey
<1>2. toServer' \in [Clients -> Seq(Words)]
  BY ConsumeWords DEF TypeOK, PassKey
<1>3. find_client_by_fd(buddy[Slot(c)]) \in Slots \cup {NULL}
  BY FindsFd
<1>4. UNCHANGED <<fd, buddy, connections, loaded, current_client, main, open, client, typed>>
  BY DEF PassKey, slotVars, clientVars
<1>5. ThreadTyped'
  <2> DEFINE found == find_client_by_fd(buddy[Slot(c)])
  <2>1. thread' = [thread EXCEPT ![c].at = "chat", ![c].receiver = found]
    BY DEF PassKey
  <2>2. thread[c] \in ThreadState
    BY DEF TypeOK, ThreadState, Points
  <2> HIDE DEF found
  <2>3. [thread[c] EXCEPT !.at = "chat", !.receiver = found] \in ThreadState
    BY <1>3, <2>2 DEF ThreadState, Points, found
  <2>4. thread' = [thread EXCEPT ![c] = [thread[c] EXCEPT !.at = "chat", !.receiver = found]]
    BY <2>1
  <2> QED  BY <2>3, <2>4, ThreadChanges
<1> QED  BY <1>1, <1>2, <1>4, <1>5 DEF TypeOK, ThreadTyped, ThreadState, Points

LEMMA PassTextTyped ==
  ASSUME TypeOK, NEW c \in Clients, PassText(c) PROVE TypeOK'
<1>1. server' \in {server, "up", "sigpipe", "segv"}
  BY SendWords DEF PassText
<1>2. toServer' \in [Clients -> Seq(Words)]
  BY ConsumeWords DEF TypeOK, PassText
<1>3. thread' = thread \/ Return(c, "idle")
  BY DEF PassText
<1>4. UNCHANGED <<fd, buddy, connections, loaded, current_client, main, open, client, typed>>
  BY DEF PassText, slotVars, clientVars
<1>5. ThreadTyped'
  <2>1. CASE thread' = thread
    BY <2>1 DEF TypeOK, ThreadTyped, ThreadState, Points
  <2>2. CASE Return(c, "idle")
    BY <2>2, ReturnTyped DEF Points
  <2> QED  BY <1>3, <2>1, <2>2
<1> QED  BY <1>1, <1>2, <1>4, <1>5 DEF TypeOK, ThreadTyped, ThreadState, Points

LEMMA EndOfStreamTyped ==
  ASSUME TypeOK, NEW c \in Clients, EndOfStream(c) PROVE TypeOK'
<1>1. ThreadTyped'
  BY ReturnTyped DEF EndOfStream, Points
<1> QED  BY <1>1 DEF TypeOK, ThreadTyped, ThreadState, Points, EndOfStream, slotVars, clientVars

LEMMA PassExitTyped ==
  ASSUME TypeOK, NEW c \in Clients, PassExit(c) PROVE TypeOK'
<1>1. server' \in {server, "up", "sigpipe", "segv", "exit"}
  BY SendWords DEF PassExit
<1>2. toServer' \in [Clients -> Seq(Words)]
  BY ConsumeWords DEF TypeOK, PassExit
<1>3. open' \in [Clients -> Clients \cup {None}] /\ fd' \in [Slots -> Clients \cup {None}]
  BY DEF TypeOK, PassExit
<1>4. UNCHANGED <<buddy, connections, loaded, current_client, main, client, typed>>
  BY DEF PassExit, clientVars
<1>5. ThreadTyped'
  <2>1. thread' = thread \/ Return(c, "leave")
    BY DEF PassExit
  <2>2. CASE thread' = thread
    BY <2>2 DEF TypeOK, ThreadTyped, ThreadState, Points
  <2>3. CASE Return(c, "leave")
    BY <2>3, ReturnTyped DEF Points
  <2> QED  BY <2>1, <2>2, <2>3
<1> QED  BY <1>1, <1>2, <1>3, <1>4, <1>5 DEF TypeOK, ThreadTyped, ThreadState, Points

\* The clean-up, but for the count.
LEMMA LookUpTyped ==
  ASSUME TypeOK, NEW c \in Clients, LookUp(c)
  PROVE  TypeOK' /\ thread'[c].at = "clear" /\ \A d \in Clients \ {c} : thread'[d] = thread[d]
<1> DEFINE found == find_client_by_fd(buddy[Slot(c)])
<1>1. found \in Slots \cup {NULL}
  BY FindsFd
<1>2. thread[c] \in ThreadState /\ thread' = [thread EXCEPT ![c].at = "clear", ![c].receiver = found]
  BY DEF TypeOK, ThreadState, Points, LookUp
<1> HIDE DEF found
<1>3. [thread[c] EXCEPT !.at = "clear", !.receiver = found] \in ThreadState
  BY <1>1, <1>2 DEF ThreadState, Points
<1>4. thread' = [thread EXCEPT ![c] = [thread[c] EXCEPT !.at = "clear", !.receiver = found]]
  BY <1>2
<1>5. ThreadTyped'
  BY <1>3, <1>4, ThreadChanges
<1>7. thread'[c].at = "clear" /\ \A d \in Clients \ {c} : thread'[d] = thread[d]
  BY <1>2 DEF TypeOK
<1>6. UNCHANGED <<fd, buddy, connections, loaded, current_client, main, server, open, client, typed, toServer>>
  BY DEF LookUp, slotVars, clientVars
<1> QED  BY <1>5, <1>6, <1>7 DEF TypeOK, ThreadTyped, ThreadState, Points

LEMMA ClearTyped ==
  ASSUME TypeOK, NEW c \in Clients, Clear(c)
  PROVE  /\ TypeOK' /\ thread'[c].at \in {"clear", "load"}
         /\ \A d \in Clients \ {c} : thread'[d] = thread[d]
<1>1. UNCHANGED <<fd, connections, loaded, current_client, main, open, client, typed, toServer>>
  BY DEF Clear, clientVars
<1>2. CASE Receiver(c) = NULL
  BY <1>1, <1>2 DEF Clear, TypeOK, At
<1>3. CASE Receiver(c) # NULL
  <2>1. /\ buddy' = [buddy EXCEPT ![Receiver(c)] = None, ![Slot(c)] = None]
        /\ Return(c, "load") /\ server' = server
    BY <1>3 DEF Clear
  <2>2. buddy' \in [Slots -> Clients \cup {None}]
    BY <2>1 DEF TypeOK
  <2>3. ThreadTyped' /\ thread'[c].at = "load" /\ \A d \in Clients \ {c} : thread'[d] = thread[d]
    BY <2>1, ReturnTyped DEF Points
  <2> QED  BY <1>1, <2>1, <2>2, <2>3 DEF TypeOK, ThreadTyped, ThreadState, Points
<1> QED  BY <1>2, <1>3

\* A thread's point and its copy of connections.
LEMMA CountTyped ==
  ASSUME TypeOK, NEW c \in Clients, NEW point \in Points, NEW count \in Int,
         thread' = [thread EXCEPT ![c].at = point, ![c].count = count]
  PROVE  /\ ThreadTyped' /\ thread'[c].at = point /\ thread'[c].count = count
         /\ \A d \in Clients \ {c} : thread'[d] = thread[d]
<1>1. thread[c] \in ThreadState
  BY DEF TypeOK, ThreadState, Points
<1>2. [thread[c] EXCEPT !.at = point, !.count = count] \in ThreadState
  BY <1>1 DEF ThreadState
<1>3. thread' = [thread EXCEPT ![c] = [thread[c] EXCEPT !.at = point, !.count = count]]
  OBVIOUS
<1>4. ThreadTyped'
  BY <1>2, <1>3, ThreadChanges
<1> QED  BY <1>4 DEF TypeOK

LEMMA ReadsTyped ==
  ASSUME TypeOK, NEW c \in Clients, Reads(c) PROVE TypeOK'
<1>1. CASE SendKey(c)
  <2>1. Key(c) \in Seq(Words)
    BY ClientWords
  <2>2. toServer[c] \o Key(c) \in Seq(Words)
    BY <2>1, ConcatProperties DEF TypeOK
  <2>3. toServer' \in [Clients -> Seq(Words)]
    BY <1>1, <2>2 DEF SendKey, TypeOK
  <2> QED  BY <1>1, <2>3 DEF TypeOK, SendKey, Receive, slotVars
<1>2. CASE ReadKey(c)
  BY <1>2 DEF TypeOK, ReadKey, slotVars
<1>3. CASE chat_read(c)
  BY <1>3 DEF TypeOK, chat_read, slotVars
<1> QED  BY <1>1, <1>2, <1>3 DEF Reads

LEMMA WriteTyped ==
  ASSUME TypeOK, NEW c \in Clients, chat_write(c) PROVE TypeOK'
<1> USE ChatAssumption
<1>1. typed[c] \in 0 .. Texts /\ typed[c] < Texts
  BY DEF TypeOK, chat_write
<1>2. Text(c, typed[c] + 1) \in Seq(Words)
  BY <1>1, ClientWords
<1>3. toServer' \in [Clients -> Seq(Words)]
  BY <1>2, ConcatProperties DEF TypeOK, chat_write
<1>4. typed' \in [Clients -> 0 .. Texts]
  BY <1>1 DEF TypeOK, chat_write
<1> QED  BY <1>3, <1>4 DEF TypeOK, chat_write, slotVars

LEMMA DepartTyped ==
  ASSUME TypeOK, NEW c \in Clients, Quit(c) \/ Vanish(c) PROVE TypeOK'
<1>1. toServer' \in [Clients -> Seq(Words)]
  <2>1. ExitSignal(c) \in Seq(Words)
    BY ClientWords
  <2>2. toServer[c] \o ExitSignal(c) \in Seq(Words)
    BY <2>1, ConcatProperties DEF TypeOK
  <2>3. toServer' = toServer \/ toServer' = [toServer EXCEPT ![c] = toServer[c] \o ExitSignal(c)]
    BY DEF Quit, Vanish
  <2> QED  BY <2>2, <2>3 DEF TypeOK
<1>2. typed' \in [Clients -> 0 .. Texts]
  <2>1. typed' = [typed EXCEPT ![c] = 0] /\ 0 \in 0 .. Texts
    BY ChatAssumption DEF Quit, Vanish, Depart
  <2> QED  BY <2>1 DEF TypeOK
<1> QED  BY <1>1, <1>2 DEF TypeOK, Quit, Vanish, Depart, slotVars

-----------------------------------------------------------------------------
(***************************************************************************)
(* Accept: what it finds, and the order in which it finds it.               *)
(***************************************************************************)
NewFd == Least(Clients \ {open[d] : d \in Clients})
FreeSlot == Least({s \in Slots : fd[s] = None})
Filled == [fd EXCEPT ![FreeSlot] = NewFd]
Found == Unpaired(Filled, [buddy EXCEPT ![FreeSlot] = None], FreeSlot)

LEMMA SmallSets ==
  ASSUME NEW n \in Nat, NEW S \in SUBSET (1 .. n)
  PROVE  IsFiniteSet(S) /\ Cardinality(S) \in 0 .. n
<1>1. IsFiniteSet(1 .. n) /\ Cardinality(1 .. n) = n
  BY FS_Interval
<1>2. IsFiniteSet(S) /\ Cardinality(S) <= n
  BY <1>1, FS_Subset
<1> QED  BY <1>2, FS_CardinalityType

\* The clients before it are the accepted ones; neither a slot nor a descriptor
\* above them is in use, and connections does not go beyond them.
LEMMA AcceptFinds ==
  ASSUME TypeOK, UsedFromLowest, ThreadsCounted, NeverTooMany, NEW c \in Clients, Accept(c)
  PROVE  /\ \A d \in Clients : client[d] # "new" <=> d < c
         /\ NewFd \in 1 .. c /\ \A d \in Clients : open[d] # NewFd
         /\ \A m \in 1 .. c : (\A d \in Clients : open[d] # m) => NewFd <= m
         /\ FreeSlot \in 0 .. c - 1 /\ fd[FreeSlot] = None
         /\ \A s \in Slots : fd[s] = None => FreeSlot <= s
         /\ connections < c /\ Running \subseteq 1 .. c - 1
<1> USE ChatAssumption DEF Clients, Slots
<1>1. \A d \in Clients : client[d] # "new" <=> d < c
  BY DEF Accept, UsedFromLowest
<1>2. NewFd \in 1 .. c /\ NewFd \notin {open[d] : d \in Clients}
      /\ \A m \in 1 .. c : (\A d \in Clients : open[d] # m) => NewFd <= m
  <2> DEFINE Unused == Clients \ {open[d] : d \in Clients}
  <2>1. Unused \in SUBSET Nat
    OBVIOUS
  <2>2. c \in Unused
    BY DEF Accept, UsedFromLowest, None
  <2>3. NewFd = Least(Unused)
    BY DEF NewFd
  <2>4. \A m \in Clients : (\A d \in Clients : open[d] # m) => m \in Unused
    OBVIOUS
  <2>5. Unused \subseteq Clients \ {open[d] : d \in Clients}
    OBVIOUS
  <2> HIDE DEF Unused
  <2>6. Least(Unused) \in Unused /\ \A m \in Unused : Least(Unused) <= m
    BY <2>1, <2>2, LeastElement
  <2>7. NewFd \in Clients /\ NewFd <= c /\ NewFd \notin {open[d] : d \in Clients}
    BY <2>2, <2>3, <2>5, <2>6
  <2>8. ASSUME NEW m \in 1 .. c, \A d \in Clients : open[d] # m
        PROVE  NewFd <= m
    BY <2>3, <2>4, <2>6, <2>8
  <2>9. NewFd \in 1 .. c
    BY <2>7
  <2> QED  BY <2>7, <2>8, <2>9
<1>3. FreeSlot \in 0 .. c - 1 /\ fd[FreeSlot] = None
      /\ \A s \in Slots : fd[s] = None => FreeSlot <= s
  <2> DEFINE Free == {s \in Slots : fd[s] = None}
  <2>1. Free \in SUBSET Nat
    OBVIOUS
  <2>2. c - 1 \in Free
    BY DEF Accept, UsedFromLowest
  <2>3. Least(Free) \in Free /\ \A m \in Free : Least(Free) <= m
    <3> HIDE DEF Free
    <3> QED  BY <2>1, <2>2, LeastElement
  <2> QED  BY <2>2, <2>3 DEF FreeSlot
<1>4. Running \subseteq 1 .. c - 1
  BY <1>1 DEF Running, ThreadsCounted
<1>5. connections < c
  <2>1. connections \in Int /\ Come(connections)
    BY DEF NeverTooMany, Accept, TypeOK
  <2> QED  BY <1>1, <2>1 DEF Come
<1> QED  BY <1>1, <1>2, <1>3, <1>4, <1>5

\* Accept, in the terms of what it finds.
LEMMA AcceptEffect ==
  ASSUME NEW c \in Clients, Accept(c)
  PROVE  /\ client[c] = "new" /\ main = "accept"
         /\ current_client' = FreeSlot
         /\ open' = [open EXCEPT ![c] = NewFd]
         /\ buddy' = [s \in Slots |->
              IF s \in Found THEN NewFd
              ELSE IF s # FreeSlot THEN buddy[s]
              ELSE IF Found = {} THEN None ELSE Filled[Greatest(Found)]]
         /\ fd' = IF connections \in Slots THEN [Filled EXCEPT ![connections] = NewFd] ELSE Filled
         /\ client' = [client EXCEPT ![c] = "wait"]
         /\ toServer' = [toServer EXCEPT ![c] = Name(c)]
         /\ main' = "create"
         /\ UNCHANGED <<connections, loaded, server, thread, typed>>
BY DEF Accept, NewFd, FreeSlot, Filled, Found

LEMMA AcceptTyped ==
  ASSUME TypeOK, UsedFromLowest, ThreadsCounted, NeverTooMany, NEW c \in Clients, Accept(c)
  PROVE  TypeOK'
<1> USE ChatAssumption
<1>1. NewFd \in Clients /\ FreeSlot \in Slots
  BY AcceptFinds DEF Clients, Slots
<1>2. Filled \in [Slots -> Clients \cup {None}]
  BY <1>1 DEF Filled, TypeOK
<1>3. fd' \in [Slots -> Clients \cup {None}]
  BY <1>1, <1>2, AcceptEffect
<1>4. Found # {} => Greatest(Found) \in Slots
  BY GreatestElement DEF Found, Unpaired
<1>5. buddy' \in [Slots -> Clients \cup {None}]
  <2>1. Found # {} => Filled[Greatest(Found)] \in Clients \cup {None}
    BY <1>2, <1>4
  <2>2. buddy \in [Slots -> Clients \cup {None}]
    BY DEF TypeOK
  <2>3. NewFd \in Clients \cup {None} /\ None \in Clients \cup {None}
    BY <1>1
  <2> HIDE DEF Found, FreeSlot, NewFd, Filled
  <2> QED  BY <2>1, <2>2, <2>3, AcceptEffect
<1>6. toServer' \in [Clients -> Seq(Words)]
  <2>1. Name(c) \in Seq(Words)
    BY ClientWords
  <2> QED  BY <2>1, AcceptEffect DEF TypeOK
<1>7. open' \in [Clients -> Clients \cup {None}]
  BY <1>1, AcceptEffect DEF TypeOK
<1> QED  BY <1>1, <1>3, <1>5, <1>6, <1>7, AcceptEffect DEF TypeOK

LEMMA AcceptInOrder ==
  ASSUME TypeOK, UsedFromLowest, ThreadsCounted, NeverTooMany, NEW c \in Clients, Accept(c)
  PROVE  UsedFromLowest' /\ ThreadsCounted' /\ NeverTooMany'
<1> USE ChatAssumption
<1>1. \A d \in Clients : client'[d] # "new" <=> d <= c
  <2>1. \A d \in Clients : client[d] # "new" <=> d < c
    BY AcceptFinds
  <2>2. client' = [client EXCEPT ![c] = "wait"]
    BY AcceptEffect
  <2>3. \A d \in Clients : d <= c <=> d < c \/ d = c
    BY DEF Clients
  <2> QED  BY <2>1, <2>2, <2>3 DEF TypeOK
<1>2. \A s \in Slots : fd'[s] # None => s + 1 <= c
  <2>1. \A s \in Slots : fd'[s] # None => fd[s] # None \/ s = FreeSlot \/ s = connections
    BY AcceptEffect DEF Filled, TypeOK
  <2>2. \A s \in Slots : fd[s] # None => s + 1 < c
    BY AcceptFinds DEF UsedFromLowest, Clients, Slots
  <2>3. FreeSlot + 1 <= c /\ connections + 1 <= c
    <3>1. FreeSlot \in 0 .. c - 1 /\ connections < c
      BY AcceptFinds
    <3> QED  BY <3>1 DEF Clients, TypeOK
  <2> QED  BY <2>1, <2>2, <2>3 DEF Slots, Clients
<1>3. \A d \in Clients : open'[d] # None => open'[d] \in Clients /\ open'[d] <= c
  <2>1. NewFd \in Clients /\ NewFd <= c
    BY AcceptFinds DEF Clients
  <2>2. \A d \in Clients : open[d] # None => open[d] \in Clients /\ open[d] <= c
    <3>1. \A d \in Clients : client[d] # "new" <=> d < c
      BY AcceptFinds
    <3>2. \A d \in Clients : open[d] # None => open[d] \in Clients /\ client[open[d]] # "new"
      BY DEF UsedFromLowest, TypeOK
    <3> QED  BY <3>1, <3>2 DEF Clients
  <2>3. \A d \in Clients : open'[d] \in {open[d], NewFd}
    BY AcceptEffect DEF TypeOK
  <2> QED  BY <2>1, <2>2, <2>3
<1>4. UsedFromLowest'
  <2>1. \A d, e \in Clients : e < d /\ client'[d] # "new" => client'[e] # "new"
    BY <1>1 DEF Clients
  <2>2. \A s \in Slots : s + 1 \in Clients
    BY DEF Clients, Slots
  <2> QED  BY <1>1, <1>2, <1>3, <2>1, <2>2 DEF UsedFromLowest
<1>5. /\ Running' = Running /\ connections' = connections /\ loaded' = loaded
      /\ Uncounted = 0 /\ Uncounted' = 0 /\ \A d \in Clients : Leaving(d)' <=> Leaving(d)
  BY AcceptEffect DEF Running, Uncounted, Leaving
<1>6. Awaited' = {c}
  <2>1. Awaited = {} /\ thread[c].at = "none"
    BY AcceptEffect DEF ThreadsCounted
  <2> QED  BY <2>1, AcceptEffect DEF Awaited, TypeOK
<1>7. \A d \in Clients : client'[d] = "new" => thread'[d].at = "none" /\ open'[d] = None
  BY AcceptEffect DEF ThreadsCounted, TypeOK
<1>8. ThreadsCounted'
  BY <1>5, <1>6, <1>7, AcceptEffect DEF ThreadsCounted
<1>9. NeverTooMany'
  <2>1. \A d \in Clients : client[d] # "new" <=> d < c
    BY AcceptFinds
  <2>2. ASSUME NEW count \in Int, Come(count) PROVE Come(count + 1)'
    BY <1>1, <2>1, <2>2 DEF Come, Clients
  <2>3. connections \in Int /\ loaded \in Int /\ \A d \in Clients : thread[d].count \in Int
    BY DEF TypeOK
  <2>4. main = "accept" /\ main' = "create" /\ UNCHANGED <<connections, loaded, thread>>
    BY AcceptEffect
  <2> QED  BY <2>2, <2>3, <2>4 DEF NeverTooMany
<1> QED  BY <1>4, <1>8, <1>9

-----------------------------------------------------------------------------
(***************************************************************************)
(* Create, Load and Store: the threads are counted.                         *)
(***************************************************************************)
Ordered == TypeOK /\ UsedFromLowest /\ ThreadsCounted /\ NeverTooMany

\* The thread is that of the one client that awaits one.
LEMMA CreateStep ==
  ASSUME Ordered, Create
  PROVE  Ordered'
<1> USE ChatAssumption DEF Ordered
<1>1. PICK c \in Clients : Awaited = {c}
  BY DEF ThreadsCounted, Create
<1>2. c = CHOOSE d \in Clients : client[d] # "new" /\ thread[d].at = "none"
  BY <1>1 DEF Awaited
<1>3. /\ thread' = [thread EXCEPT ![c].at = "start"]
      /\ main = "create" /\ main' = "load"
      /\ UNCHANGED <<fd, buddy, connections, loaded, current_client, server, open, client, typed,
                     toServer>>
  BY <1>2, Zenon DEF Create, slotVars, clientVars
<1>4. client[c] # "new" /\ thread[c].at = "none"
  BY <1>1 DEF Awaited
<1>5. Running' = Running \cup {c} /\ c \notin Running
  BY <1>3, <1>4 DEF Running, TypeOK
<1>6. IsFiniteSet(Running) /\ Running' \subseteq 1 .. N
  BY <1>5, SmallSets DEF Running, Clients
<1>7. Cardinality(Running') = Cardinality(Running) + 1
  BY <1>5, <1>6, FS_AddElement
<1>8. Uncounted = 0 /\ Uncounted' = 1 /\ \A d \in Clients : Leaving(d)' <=> Leaving(d)
  BY <1>3, <1>4 DEF Uncounted, Leaving, TypeOK
<1>9. TypeOK'
  <2>1. ThreadTyped'
    BY <1>3, GoTyped DEF Points
  <2> QED  BY <1>3, <2>1 DEF TypeOK, ThreadTyped, ThreadState, Points
<1>10. Awaited' = {}
  BY <1>1, <1>3 DEF Awaited, TypeOK
<1>11. UsedFromLowest'
  BY <1>3 DEF UsedFromLowest
<1>12. \A d \in Clients : client'[d] = "new" => thread'[d].at = "none" /\ open'[d] = None
  BY <1>3, <1>4 DEF ThreadsCounted, TypeOK
<1>13. ThreadsCounted'
  <2>1. Cardinality(Running) \in Nat
    BY <1>6, FS_CardinalityType
  <2>2. (\A d \in Clients : ~Leaving(d)) => connections + 0 = Cardinality(Running)
    BY <1>8 DEF ThreadsCounted
  <2>3. (\A d \in Clients : ~Leaving(d)') => connections' + Uncounted' = Cardinality(Running')
    BY <1>3, <1>7, <1>8, <2>1, <2>2 DEF TypeOK
  <2> QED  BY <1>3, <1>10, <1>12, <2>3 DEF ThreadsCounted
<1>14. NeverTooMany'
  <2>1. \A d \in Clients : thread'[d].count = thread[d].count
    BY <1>3 DEF TypeOK
  <2> QED  BY <1>3, <2>1 DEF NeverTooMany, Come
<1> QED  BY <1>9, <1>11, <1>13, <1>14

LEMMA LoadStep ==
  ASSUME Ordered, Load
  PROVE  Ordered'
<1> USE DEF Ordered
<1>1. /\ main = "load" /\ main' = "store" /\ loaded' = connections
      /\ UNCHANGED <<fd, buddy, connections, current_client, server, open, thread, client, typed,
                     toServer>>
  BY DEF Load, clientVars
<1>2. TypeOK'
  BY <1>1 DEF TypeOK
<1>3. UsedFromLowest'
  BY <1>1 DEF UsedFromLowest
<1>4. ThreadsCounted'
  <2>1. Running' = Running /\ Awaited' = Awaited /\ Uncounted' = Uncounted
        /\ \A d \in Clients : Leaving(d)' <=> Leaving(d)
    BY <1>1 DEF Running, Awaited, Uncounted, Leaving
  <2> QED  BY <1>1, <2>1 DEF ThreadsCounted
<1>5. NeverTooMany'
  BY <1>1 DEF NeverTooMany, Come
<1> QED  BY <1>2, <1>3, <1>4, <1>5

\* Somebody has come when main counts.
LEMMA StoreStep ==
  ASSUME Ordered, Store
  PROVE  Ordered'
<1> USE ChatAssumption DEF Ordered
<1>1. /\ main = "store" /\ main' = "accept" /\ connections' = loaded + 1 /\ loaded' = 0
      /\ UNCHANGED <<fd, buddy, current_client, server, open, thread, client, typed, toServer>>
  BY DEF Store, Counted, clientVars
<1>2. TypeOK'
  BY <1>1 DEF TypeOK
<1>3. UsedFromLowest'
  BY <1>1 DEF UsedFromLowest
<1>4. ThreadsCounted'
  <2>1. Running' = Running /\ Awaited' = Awaited /\ Uncounted' = 0 /\ Uncounted = 1
        /\ \A d \in Clients : Leaving(d)' <=> Leaving(d)
    BY <1>1 DEF Running, Awaited, Uncounted, Leaving
  <2>2. connections \in Int
    BY DEF TypeOK
  <2> QED  BY <1>1, <2>1, <2>2 DEF ThreadsCounted
<1>5. NeverTooMany'
  <2>1. \A count \in Int : Come(count + 1) => Come(count)' /\ Come(count + 1)'
    BY <1>1 DEF Come, Clients
  <2>2. loaded \in Int /\ \A d \in Clients : thread[d].count \in Int
    BY DEF TypeOK
  <2>3. Come(loaded + 1) /\ \A d \in Clients : Come(thread[d].count + 1)
    BY <1>1 DEF NeverTooMany
  <2>4. Come(0)'
    BY DEF Come, Clients
  <2> QED  BY <1>1, <2>1, <2>2, <2>3, <2>4 DEF NeverTooMany
<1> QED  BY <1>2, <1>3, <1>4, <1>5

-----------------------------------------------------------------------------
(***************************************************************************)
(* The other steps neither accept a client nor create a thread.             *)
(***************************************************************************)
LEMMA OrderKept ==
  ASSUME TypeOK, UsedFromLowest,
         \A d \in Clients : client'[d] = "new" <=> client[d] = "new",
         \A s \in Slots : fd'[s] \in {fd[s], None},
         \A d \in Clients : open'[d] \in {open[d], None}
  PROVE  UsedFromLowest'
<1>1. \A d \in Clients : open[d] # None => open[d] \in Clients
  BY DEF TypeOK
<1>2. \A s \in Slots : s + 1 \in Clients
  BY ChatAssumption DEF Slots, Clients
<1> QED  BY <1>1, <1>2 DEF UsedFromLowest

LEMMA NobodyComesOrGoes ==
  ASSUME Ordered, UNCHANGED <<connections, loaded, main>>,
         \A d \in Clients : client'[d] = "new" <=> client[d] = "new",
         \A d \in Clients : thread'[d].at = "none" <=> thread[d].at = "none",
         \A d \in Clients : thread'[d].at = "done" <=> thread[d].at = "done",
         \A d \in Clients : Leaving(d) => Leaving(d)',
         \A d \in Clients : thread'[d].count = thread[d].count,
         \A s \in Slots : fd'[s] \in {fd[s], None},
         \A d \in Clients : open'[d] \in {open[d], None}
  PROVE  UsedFromLowest' /\ ThreadsCounted' /\ NeverTooMany'
<1> USE DEF Ordered
<1>1. UsedFromLowest'
  BY OrderKept
<1>2. Running' = Running /\ Awaited' = Awaited /\ Uncounted' = Uncounted
  BY DEF Running, Awaited, Uncounted
<1>3. ThreadsCounted'
  BY <1>2 DEF ThreadsCounted
<1>4. NeverTooMany'
  BY DEF NeverTooMany, Come
<1> QED  BY <1>1, <1>3, <1>4

\* The clean-up: the thread is on its way out, and its copy of connections is not
\* more than connections has been.
LEMMA LeaveStep ==
  ASSUME Ordered, NEW c \in Clients, Leave(c)
  PROVE  Ordered'
<1> USE DEF Ordered
<1>1. UNCHANGED <<fd, loaded, main, open, client>>
  BY DEF Leave, LookUp, Clear, LoadCount, StoreCount, slotVars, clientVars
<1>2. Leaving(c) /\ thread[c].at # "done"
  BY DEF Leave, LookUp, Clear, LoadCount, StoreCount, At, Leaving
<1>3. CASE LookUp(c) \/ Clear(c)
  <2>1. /\ TypeOK' /\ thread'[c].at \in {"clear", "load"}
        /\ \A d \in Clients \ {c} : thread'[d] = thread[d]
    BY <1>3, LookUpTyped, ClearTyped
  <2>2. thread'[c].count = thread[c].count /\ UNCHANGED connections
    <3>1. CASE LookUp(c)
      <4>1. \E found : thread' = [thread EXCEPT ![c].at = "clear", ![c].receiver = found]
        BY <3>1, Zenon DEF LookUp
      <4> QED  BY <3>1, <4>1 DEF LookUp, slotVars, TypeOK
    <3>2. CASE Clear(c)
      BY <3>2 DEF Clear, Return, TypeOK
    <3> QED  BY <1>3, <3>1, <3>2
  <2> QED  BY <1>1, <1>2, <2>1, <2>2, NobodyComesOrGoes DEF Leaving
<1>4. CASE LoadCount(c) \/ StoreCount(c)
  <2>1. PICK point \in Points, count \in Int :
          /\ thread' = [thread EXCEPT ![c].at = point, ![c].count = count]
          /\ \/ LoadCount(c) /\ count = connections /\ connections' = connections
                /\ point = "store"
             \/ StoreCount(c) /\ count = 0 /\ connections' = thread[c].count - 1 /\ point = "done"
    <3>1. connections \in Int /\ 0 \in Int /\ "store" \in Points /\ "done" \in Points
      BY DEF TypeOK, Points
    <3> QED  BY <1>4, <3>1 DEF LoadCount, StoreCount, slotVars
  <2>2. /\ ThreadTyped' /\ thread'[c].at = point /\ thread'[c].count = count
        /\ \A d \in Clients \ {c} : thread'[d] = thread[d]
    BY <2>1, CountTyped
  <2>3. TypeOK'
    <3>1. connections' \in Int
      BY <2>1 DEF TypeOK
    <3>2. UNCHANGED <<buddy, current_client, server, typed, toServer>>
      BY <1>4 DEF LoadCount, StoreCount, slotVars, clientVars
    <3> QED  BY <1>1, <2>2, <3>1, <3>2 DEF TypeOK, ThreadTyped, ThreadState, Points
  <2>4. UsedFromLowest'
    BY <1>1, OrderKept
  <2>5. ThreadsCounted'
    <3>1. Leaving(c)'
      BY <2>1, <2>2 DEF Leaving
    <3>2. \A d \in Clients : thread'[d].at = "none" <=> thread[d].at = "none"
      BY <1>2, <2>1, <2>2 DEF Leaving
    <3>3. Awaited' = Awaited
      BY <1>1, <3>2 DEF Awaited
    <3> QED  BY <1>1, <3>1, <3>2, <3>3 DEF ThreadsCounted
  <2>6. NeverTooMany'
    <3>1. \A n \in Int : Come(n) => Come(n)' /\ Come(n - 1)'
      BY <1>1, ChatAssumption DEF Come, Clients
    <3>2. Come(0) /\ (main # "accept" => Come(1))
      <4>1. Come(0)
        BY ChatAssumption DEF Come, Clients
      <4>2. client[c] # "new"
        BY <1>2 DEF Leaving, ThreadsCounted
      <4>3. client[1] # "new" /\ 1 \in Clients
        BY <4>2, ChatAssumption DEF UsedFromLowest, Clients
      <4> QED  BY <4>1, <4>3, ChatAssumption DEF Come, Clients
    <3>3. connections \in Int /\ loaded \in Int /\ \A d \in Clients : thread[d].count \in Int
      BY DEF TypeOK
    <3>4. PICK ahead \in {0, 1} : ahead = IF main = "accept" THEN 0 ELSE 1
      OBVIOUS
    <3>5. \A n \in Int : (IF main = "accept" THEN n ELSE n + 1) = n + ahead
      BY <3>4
    <3>6. /\ Come(connections + ahead) /\ Come(loaded + ahead) /\ Come(0 + ahead)
          /\ \A d \in Clients : Come(thread[d].count + ahead)
      BY <3>2, <3>3, <3>4 DEF NeverTooMany
    <3>7. \A n \in Int : Come(n + ahead) => Come(n + ahead)' /\ Come((n - 1) + ahead)'
      <4>1. \A n \in Int : n + ahead \in Int /\ (n + ahead) - 1 = (n - 1) + ahead
        OBVIOUS
      <4> QED  BY <3>1, <4>1
    <3>8. connections' \in Int /\ Come(connections + ahead)' /\ Come(count + ahead)'
      <4>1. CASE LoadCount(c)
        BY <2>1, <3>3, <3>6, <3>7, <4>1 DEF LoadCount, StoreCount, At
      <4>2. CASE StoreCount(c)
        <5>1. connections' = thread[c].count - 1 /\ count = 0
          BY <2>1, <4>2 DEF LoadCount, StoreCount, At
        <5> QED  BY <3>3, <3>6, <3>7, <5>1
      <4> QED  BY <1>4, <4>1, <4>2
    <3>9. \A d \in Clients : thread'[d].count \in Int /\ Come(thread[d].count + ahead)'
      BY <2>2, <3>3, <3>6, <3>7, <3>8
    <3>10. loaded' \in Int /\ Come(loaded + ahead)'
      BY <1>1, <3>3, <3>6, <3>7
    <3>11. \A n \in Int : (IF main' = "accept" THEN n ELSE n + 1) = n + ahead
      BY <1>1, <3>5
    <3> QED  BY <3>8, <3>9, <3>10, <3>11 DEF NeverTooMany
  <2> QED  BY <2>3, <2>4, <2>5, <2>6
<1> QED  BY <1>3, <1>4 DEF Leave

\* A step of a client's thread that goes from a point between the first and the
\* clean-up to another.
LEMMA ThreadStep ==
  ASSUME Ordered, NEW c \in Clients, client_process(c), ~Leave(c)
  PROVE  Ordered'
<1> USE DEF Ordered
<1>1. TypeOK'
  BY StartTyped, ReadNameTyped, ConnectedTyped, PassKeyTyped, PassTextTyped, EndOfStreamTyped,
     PassExitTyped DEF client_process
<1>2. /\ thread[c].at \in {"start", "name", "idle", "key", "chat"}
      /\ thread'[c].at \in {"start", "name", "idle", "key", "chat", "leave"}
      /\ thread'[c].count = thread[c].count
      /\ \A d \in Clients \ {c} : thread'[d] = thread[d]
  <2>1. CASE Start(c)
    BY <2>1 DEF Start, At, TypeOK
  <2>2. CASE ReadName(c)
    BY <2>2 DEF ReadName, At, Go, TypeOK
  <2>3. CASE Connected(c)
    BY <2>3 DEF Connected, At, Go, TypeOK
  <2>4. CASE PassKey(c)
    <3>1. /\ thread[c].at = "key"
          /\ \E receiver : thread' = [thread EXCEPT ![c].at = "chat", ![c].receiver = receiver]
      BY <2>4, Zenon DEF PassKey, At
    <3> QED  BY <3>1 DEF TypeOK
  <2>5. CASE PassText(c) \/ EndOfStream(c) \/ PassExit(c)
    <3>1. thread[c].at = "chat"
          /\ (thread' = thread \/ Return(c, "idle") \/ Return(c, "leave"))
      BY <2>5 DEF PassText, EndOfStream, PassExit, At
    <3>2. CASE thread' = thread
      BY <3>1, <3>2
    <3>3. CASE Return(c, "idle") \/ Return(c, "leave")
      BY <3>1, <3>3 DEF Return, TypeOK
    <3> QED  BY <3>1, <3>2, <3>3
  <2> QED  BY <2>1, <2>2, <2>3, <2>4, <2>5 DEF client_process
<1>3. UNCHANGED <<connections, loaded, main, client>>
  BY DEF client_process, Start, ReadName, Connected, PassKey, PassText, EndOfStream, PassExit,
         slotVars, clientVars
<1>4. (\A s \in Slots : fd'[s] \in {fd[s], None})
      /\ \A d \in Clients : open'[d] \in {open[d], None}
  <2>1. CASE PassExit(c)
    BY <2>1 DEF PassExit, TypeOK
  <2>2. CASE ~PassExit(c)
    <3>1. UNCHANGED <<fd, open>>
      BY <2>2 DEF client_process, Start, ReadName, Connected, PassKey, PassText, EndOfStream,
                  slotVars
    <3> QED  BY <3>1
  <2> QED  BY <2>1, <2>2
<1>5. \A d \in Clients : /\ thread'[d].at = "none" <=> thread[d].at = "none"
                         /\ thread'[d].at = "done" <=> thread[d].at = "done"
                         /\ Leaving(d) => Leaving(d)'
                         /\ thread'[d].count = thread[d].count
  BY <1>2 DEF Leaving
<1> QED  BY <1>1, <1>3, <1>4, <1>5, NobodyComesOrGoes

\* A step of a client is one of a client that is there.
LEMMA ClientStep ==
  ASSUME Ordered, NEW c \in Clients,
         Reads(c) \/ chat_write(c) \/ Quit(c) \/ Vanish(c)
  PROVE  Ordered'
<1> USE DEF Ordered
<1>1. TypeOK'
  BY ReadsTyped, WriteTyped, DepartTyped
<1>2. UNCHANGED <<connections, loaded, main, fd, open, thread>>
  BY DEF Reads, SendKey, ReadKey, chat_read, chat_write, Quit, Vanish, Depart, slotVars
<1>3. \A d \in Clients : client'[d] = "new" <=> client[d] = "new"
  BY DEF Reads, SendKey, ReadKey, chat_read, chat_write, Quit, Vanish, Depart, TypeOK
<1> QED  BY <1>1, <1>2, <1>3, NobodyComesOrGoes DEF Leaving

LEMMA InitOrdered == Init => Ordered
<1> SUFFICES ASSUME Init PROVE Ordered
  OBVIOUS
<1> USE ChatAssumption DEF Init
<1>1. TypeOK
  BY DEF TypeOK, Clients, Slots, None, NULL
<1>2. UsedFromLowest
  BY DEF UsedFromLowest, None
<1>3. Running = {} /\ Awaited = {}
  BY DEF Running, Awaited
<1>4. ThreadsCounted
  BY <1>3, FS_EmptySet DEF ThreadsCounted, Uncounted
<1>5. NeverTooMany
  BY DEF NeverTooMany, Come, Clients
<1> QED  BY <1>1, <1>2, <1>4, <1>5 DEF Ordered

LEMMA NextOrdered == Ordered /\ [Next]_vars => Ordered'
<1> SUFFICES ASSUME Ordered, [Next]_vars PROVE Ordered'
  OBVIOUS
<1>1. CASE Count
  BY <1>1, CreateStep, LoadStep, StoreStep DEF Count
<1>2. ASSUME NEW c \in Clients, Accept(c)
      PROVE  Ordered'
  BY <1>2, AcceptTyped, AcceptInOrder DEF Ordered
<1>3. ASSUME NEW c \in Clients, client_process(c)
      PROVE  Ordered'
  BY <1>3, LeaveStep, ThreadStep
<1>4. ASSUME NEW c \in Clients, Reads(c) \/ chat_write(c) \/ Quit(c) \/ Vanish(c)
      PROVE  Ordered'
  BY <1>4, ClientStep
<1>5. CASE UNCHANGED vars
  <2> USE <1>5 DEF vars, slotVars, clientVars, Ordered
  <2>1. TypeOK' /\ UsedFromLowest' /\ NeverTooMany'
    BY DEF TypeOK, UsedFromLowest, NeverTooMany, Come
  <2>2. ThreadsCounted'
    BY DEF ThreadsCounted, Running, Awaited, Leaving, Uncounted
  <2> QED  BY <2>1, <2>2
<1> QED  BY <1>1, <1>2, <1>3, <1>4, <1>5 DEF Next

-----------------------------------------------------------------------------
(***************************************************************************)
(* As long as nobody leaves: the table is one of pairs.                     *)
(***************************************************************************)
Calm ==
  /\ OwnSlots /\ Pairs /\ OneAlone /\ ThreadsPaired
  /\ LongsWhole /\ toServer \in [Clients -> Seq(Quiet)] /\ server = "up"

\* Who has left does not come back.
LEMMA GoneStaysGone ==
  ASSUME TypeOK, [Next]_vars, NobodyLeft'
  PROVE  NobodyLeft
<1> SUFFICES ASSUME NEW d \in Clients, client[d] = "gone" PROVE FALSE
  BY DEF NobodyLeft
<1>1. client'[d] # "gone"
  BY DEF NobodyLeft
<1>2. CASE UNCHANGED client
  BY <1>1, <1>2
<1>3. ASSUME NEW c \in Clients, Accept(c) \/ SendKey(c) \/ ReadKey(c) \/ Quit(c) \/ Vanish(c)
      PROVE  FALSE
  <2>1. \E where : client' = [client EXCEPT ![c] = where] /\ client[c] # "gone"
    BY <1>3, Zenon DEF Accept, SendKey, ReadKey, Quit, Vanish, Depart
  <2> QED  BY <1>1, <2>1 DEF TypeOK
<1>4. ASSUME NEW c \in Clients, client_process(c) PROVE UNCHANGED client
  BY <1>4 DEF client_process, Start, ReadName, Connected, PassKey, PassText, EndOfStream, PassExit,
              Leave, LookUp, Clear, LoadCount, StoreCount, clientVars
<1>5. CASE Count
  BY <1>2, <1>5 DEF Count, Create, Load, Store, clientVars
<1>6. ASSUME NEW c \in Clients, chat_read(c) \/ chat_write(c) PROVE UNCHANGED client
  BY <1>6 DEF chat_read, chat_write
<1>7. CASE UNCHANGED vars
  BY <1>2, <1>7 DEF vars, clientVars
<1> QED  BY <1>2, <1>3, <1>4, <1>5, <1>6, <1>7 DEF Next, Reads

\* A buddy's descriptor is in a slot.
LEMMA BuddyFound ==
  ASSUME TypeOK, Calm, NEW s \in Slots, buddy[s] # None
  PROVE  buddy[s] - 1 \in Slots /\ fd[buddy[s] - 1] = buddy[s]
<1> USE ChatAssumption DEF Slots, Clients, None
<1>1. buddy[s] \in 1 .. N /\ open[buddy[s]] # None
  BY DEF TypeOK, Calm, Pairs
<1>2. buddy[s] - 1 \in Slots
  BY <1>1
<1>3. fd[buddy[s] - 1] = open[buddy[s] - 1 + 1]
  BY <1>2 DEF Calm, OwnSlots
<1>4. buddy[s] - 1 + 1 = buddy[s]
  BY <1>1
<1>5. open[buddy[s]] = buddy[s]
  BY <1>1 DEF Calm, OwnSlots
<1> QED  BY <1>2, <1>3, <1>4, <1>5

\* So buddies are each other's.
LEMMA CalmMutual == TypeOK /\ Calm => BuddiesMutual
<1> SUFFICES ASSUME TypeOK, Calm, NEW s \in Slots, buddy[s] # None
             PROVE  \E t \in Slots \ {s} : fd[t] = buddy[s] /\ buddy[t] = fd[s]
  BY DEF BuddiesMutual
<1>1. buddy[s] - 1 \in Slots /\ fd[buddy[s] - 1] = buddy[s]
  BY BuddyFound
<1>2. buddy[s] # fd[s] /\ buddy[buddy[s] - 1] = fd[s]
  BY DEF Calm, Pairs
<1> QED  BY <1>1, <1>2

\* Calm, a client is behind its own number.
LEMMA CalmBehind ==
  ASSUME Calm, NEW f \in Clients \cup {None}
  PROVE  Behind(f) = IF f # None /\ client[f] # "new" THEN f ELSE None
<1>1. \A c \in Clients : c # None /\ open[c] = IF client[c] = "new" THEN None ELSE c
  BY ChatAssumption DEF Calm, OwnSlots, Clients, None
<1>2. CASE f # None /\ client[f] # "new"
  <2>1. \A c \in Clients : open[c] = f <=> c = f
    BY <1>1, <1>2
  <2> QED  BY <1>2, <2>1 DEF Behind
<1>3. CASE ~(f # None /\ client[f] # "new")
  <2>1. ~ \E c \in Clients : f # None /\ open[c] = f
    BY <1>1, <1>3
  <2> QED  BY <1>3, <2>1 DEF Behind
<1> QED  BY <1>2, <1>3

\* The client that a thread serves is that of its slot.
LEMMA CalmSlot ==
  ASSUME Ordered, Calm, NEW s \in Slots
  PROVE  /\ s + 1 \in Clients /\ (s + 1) - 1 = s
         /\ Behind(fd[s]) # None => Behind(fd[s]) = s + 1
         /\ fd[s] # None => fd[s] = s + 1 /\ Behind(fd[s]) = s + 1 /\ client[s + 1] # "new"
<1> USE ChatAssumption
<1>1. s + 1 \in Clients /\ (s + 1) - 1 = s
  BY DEF Slots, Clients
<1>2. fd[s] = IF client[s + 1] = "new" THEN None ELSE s + 1
  BY <1>1 DEF Calm, OwnSlots
<1>3. s + 1 # None
  BY <1>1 DEF Clients, None
<1>4. fd[s] \in Clients \cup {None}
  BY <1>1, <1>2
<1> QED  BY <1>1, <1>2, <1>3, <1>4, CalmBehind

\* Calm, the new client finds the slot and the descriptor of its number, and its
\* descriptor is written to its own slot.
LEMMA AcceptFindsOwn ==
  ASSUME Ordered, Calm, NEW c \in Clients, Accept(c)
  PROVE  NewFd = c /\ FreeSlot = c - 1 /\ connections = c - 1
<1> USE ChatAssumption DEF Ordered
<1>1. \A d \in Clients : open[d] = IF d < c THEN d ELSE None
  BY AcceptFinds DEF Calm, OwnSlots
<1>2. NewFd = c
  <2>1. NewFd \in 1 .. c /\ \A d \in Clients : open[d] # NewFd
    BY AcceptFinds
  <2>2. NewFd \notin 1 .. c - 1
    BY <1>1, <2>1 DEF Clients
  <2> QED  BY <2>1, <2>2 DEF Clients
<1>3. FreeSlot = c - 1
  <2>1. FreeSlot \in 0 .. c - 1 /\ fd[FreeSlot] = None
    BY AcceptFinds
  <2>2. \A s \in Slots : fd[s] = open[s + 1] /\ s + 1 \in Clients
    BY DEF Calm, OwnSlots, Slots, Clients
  <2>3. \A s \in 0 .. c - 2 : s \in Slots /\ s + 1 < c
    BY DEF Slots, Clients
  <2>4. FreeSlot \notin 0 .. c - 2
    BY <1>1, <2>1, <2>2, <2>3 DEF None
  <2> QED  BY <2>1, <2>4 DEF Clients
<1>4. connections = c - 1
  <2>1. Awaited = {}
    BY AcceptEffect DEF ThreadsCounted
  <2>2. \A d \in 1 .. c - 1 : d \in Running
    <3>1. \A d \in 1 .. c - 1 : d \in Clients /\ client[d] # "new"
      BY AcceptFinds DEF Clients
    <3> QED  BY <2>1, <3>1 DEF Awaited, Running, Calm, ThreadsPaired, Leaving
  <2>3. Running = 1 .. c - 1
    BY <2>2, AcceptFinds
  <2>4. Cardinality(1 .. c - 1) = c - 1
    BY FS_Interval DEF Clients
  <2>5. Uncounted = 0 /\ \A d \in Clients : ~Leaving(d)
    BY AcceptEffect DEF Uncounted, Calm, ThreadsPaired
  <2> QED  BY <2>3, <2>4, <2>5 DEF ThreadsCounted, TypeOK
<1> QED  BY <1>2, <1>3, <1>4

\* The new client is alone, or it and the one that was alone are buddies.
LEMMA AcceptPairs ==
  ASSUME Ordered, Calm, NEW c \in Clients, Accept(c)
  PROVE  /\ OwnSlots' /\ Pairs' /\ OneAlone'
         /\ \A s \in Slots : buddy[s] # None => buddy'[s] = buddy[s]
         /\ \A s \in Slots : fd[s] # None => fd'[s] # None /\ s # c - 1
<1> USE ChatAssumption
<1> DEFINE own == c - 1
<1>1. own \in Slots /\ own = c - 1 /\ own + 1 = c /\ c # None
  BY DEF Clients, Slots, None
<1>2. \A d \in Clients : client[d] # "new" <=> d < c
  BY AcceptFinds DEF Ordered
<1>3. client'[c] # "new" /\ \A d \in Clients \ {c} : client'[d] = client[d]
  BY AcceptEffect DEF Ordered, TypeOK
<1>4. open'[c] = c /\ open[c] = None /\ \A d \in Clients \ {c} : open'[d] = open[d]
  BY <1>2, AcceptEffect, AcceptFindsOwn DEF Ordered, TypeOK, Calm, OwnSlots
<1>5. Filled[own] = c /\ \A s \in Slots \ {own} : Filled[s] = fd[s]
  BY <1>1, AcceptFindsOwn DEF Filled, Ordered, TypeOK
<1>6. fd'[own] = c /\ \A s \in Slots \ {own} : fd'[s] = fd[s]
  <2>1. fd' = [Filled EXCEPT ![own] = c]
    BY <1>1, AcceptEffect, AcceptFindsOwn
  <2>2. Filled \in [Slots -> Clients \cup {None}]
    BY <1>1, AcceptFindsOwn DEF Filled, Ordered, TypeOK
  <2> QED  BY <1>1, <1>5, <2>1, <2>2
<1>7. fd[own] = None /\ buddy[own] = None
  BY <1>1, <1>4 DEF Calm, OwnSlots, Pairs
<1>8. Found = {s \in Slots : Alone(s)}
  <2>1. \A s \in Slots : s \in Found <=>
          Filled[s] # None /\ [buddy EXCEPT ![own] = None][s] = None /\ s # own
    BY AcceptFindsOwn DEF Found, Unpaired
  <2>2. \A s \in Slots \ {own} : [buddy EXCEPT ![own] = None][s] = buddy[s]
    BY DEF Ordered, TypeOK
  <2>3. Found \subseteq Slots
    BY DEF Found, Unpaired
  <2> QED  BY <1>5, <1>7, <2>1, <2>2, <2>3 DEF Alone
<1>9. OwnSlots'
  <2>1. \A d \in Clients : open'[d] = IF client'[d] = "new" THEN None ELSE d
    BY <1>3, <1>4 DEF Calm, OwnSlots
  <2>2. \A s \in Slots : fd'[s] = open'[s + 1]
    <3> SUFFICES ASSUME NEW s \in Slots PROVE fd'[s] = open'[s + 1]
      OBVIOUS
    <3>1. s + 1 \in Clients /\ (s + 1 = c <=> s = own)
      BY DEF Slots, Clients
    <3> QED  BY <1>4, <1>6, <3>1 DEF Calm, OwnSlots
  <2> QED  BY <2>1, <2>2 DEF OwnSlots
<1>10. \A s \in Slots : buddy[s] # None =>
         buddy[s] \in Clients \ {c} /\ buddy[s] - 1 \in Slots \ {own} /\ s # own
  <2> SUFFICES ASSUME NEW s \in Slots, buddy[s] # None
               PROVE  buddy[s] \in Clients \ {c} /\ buddy[s] - 1 \in Slots \ {own} /\ s # own
    OBVIOUS
  <2>1. buddy[s] \in Clients /\ open[buddy[s]] # None
    BY DEF Ordered, TypeOK, Calm, Pairs
  <2>2. buddy[s] # c
    BY <1>4, <2>1
  <2> QED  BY <1>7, <2>1, <2>2 DEF Clients, Slots
<1> HIDE DEF own
<1>11. CASE Found = {}
  <2>1. \A s \in Slots : buddy'[s] = buddy[s]
    BY <1>7, <1>11, AcceptEffect, AcceptFindsOwn DEF own
  <2>2. Pairs'
    BY <1>4, <1>6, <1>10, <2>1 DEF Pairs, Calm
  <2>3. OneAlone'
    BY <1>6, <1>8, <1>11, <2>1 DEF OneAlone, Alone
  <2> QED  BY <1>6, <1>7, <1>9, <2>1, <2>2, <2>3 DEF own
<1>12. CASE Found # {}
  <2>1. PICK u \in Slots : Found = {u}
    BY <1>8, <1>12 DEF Calm, OneAlone
  <2>2. Alone(u) /\ u # own /\ fd[u] = u + 1 /\ u + 1 \in Clients \ {c} /\ open[u + 1] = u + 1
    <3>1. Alone(u) /\ u # own
      BY <1>7, <1>8, <2>1 DEF Alone
    <3>2. u + 1 \in Clients /\ u + 1 # c
      BY <1>1, <3>1 DEF Slots, Clients
    <3> QED  BY <3>1, <3>2 DEF Alone, Calm, OwnSlots
  <2>3. Greatest(Found) = u
    BY <2>1, GreatestElement
  <2>4. \A s \in Slots : buddy'[s] = IF s = u THEN c ELSE IF s = own THEN u + 1 ELSE buddy[s]
    <3>1. Filled[Greatest(Found)] = u + 1
      BY <1>5, <2>2, <2>3
    <3> QED  BY <1>12, <2>1, <3>1, AcceptEffect, AcceptFindsOwn DEF own
  <2>5. \A s \in Slots : buddy[s] # None => s # u /\ s # own /\ buddy[s] - 1 # u
    <3> SUFFICES ASSUME NEW s \in Slots, buddy[s] # None, buddy[s] - 1 = u
                 PROVE  FALSE
      BY <1>7, <2>2 DEF Alone
    <3> QED  BY <2>2 DEF Calm, Pairs, Alone
  <2>6. Pairs'
    <3> SUFFICES ASSUME NEW s \in Slots, buddy'[s] # None
                 PROVE  /\ fd'[s] # None /\ buddy'[s] # fd'[s] /\ open'[buddy'[s]] # None
                        /\ buddy'[buddy'[s] - 1] = fd'[s]
      BY DEF Pairs
    <3>1. CASE s = u
      <4>1. buddy'[u] = c /\ buddy'[own] = u + 1 /\ fd'[u] = u + 1 /\ open'[c] = c
        BY <1>1, <1>4, <1>6, <2>2, <2>4
      <4>2. u + 1 # None /\ u + 1 # c
        BY <2>2 DEF Clients, None
      <4> QED  BY <1>1, <3>1, <4>1, <4>2
    <3>2. CASE s = own
      <4>1. u + 1 - 1 = u
        BY DEF Slots
      <4>2. /\ buddy'[own] = u + 1 /\ buddy'[u] = c /\ fd'[own] = c
            /\ open'[u + 1] = u + 1
        BY <1>1, <1>4, <1>6, <2>2, <2>4
      <4>3. u + 1 # None /\ u + 1 # c
        BY <2>2 DEF Clients, None
      <4> QED  BY <1>1, <3>2, <4>1, <4>2, <4>3
    <3>3. CASE s # u /\ s # own
      BY <1>4, <1>6, <1>10, <2>4, <2>5, <3>3 DEF Pairs, Calm
    <3> QED  BY <3>1, <3>2, <3>3
  <2>7. \A s \in Slots : ~Alone(s)'
    <3>1. \A s \in Slots : Alone(s) => s = u
      BY <1>8, <2>1
    <3>2. u + 1 # None
      BY <2>2, <1>1 DEF Clients, None
    <3> QED  BY <1>1, <1>6, <2>4, <3>1, <3>2 DEF Alone
  <2>8. OneAlone'
    BY <2>7 DEF OneAlone
  <2> QED  BY <1>6, <1>7, <1>9, <2>4, <2>5, <2>6, <2>8 DEF own
<1> QED  BY <1>11, <1>12

LEMMA AcceptCalm ==
  ASSUME Ordered, Calm, NEW c \in Clients, Accept(c)
  PROVE  Calm'
<1>1. /\ OwnSlots' /\ Pairs' /\ OneAlone'
      /\ \A s \in Slots : buddy[s] # None => buddy'[s] = buddy[s]
      /\ \A s \in Slots : fd[s] # None => fd'[s] # None /\ s # c - 1
  BY AcceptPairs
<1>2. thread' = thread /\ \A d \in Clients : Slot(d) \in Slots
  BY AcceptEffect DEF Ordered, TypeOK, Slot
<1>3. ThreadsPaired'
  BY <1>1, <1>2 DEF Calm, ThreadsPaired, Slot, Receiver, Leaving
<1>4. toServer' \in [Clients -> Seq(Quiet)]
  <2>1. Name(c) \in Seq(Quiet)
    BY ClientWords
  <2> QED  BY <2>1, AcceptEffect DEF Calm
<1>5. LongsWhole'
  <2> SUFFICES ASSUME NEW d \in Clients, thread[d].at \in {"idle", "key", "chat"}
               PROVE  fd'[Slot(d)] # None /\ Whole(toServer'[Slot(d) + 1])
    BY <1>2 DEF LongsWhole, Slot, Whole
  <2>1. fd[Slot(d)] # None /\ Whole(toServer[Slot(d) + 1])
    BY DEF Calm, LongsWhole
  <2>2. Slot(d) + 1 \in Clients \ {c}
    BY <1>1, <1>2, <2>1, ChatAssumption DEF Slots, Clients
  <2>3. toServer'[Slot(d) + 1] = toServer[Slot(d) + 1]
    BY <2>2, AcceptEffect DEF Ordered, TypeOK
  <2> QED  BY <1>1, <1>2, <2>1, <2>3
<1>6. server' = "up"
  BY AcceptEffect DEF Calm
<1> QED  BY <1>1, <1>3, <1>4, <1>5, <1>6 DEF Calm

\* The table is not touched but by Accept, and when somebody leaves.
LEMMA TableKept ==
  ASSUME Ordered, Calm, UNCHANGED <<fd, buddy, open>>,
         \A d \in Clients : client'[d] = "new" <=> client[d] = "new",
         ThreadsPaired', LongsWhole', toServer' \in [Clients -> Seq(Quiet)], server' = "up"
  PROVE  Calm'
<1>1. OwnSlots'
  BY DEF Calm, OwnSlots
<1>2. Pairs' /\ OneAlone'
  BY DEF Calm, Pairs, OneAlone, Alone
<1> QED  BY <1>1, <1>2 DEF Calm

LEMMA CreateCalm ==
  ASSUME Ordered, Calm, Create
  PROVE  Calm'
<1>1. PICK c \in Clients : thread' = [thread EXCEPT ![c].at = "start"]
  <2>1. PICK c \in Clients : client[c] # "new" /\ thread[c].at = "none"
    BY DEF Ordered, ThreadsCounted, Create, Awaited
  <2>2. (CHOOSE d \in Clients : client[d] # "new" /\ thread[d].at = "none") \in Clients
    BY <2>1
  <2> QED  BY <2>2, Zenon DEF Create
<1>2. UNCHANGED <<fd, buddy, open, client, toServer, server>>
  BY DEF Create, slotVars, clientVars
<1>3. ThreadsPaired'
  BY <1>1, <1>2 DEF ThreadsPaired, Calm, Ordered, TypeOK, Slot, Receiver, Leaving
<1>4. LongsWhole'
  BY <1>1, <1>2 DEF LongsWhole, Calm, Ordered, TypeOK, Slot, Whole
<1> QED  BY <1>2, <1>3, <1>4, TableKept DEF Calm

LEMMA CountCalm ==
  ASSUME Ordered, Calm, Count
  PROVE  Calm'
<1>1. CASE Load \/ Store
  <2>1. UNCHANGED <<fd, buddy, open, client, thread, toServer, server>>
    BY <1>1 DEF Load, Store, clientVars
  <2>2. ThreadsPaired'
    BY <2>1 DEF ThreadsPaired, Calm, Slot, Receiver, Leaving
  <2>3. LongsWhole'
    BY <2>1 DEF LongsWhole, Calm, Slot, Whole
  <2> QED  BY <2>1, <2>2, <2>3, TableKept DEF Calm
<1> QED  BY <1>1, CreateCalm DEF Count

\* Nobody leaves, so that a thread that reads finds words of its slot's client.
LEMMA ReadsWords ==
  ASSUME Ordered, Calm, NobodyLeft, NEW s \in Slots, Readable(fd[s])
  PROVE  /\ Behind(fd[s]) = s + 1 /\ s + 1 \in Clients /\ fd[s] # None
         /\ toServer[s + 1] # <<>> /\ toServer[s + 1] \in Seq(Quiet)
<1>1. CASE fd[s] = None
  BY <1>1 DEF Readable, Closed, Ended, Behind
<1>2. CASE fd[s] # None
  <2>1. Behind(fd[s]) = s + 1 /\ s + 1 \in Clients /\ s + 1 # None
    BY <1>2, CalmSlot, ChatAssumption DEF Clients, None
  <2> QED  BY <1>2, <2>1 DEF Readable, Closed, Ended, NobodyLeft, Calm
<1> QED  BY <1>1, <1>2

\* What it reads in the chat is a whole long, and does not begin an exit signal.
LEMMA ReadsLong ==
  ASSUME Ordered, Calm, NobodyLeft, NEW c \in Clients, thread[c].at = "chat", Readable(fd[Slot(c)])
  PROVE  \E x \in Clients :
           /\ x - 1 = Slot(c) /\ Behind(fd[Slot(c)]) = x
           /\ Padded(Taken(fd[Slot(c)], 2), 2) = Take(toServer[x], 2)
           /\ Take(toServer[x], 2)[2] \in Quiet
<1>1. Slot(c) \in Slots
  BY DEF Ordered, TypeOK, Slot
<1>2. PICK x \in Clients : /\ x = Slot(c) + 1 /\ Behind(fd[Slot(c)]) = x /\ x # None
                          /\ toServer[x] # <<>> /\ toServer[x] \in Seq(Quiet)
  BY <1>1, ReadsWords, ChatAssumption DEF Clients, None
<1>3. Whole(toServer[x])
  BY <1>2 DEF Calm, LongsWhole
<1>4. Padded(Take(toServer[x], 2), 2) = Take(toServer[x], 2) /\ Take(toServer[x], 2)[2] \in Quiet
  BY <1>2, <1>3, WholeLong
<1>5. Taken(fd[Slot(c)], 2) = Take(toServer[x], 2) /\ x - 1 = Slot(c)
  BY <1>1, <1>2 DEF Taken, Slots
<1> QED  BY <1>2, <1>4, <1>5

LEMMA NoExit ==
  ASSUME Ordered, Calm, NobodyLeft, NEW c \in Clients
  PROVE  ~PassExit(c)
<1> SUFFICES ASSUME PassExit(c) PROVE FALSE
  OBVIOUS
<1>1. thread[c].at = "chat" /\ Readable(fd[Slot(c)])
  BY DEF PassExit, At
<1>2. Padded(Taken(fd[Slot(c)], 2), 2)[2].what \in {"exit", "stale"}
  BY DEF PassExit
<1>3. Padded(Taken(fd[Slot(c)], 2), 2)[2] \in Quiet
  BY <1>1, ReadsLong
<1> QED  BY <1>2, <1>3 DEF Quiet

\* A read takes all of the name, or whole longs.
LEMMA ReadsWhole ==
  ASSUME Ordered, Calm, NobodyLeft, NEW c \in Clients, client_process(c)
  PROVE  /\ toServer' \in [Clients -> Seq(Quiet)]
         /\ \A d \in Clients : Whole(toServer[d]) => Whole(toServer'[d])
         /\ ReadName(c) => Slot(c) + 1 \in Clients /\ Whole(toServer'[Slot(c) + 1])
                           /\ fd[Slot(c)] # None
<1>1. Slot(c) \in Slots /\ toServer \in [Clients -> Seq(Quiet)]
  BY DEF Ordered, TypeOK, Slot, Calm
<1>2. ASSUME NEW n \in {2, 4}, Readable(fd[Slot(c)]), Consume(fd[Slot(c)], n)
      PROVE  /\ toServer' \in [Clients -> Seq(Quiet)]
             /\ \A d \in Clients : Whole(toServer[d]) => Whole(toServer'[d])
  <2>1. toServer' \in [Clients -> Seq(Quiet)]
    BY <1>1, <1>2, ConsumeWords
  <2>2. PICK x \in Clients : x = Behind(fd[Slot(c)]) /\ x # None
    BY <1>1, <1>2, ReadsWords, ChatAssumption DEF Clients, None
  <2>3. toServer' = [toServer EXCEPT ![x] = Drop(@, n)]
    BY <1>2, <2>2 DEF Consume
  <2>4. ASSUME NEW d \in Clients, Whole(toServer[d]) PROVE Whole(toServer'[d])
    <3>1. CASE d = x
      <4>1. Whole(Drop(toServer[x], n))
        BY <1>1, <2>4, <3>1, WholeDrops
      <4> QED  BY <1>1, <2>3, <3>1, <4>1
    <3>2. CASE d # x
      BY <1>1, <2>3, <2>4, <3>2
    <3> QED  BY <3>1, <3>2
  <2> QED  BY <2>1, <2>4
<1>3. CASE ReadName(c)
  <2>1. PICK x \in Clients : /\ x = Slot(c) + 1 /\ Behind(fd[Slot(c)]) = x /\ x # None
                            /\ fd[Slot(c)] # None
    BY <1>1, <1>3, ReadsWords, ChatAssumption DEF ReadName, Clients, None
  <2>2. toServer' = [toServer EXCEPT ![x] = Drop(@, Len(toServer[x]))]
    BY <1>3, <2>1, Zenon DEF ReadName, Consume
  <2>3. /\ Drop(toServer[x], Len(toServer[x])) \in Seq(Quiet)
        /\ Len(Drop(toServer[x], Len(toServer[x]))) = 0
    <3>1. Len(toServer[x]) \in Nat
      BY <1>1, LenProperties
    <3> QED  BY <1>1, <3>1, DropWords, DropLength
  <2>4. Whole(Drop(toServer[x], Len(toServer[x])))
    BY <2>3 DEF Whole
  <2>5. toServer' \in [Clients -> Seq(Quiet)]
    BY <1>1, <2>2, <2>3
  <2>6. Whole(toServer'[x]) /\ \A d \in Clients \ {x} : toServer'[d] = toServer[d]
    BY <1>1, <2>2, <2>4
  <2> QED  BY <2>1, <2>5, <2>6
<1>4. CASE PassKey(c)
  BY <1>2, <1>4 DEF PassKey, ReadName, At
<1>5. CASE PassText(c)
  BY <1>2, <1>5 DEF PassText, ReadName, At
<1>6. CASE Start(c) \/ Connected(c) \/ EndOfStream(c)
  BY <1>1, <1>6 DEF Start, Connected, EndOfStream, ReadName, At
<1>7. ~PassExit(c) /\ ~Leave(c)
  BY NoExit DEF Leave, LookUp, Clear, LoadCount, StoreCount, At, Calm, ThreadsPaired, Leaving
<1> QED  BY <1>3, <1>4, <1>5, <1>6, <1>7 DEF client_process

\* The thread has a buddy before it waits for the key, and has found the receiver
\* before it passes text; the steps at the end are not reached.
LEMMA ThreadCalm ==
  ASSUME Ordered, Calm, NobodyLeft, NEW c \in Clients, client_process(c)
  PROVE  Calm'
<1> USE ChatAssumption DEF Ordered
<1>1. Slot(c) \in Slots
  BY DEF TypeOK, Slot
<1>2. ~Leave(c)
  BY DEF Leave, LookUp, Clear, LoadCount, StoreCount, At, Calm, ThreadsPaired, Leaving
<1>3. ~PassExit(c)
  BY NoExit
<1>4. UNCHANGED <<fd, buddy, open, client>>
  BY <1>2, <1>3 DEF client_process, Start, ReadName, Connected, PassKey, PassText, EndOfStream,
                    slotVars, clientVars
<1>5. /\ toServer' \in [Clients -> Seq(Quiet)]
      /\ \A d \in Clients : Whole(toServer[d]) => Whole(toServer'[d])
      /\ ReadName(c) => Slot(c) + 1 \in Clients /\ Whole(toServer'[Slot(c) + 1])
                        /\ fd[Slot(c)] # None
  BY ReadsWhole
<1>6. server' = "up"
  <2>1. CASE PassText(c)
    <3>1. Receiver(c) # NULL
      BY <2>1 DEF PassText, At, Calm, ThreadsPaired
    <3> QED  BY <2>1, <3>1, SendWords DEF PassText, Calm
  <2>2. CASE Connected(c)
    BY <2>2, SendWords DEF Connected, Calm
  <2>3. CASE PassKey(c)
    BY <2>3, SendWords DEF PassKey, Calm
  <2>4. CASE Start(c) \/ ReadName(c) \/ EndOfStream(c)
    BY <2>4 DEF Start, ReadName, EndOfStream, Calm
  <2> QED  BY <1>2, <1>3, <2>1, <2>2, <2>3, <2>4 DEF client_process
<1>7. ThreadsPaired'
  <2>1. \A d \in Clients \ {c} : thread'[d] = thread[d]
    BY <1>2, <1>3 DEF TypeOK, client_process, Start, ReadName, Connected, PassKey, PassText,
                      EndOfStream, Go, Return
  <2>2. /\ thread'[c].at \notin {"leave", "clear", "load", "store", "done"}
        /\ thread'[c].at \in {"key", "chat"} => buddy[thread'[c].slot] # None
        /\ thread'[c].at = "chat" => thread'[c].receiver # NULL
    <3>1. CASE Start(c)
      BY <3>1 DEF Start, TypeOK
    <3>2. CASE ReadName(c)
      BY <3>2 DEF ReadName, Go, TypeOK
    <3>3. CASE Connected(c)
      BY <3>3 DEF Connected, Go, TypeOK, Slot
    <3>4. CASE PassKey(c)
      <4>1. buddy[Slot(c)] # None
        BY <3>4 DEF PassKey, At, Calm, ThreadsPaired
      <4>2. find_client_by_fd(buddy[Slot(c)]) # NULL
        BY <1>1, <4>1, BuddyFound, FindsFd
      <4>3. /\ thread'[c].at = "chat" /\ thread'[c].slot = Slot(c)
            /\ thread'[c].receiver = find_client_by_fd(buddy[Slot(c)])
        BY <3>4 DEF PassKey, TypeOK, Slot
      <4> QED  BY <4>1, <4>2, <4>3
    <3>5. CASE PassText(c)
      <4>1. thread' = thread \/ Return(c, "idle")
        BY <3>5 DEF PassText
      <4>2. CASE thread' = thread
        BY <4>2 DEF Calm, ThreadsPaired, Slot, Receiver, Leaving
      <4>3. CASE Return(c, "idle")
        BY <4>3 DEF Return, TypeOK
      <4> QED  BY <4>1, <4>2, <4>3
    <3>6. CASE EndOfStream(c)
      BY <3>6 DEF EndOfStream, Return, TypeOK
    <3> QED  BY <1>2, <1>3, <3>1, <3>2, <3>3, <3>4, <3>5, <3>6 DEF client_process
  <2> QED  BY <1>4, <2>1, <2>2 DEF Calm, ThreadsPaired, Slot, Receiver, Leaving
<1>8. LongsWhole'
  <2>1. \A d \in Clients : Slot(d) \in Slots /\ Slot(d) + 1 \in Clients
    <3>1. \A d \in Clients : Slot(d) \in Slots
      BY DEF TypeOK, Slot
    <3> QED  BY <3>1, CalmSlot
  <2>2. CASE Start(c)
    <3>1. thread'[c].at = "name" /\ \A d \in Clients \ {c} : thread'[d] = thread[d]
      BY <2>2 DEF Start, TypeOK
    <3> QED  BY <1>4, <1>5, <2>1, <3>1 DEF LongsWhole, Calm, Slot
  <2>3. CASE ReadName(c)
    <3>1. thread'[c].slot = thread[c].slot /\ \A d \in Clients \ {c} : thread'[d] = thread[d]
      BY <2>3 DEF ReadName, Go, TypeOK
    <3> QED  BY <1>4, <1>5, <2>1, <2>3, <3>1 DEF LongsWhole, Calm, Slot, Whole
  <2>4. CASE Connected(c) \/ PassKey(c) \/ PassText(c) \/ EndOfStream(c)
    <3>1. thread[c].at \in {"idle", "key", "chat"} /\ thread'[c].slot = thread[c].slot
          /\ \A d \in Clients \ {c} : thread'[d] = thread[d]
      <4>1. thread[c].at \in {"idle", "key", "chat"}
        BY <2>4 DEF Connected, PassKey, PassText, EndOfStream, At
      <4>2. \/ thread' = thread \/ Go(c, "key") \/ Return(c, "idle")
            \/ \E found : thread' = [thread EXCEPT ![c].at = "chat", ![c].receiver = found]
        BY <2>4, Zenon DEF Connected, PassKey, PassText, EndOfStream
      <4> QED  BY <4>1, <4>2 DEF Go, Return, TypeOK
    <3> QED  BY <1>4, <1>5, <2>1, <3>1 DEF LongsWhole, Calm, Slot, Whole
  <2> QED  BY <1>2, <1>3, <2>2, <2>3, <2>4 DEF client_process
<1> QED  BY <1>4, <1>5, <1>6, <1>7, <1>8, TableKept

\* The clients that stay say nothing but quiet words.
LEMMA ClientCalm ==
  ASSUME Ordered, Calm, NEW c \in Clients, Reads(c) \/ chat_write(c)
  PROVE  Calm'
<1> USE ChatAssumption DEF Ordered
<1>1. UNCHANGED <<fd, buddy, open, thread, server>>
  BY DEF Reads, SendKey, ReadKey, chat_read, chat_write, slotVars
<1>2. \A d \in Clients : client'[d] = "new" <=> client[d] = "new"
  BY DEF Reads, SendKey, ReadKey, chat_read, chat_write, TypeOK
<1>3. toServer' \in [Clients -> Seq(Quiet)]
  <2>1. toServer \in [Clients -> Seq(Quiet)]
    BY DEF Calm
  <2>2. CASE SendKey(c)
    <3>1. Key(c) \in Seq(Quiet)
      BY ClientWords
    <3>2. toServer[c] \o Key(c) \in Seq(Quiet)
      BY <2>1, <3>1, ConcatProperties
    <3> QED  BY <2>1, <2>2, <3>2 DEF SendKey
  <2>3. CASE chat_write(c)
    <3>1. typed[c] + 1 \in Nat \ {0}
      BY DEF TypeOK
    <3>2. Text(c, typed[c] + 1) \in Seq(Quiet)
      BY <3>1, ClientWords
    <3>3. toServer[c] \o Text(c, typed[c] + 1) \in Seq(Quiet)
      BY <2>1, <3>2, ConcatProperties
    <3> QED  BY <2>1, <2>3, <3>3 DEF chat_write
  <2>4. CASE ReadKey(c) \/ chat_read(c)
    BY <2>1, <2>4 DEF ReadKey, chat_read
  <2> QED  BY <2>2, <2>3, <2>4 DEF Reads
<1>4. ThreadsPaired'
  BY <1>1 DEF Calm, ThreadsPaired, Slot, Receiver, Leaving
<1>5. \A d \in Clients : Whole(toServer[d]) => Whole(toServer'[d])
  <2>1. toServer \in [Clients -> Seq(Quiet)]
    BY DEF Calm
  <2>2. ASSUME NEW more \in Seq(Quiet), Len(more) \in {2, 4},
               toServer' = [toServer EXCEPT ![c] = @ \o more]
        PROVE  \A d \in Clients : Whole(toServer[d]) => Whole(toServer'[d])
    <3>1. Whole(more)
      <4>1. CASE Len(more) = 2
        <5>1. 1 \in 0 .. 2 /\ 2 = 2 * 1
          OBVIOUS
        <5> QED  BY <4>1, <5>1 DEF Whole
      <4>2. CASE Len(more) = 4
        <5>1. 2 \in 0 .. 4 /\ 4 = 2 * 2
          OBVIOUS
        <5> QED  BY <4>2, <5>1 DEF Whole
      <4> QED  BY <2>2, <4>1, <4>2
    <3>2. Whole(toServer[c]) => Whole(toServer[c] \o more)
      BY <2>1, <3>1, WholeGrows
    <3>3. toServer'[c] = toServer[c] \o more /\ \A d \in Clients \ {c} : toServer'[d] = toServer[d]
      BY <2>1, <2>2
    <3> QED  BY <3>2, <3>3
  <2>3. CASE SendKey(c)
    <3>1. Key(c) \in Seq(Quiet)
      BY ClientWords
    <3>2. Len(Key(c)) = 4
      <4>1. DOMAIN Key(c) = 1 .. 4
        BY DEF Key
      <4>2. DOMAIN Key(c) = 1 .. Len(Key(c)) /\ Len(Key(c)) \in Nat
        BY <3>1, LenProperties
      <4> QED  BY <4>1, <4>2
    <3> QED  BY <2>2, <2>3, <3>1, <3>2 DEF SendKey
  <2>4. CASE chat_write(c)
    <3>1. typed[c] + 1 \in Nat \ {0}
      BY DEF TypeOK
    <3>2. Text(c, typed[c] + 1) \in Seq(Quiet) /\ Len(Text(c, typed[c] + 1)) = 2
      BY <3>1, ClientWords DEF Text
    <3> QED  BY <2>2, <2>4, <3>2 DEF chat_write
  <2>5. CASE ReadKey(c) \/ chat_read(c)
    BY <2>5 DEF ReadKey, chat_read
  <2> QED  BY <2>3, <2>4, <2>5 DEF Reads
<1>6. LongsWhole'
  <2>1. \A d \in Clients : Slot(d) + 1 \in Clients
    <3>1. \A d \in Clients : Slot(d) \in Slots
      BY DEF TypeOK, Slot
    <3> QED  BY <3>1, CalmSlot
  <2> QED  BY <1>1, <1>5, <2>1 DEF LongsWhole, Calm, Slot, Whole
<1> QED  BY <1>1, <1>2, <1>3, <1>4, <1>6, TableKept DEF Calm

-----------------------------------------------------------------------------
(***************************************************************************)
(* The streams.                                                             *)
(***************************************************************************)

\* A word between two parts of a stream is inserted in it.
LEMMA SplitInserts ==
  ASSUME NEW S, NEW a \in Seq(S), NEW b \in Seq(S), NEW e
  PROVE  \E k \in 1 .. Len(a \o b) + 1 : InsertAt(a \o b, k, e) = a \o <<e>> \o b
<1>1. Len(a) \in Nat /\ Len(b) \in Nat /\ Len(a \o b) = Len(a) + Len(b)
  BY LenProperties, ConcatProperties
<1>2. SubSeq(a \o b, 1, Len(a)) = a
  <2>1. CASE Len(a) = 0
    <3>1. a = <<>>
      BY <2>1, EmptySeq
    <3>2. 1 \in Int /\ Len(a) \in Int /\ Len(a) < 1
      BY <2>1
    <3> QED  BY <3>1, <3>2, SubSeqEmpty, Zenon
  <2>2. CASE Len(a) # 0
    <3>1. 1 \in 1 .. Len(a) /\ Len(a) \in 1 .. Len(a)
      BY <1>1, <2>2
    <3>2. SubSeq(a \o b, 1, Len(a)) = SubSeq(a, 1, Len(a))
      BY <3>1, SubSeqOfConcat1, Zenon
    <3> QED  BY <3>2, SubSeqFull, Zenon
  <2> QED  BY <2>1, <2>2
<1>3. SubSeq(a \o b, Len(a) + 1, Len(a) + Len(b)) = b
  <2>1. CASE Len(b) = 0
    <3>1. b = <<>>
      BY <2>1, EmptySeq
    <3>2. Len(a) + 1 \in Int /\ Len(a) + Len(b) \in Int /\ Len(a) + Len(b) < Len(a) + 1
      BY <1>1, <2>1
    <3> QED  BY <3>1, <3>2, SubSeqEmpty, Zenon
  <2>2. CASE Len(b) # 0
    <3>1. /\ Len(a) + 1 \in Len(a) + 1 .. Len(a) + Len(b)
          /\ Len(a) + Len(b) \in Len(a) + 1 .. Len(a) + Len(b)
          /\ (Len(a) + 1) - Len(a) = 1 /\ (Len(a) + Len(b)) - Len(a) = Len(b)
      BY <1>1, <2>2
    <3>2. SubSeq(a \o b, Len(a) + 1, Len(a) + Len(b)) =
            SubSeq(b, (Len(a) + 1) - Len(a), (Len(a) + Len(b)) - Len(a))
      BY <3>1, SubSeqOfConcat2
    <3>3. SubSeq(a \o b, Len(a) + 1, Len(a) + Len(b)) = SubSeq(b, 1, Len(b))
      BY <3>1, <3>2, Zenon
    <3> QED  BY <3>3, SubSeqFull, Zenon
  <2> QED  BY <2>1, <2>2
<1>4. (Len(a) + 1) - 1 = Len(a) /\ Len(a) + 1 \in 1 .. Len(a \o b) + 1
  BY <1>1
<1>5. InsertAt(a \o b, Len(a) + 1, e) = a \o <<e>> \o b
  <2>1. SubSeq(a \o b, 1, (Len(a) + 1) - 1) = a
    BY <1>2, <1>4, Zenon
  <2>2. SubSeq(a \o b, Len(a) + 1, Len(a \o b)) = b
    BY <1>1, <1>3, Zenon
  <2>3. ASSUME NEW s, NEW k, SubSeq(s, 1, k - 1) = a, SubSeq(s, k, Len(s)) = b
        PROVE  InsertAt(s, k, e) = a \o <<e>> \o b
    BY <2>3 DEF InsertAt
  <2> QED  BY <2>1, <2>2, <2>3
<1> QED  BY <1>4, <1>5, Zenon

\* What has been heard keeps its beginning.
LEMMA HeadStays ==
  ASSUME NEW S, NEW s \in Seq(S), NEW w \in Seq(S), s # <<>>
  PROVE  s \o w # <<>> /\ Head(s \o w) = Head(s)
<1>1. Len(s) \in Nat \ {0} /\ Len(w) \in Nat
  BY EmptySeq, LenProperties
<1>2. s \o w \in Seq(S) /\ (s \o w)[1] = s[1]
  <2>1. 1 \in 1 .. Len(s) + Len(w) /\ 1 <= Len(s)
    BY <1>1
  <2>2. s \o w \in Seq(S)
        /\ (s \o w)[1] = IF 1 <= Len(s) THEN s[1] ELSE w[1 - Len(s)]
    BY <2>1, ConcatProperties
  <2> QED  BY <2>1, <2>2
<1>3. s \o w # <<>>
  BY ConcatEqualIffEmpty
<1>4. \A t \in Seq(S) : t # <<>> => Head(t) = t[1]
  OBVIOUS
<1> QED  BY <1>2, <1>3, <1>4, Zenon

\* What a client has heard with what its buddy's thread has not read, and the
\* words of the buddy: the word of the buddy is somewhere in between.
Merged(c, stream, words) ==
  IF Told(c)
  THEN \E a, b \in Seq(Wire) : words = a \o b /\ stream = a \o <<On>> \o b
  ELSE stream = words

Linked(b, c) == buddy[c - 1] = b /\ OwnThread(b) /\ OwnThread(c) /\ ~Overtaken(b)

WordsMerged ==
  \A b, c \in Clients : Linked(b, c) => Merged(c, Heard(c) \o Unread(b), Sent(b))

WireTyped == got \in [Clients -> Seq(Wire)] /\ toClient \in [Clients -> Seq(Wire)]
Kept == HandshakeKept /\ WordsMerged /\ NothingBefore /\ WireTyped
Steady == NobodyLeft /\ Ordered /\ Calm /\ Kept

LEMMA OnTheWire ==
  /\ On \in Wire /\ Stale \in Wire /\ Greeting \in Seq(Wire)
  /\ \A s : s \in Seq(Quiet) => s \in Seq(Words)
  /\ \A s : s \in Seq(Words) => s \in Seq(Wire)
  /\ \A w \in Quiet : w # On
<1>1. On \in Wire /\ Stale \in Wire
  BY DEF Wire
<1>2. Greeting \in Seq(Wire)
  BY <1>1 DEF Greeting
<1>3. Quiet \subseteq Words /\ Words \subseteq Wire
  BY DEF Quiet, Words, Wire
<1>4. \A w \in Quiet : w # On
  BY ChatAssumption DEF Quiet, On, Word, None, Clients
<1> QED  BY <1>1, <1>2, <1>3, <1>4, SeqMonotonic

LEMMA StreamsAssociate ==
  \A s, t, u \in Seq(Wire) : (s \o t) \o u = s \o (t \o u)
OBVIOUS

\* The letters a client has typed are words; behind its key they are at least four.
LEMMA SentWords ==
  ASSUME Ordered, NEW c \in Clients
  PROVE  /\ Sent(c) \in Seq(Wire)
         /\ Sent(c) # <<>> => KeySent(c) /\ Len(Sent(c)) \in Nat /\ Len(Sent(c)) >= 4
<1> DEFINE letters == [w \in 1 .. 2 * typed[c] |-> Word(c, "text", w)]
<1>1. 2 * typed[c] \in Nat
  BY ChatAssumption DEF Ordered, TypeOK
<1>2. \A w \in 1 .. 2 * typed[c] : Word(c, "text", w) \in Wire
  BY <1>1 DEF Word, Wire, Words
<1>3. letters \in [1 .. 2 * typed[c] -> Wire]
  BY <1>2
<1>4. letters \in Seq(Wire)
  BY <1>1, <1>3, SeqDef
<1>5. Key(c) \in Seq(Wire)
  BY OnTheWire, ClientWords
<1>6. Len(Key(c)) = 4
  <2>1. DOMAIN Key(c) = 1 .. 4
    BY DEF Key
  <2>2. DOMAIN Key(c) = 1 .. Len(Key(c)) /\ Len(Key(c)) \in Nat
    BY <1>5, LenProperties
  <2> QED  BY <2>1, <2>2
<1> HIDE DEF letters
<1>7. Key(c) \o letters \in Seq(Wire)
  BY <1>4, <1>5, ConcatProperties
<1>8. Len(Key(c) \o letters) = Len(Key(c)) + Len(letters) /\ Len(letters) \in Nat
  <2>1. Len(Key(c) \o letters) = Len(Key(c)) + Len(letters)
    BY <1>4, <1>5, ConcatProperties, Zenon
  <2>2. Len(letters) \in Nat
    BY <1>4, LenProperties
  <2> QED  BY <2>1, <2>2
<1>9. Len(Key(c) \o letters) \in Nat /\ Len(Key(c) \o letters) >= 4
  BY <1>6, <1>8
<1> QED  BY <1>7, <1>9, EmptySeq DEF Sent, letters

\* All the streams are of the words that go over the wire.
LEMMA Streams ==
  ASSUME Ordered, WireTyped, NEW c \in Clients
  PROVE  /\ got[c] \in Seq(Wire) /\ toClient[c] \in Seq(Wire) /\ toServer[c] \in Seq(Wire)
         /\ Heard(c) \in Seq(Wire) /\ Unread(c) \in Seq(Wire) /\ Sent(c) \in Seq(Wire)
<1>1. got[c] \in Seq(Wire) /\ toClient[c] \in Seq(Wire)
  BY DEF WireTyped
<1>2. toServer[c] \in Seq(Wire)
  BY OnTheWire DEF Ordered, TypeOK
<1>3. Heard(c) \in Seq(Wire)
  BY <1>1, ConcatProperties DEF Heard
<1>4. Unread(c) \in Seq(Wire)
  BY <1>2, EmptySeq DEF Unread
<1>5. Sent(c) \in Seq(Wire)
  BY SentWords
<1> QED  BY <1>1, <1>2, <1>3, <1>4, <1>5

\* Buddies are two clients that have come, and each other's.
LEMMA CalmBuddy ==
  ASSUME Ordered, Calm, NEW s \in Slots, buddy[s] # None
  PROVE  /\ buddy[s] \in Clients /\ buddy[s] - 1 \in Slots /\ buddy[s] # s + 1
         /\ buddy[buddy[s] - 1] = s + 1 /\ fd[s] = s + 1 /\ fd[buddy[s] - 1] = buddy[s]
         /\ client[buddy[s]] # "new" /\ client[s + 1] # "new" /\ Behind(buddy[s]) = buddy[s]
<1> USE ChatAssumption
<1>1. buddy[s] - 1 \in Slots /\ fd[buddy[s] - 1] = buddy[s] /\ buddy[s] \in Clients
  BY BuddyFound DEF Ordered, TypeOK
<1>2. fd[s] # None /\ buddy[s] # fd[s] /\ buddy[buddy[s] - 1] = fd[s]
  BY DEF Calm, Pairs
<1>3. fd[s] = s + 1 /\ client[s + 1] # "new"
  BY <1>2, CalmSlot
<1>4. (buddy[s] - 1) + 1 = buddy[s]
  BY <1>1 DEF Clients
<1>5. client[buddy[s]] # "new"
  BY <1>1, <1>4, CalmSlot
<1> QED  BY <1>1, <1>2, <1>3, <1>5, CalmBehind

\* What only its own thread serves, was only served by it before.
LEMMA OwnBefore ==
  ASSUME NEW c \in Clients, OwnThread(c)',
         \A d \in Clients : Started(d) => Started(d)' /\ Slot(d)' = Slot(d)
  PROVE  OwnThread(c)
BY DEF OwnThread

\* Who is not overtaken when it has heard more, was not before.
LEMMA OvertakenStays ==
  ASSUME NEW c \in Clients, NEW more \in Seq(Wire), Heard(c) \in Seq(Wire),
         Heard(c)' = Heard(c) \o more, ~Overtaken(c)'
  PROVE  ~Overtaken(c)
<1> SUFFICES ASSUME Heard(c) # <<>>, Head(Heard(c)) # On PROVE FALSE
  BY DEF Overtaken
<1>1. Heard(c) \o more # <<>> /\ Head(Heard(c) \o more) = Head(Heard(c))
  BY HeadStays
<1> QED  BY <1>1 DEF Overtaken

\* What is written to a client is heard behind what it has heard before.
LEMMA HeardGrows ==
  ASSUME WireTyped, NEW c \in Clients, NEW more \in Seq(Wire),
         got'[c] = got[c], toClient'[c] = toClient[c] \o more
  PROVE  Heard(c)' = Heard(c) \o more
<1>1. got[c] \in Seq(Wire) /\ toClient[c] \in Seq(Wire)
  BY DEF WireTyped
<1>2. (got[c] \o toClient[c]) \o more = got[c] \o (toClient[c] \o more)
  BY <1>1, StreamsAssociate
<1> QED  BY <1>2 DEF Heard

\* A client that has heard nothing is overtaken by its buddy's words.
LEMMA Overtaking ==
  ASSUME NEW c \in Clients, NEW words \in Seq(Wire), words # <<>>, Head(words) # On,
         Heard(c) = <<>>, Heard(c)' = Heard(c) \o words
  PROVE  Overtaken(c)'
<1>1. Heard(c)' = words
  BY ConcatEmptySeq
<1> QED  BY <1>1 DEF Overtaken

\* What is read of quiet words begins with one, whatever comes behind it.
LEMMA PaddedWords ==
  ASSUME NEW words \in Seq(Quiet), words # <<>>, NEW n \in Nat
  PROVE  Padded(words, n) \in Seq(Wire) /\ Padded(words, n) # <<>> /\ Head(Padded(words, n)) # On
<1> DEFINE stale == [k \in 1 .. n - Len(words) |-> Stale]
<1>1. Len(words) \in Nat
  BY LenProperties
<1>2. PICK m \in Nat : 1 .. n - Len(words) = 1 .. m
  <2>1. CASE n - Len(words) \in Nat
    BY <2>1
  <2>2. CASE n - Len(words) \notin Nat
    <3>1. 1 .. n - Len(words) = 1 .. 0
      BY <1>1, <2>2
    <3> QED  BY <3>1
  <2> QED  BY <2>1, <2>2
<1>3. stale \in [1 .. m -> Wire]
  BY <1>2, OnTheWire
<1>4. stale \in Seq(Wire)
  BY <1>3, SeqDef
<1> HIDE DEF stale
<1>5. words \in Seq(Wire) /\ Head(words) \in Quiet
  BY HeadTailProperties, OnTheWire
<1>6. words \o stale \in Seq(Wire) /\ words \o stale # <<>> /\ Head(words \o stale) = Head(words)
  BY <1>4, <1>5, HeadStays, ConcatProperties
<1> QED  BY <1>5, <1>6, OnTheWire DEF Padded, stale

\* Two streams grow together.
LEMMA MergedGrows ==
  ASSUME NEW c \in Clients, NEW stream, NEW words,
         NEW more \in Seq(Wire), Merged(c, stream, words)
  PROVE  Merged(c, stream \o more, words \o more)
<1>1. CASE ~Told(c)
  BY <1>1 DEF Merged
<1>2. CASE Told(c)
  <2>1. PICK a \in Seq(Wire), b \in Seq(Wire) : words = a \o b /\ stream = a \o <<On>> \o b
    BY <1>2 DEF Merged
  <2>2. <<On>> \in Seq(Wire)
    BY OnTheWire DEF Greeting
  <2>3. a \o <<On>> \in Seq(Wire) /\ b \o more \in Seq(Wire)
    BY <2>2, ConcatProperties
  <2>4. words \o more = a \o (b \o more)
    BY <2>1, StreamsAssociate
  <2>5. \A s \in Seq(Wire) : (s \o b) \o more = s \o (b \o more)
    BY StreamsAssociate
  <2>6. stream \o more = (a \o <<On>>) \o (b \o more)
    BY <2>1, <2>3, <2>5
  <2> QED  BY <1>2, <2>3, <2>4, <2>6 DEF Merged
<1> QED  BY <1>1, <1>2

\* The words stay together where neither the streams nor the words change.
LEMMA MergedStays ==
  ASSUME NEW b \in Clients, NEW c \in Clients, WordsMerged, Linked(b, c),
         Told(c)' <=> Told(c), Sent(b)' = Sent(b),
         (Heard(c) \o Unread(b))' = Heard(c) \o Unread(b)
  PROVE  Merged(c, Heard(c) \o Unread(b), Sent(b))'
<1>1. Merged(c, Heard(c) \o Unread(b), Sent(b))
  BY DEF WordsMerged
<1> QED  BY <1>1 DEF Merged

-----------------------------------------------------------------------------
(***************************************************************************)
(* Each step keeps the streams.                                             *)
(***************************************************************************)

\* A step that changes none of the streams, but lets a thread get as far as to
\* its first read.
LEMMA StartingKept ==
  ASSUME Steady, NEW c \in Clients, thread[c].at \in {"none", "start"},
         \A d \in Clients \ {c} : thread'[d] = thread[d],
         thread'[c].at \in {"start", "name"},
         UNCHANGED <<buddy, client, typed, got, toServer, toClient>>
  PROVE  Kept'
<1>1. \A d \in Clients : Started(d) => Started(d)' /\ Slot(d)' = Slot(d)
  BY DEF Started, Slot
<1>2. \A d \in Clients : Heard(d)' = Heard(d) /\ Overtaken(d)' = Overtaken(d) /\ Sent(d)' = Sent(d)
                       /\ Waits(d)' = Waits(d) /\ KeySent(d)' = KeySent(d)
  BY DEF Heard, Overtaken, Sent, Waits, KeySent
<1>3. \A d \in Clients : Unread(d)' = Unread(d) /\ (Told(d)' <=> Told(d))
  BY DEF Unread, Told
<1>4. HandshakeKept'
  <2> SUFFICES ASSUME NEW d \in Clients, client[d] # "new", OwnThread(d)', ~Overtaken(d)
               PROVE  /\ thread'[d].at \in {"none", "start", "name"} =>
                           Waits(d) /\ toServer[d] = Name(d)
                      /\ thread'[d].at = "idle" => Waits(d) /\ toServer[d] = <<>>
                      /\ thread'[d].at = "key" => toServer[d] = Sent(d)
                      /\ thread'[d].at = "chat" => KeySent(d)
    BY <1>2 DEF HandshakeKept, Name, Word
  <2>1. OwnThread(d)
    BY <1>1, OwnBefore
  <2> QED  BY <2>1 DEF HandshakeKept, Steady, Kept
<1>5. WordsMerged'
  <2> SUFFICES ASSUME NEW b \in Clients, NEW d \in Clients, Linked(b, d)'
               PROVE  Merged(d, Heard(d) \o Unread(b), Sent(b))'
    BY DEF WordsMerged
  <2>1. Linked(b, d)
    BY <1>1, <1>2, OwnBefore DEF Linked
  <2> QED  BY <1>2, <1>3, <2>1, MergedStays DEF Steady, Kept
<1>6. NothingBefore'
  BY <1>2 DEF NothingBefore, Steady, Kept, Receiver, Slot
<1> QED  BY <1>4, <1>5, <1>6 DEF Steady, Kept, WireTyped

LEMMA CreateKept ==
  ASSUME Steady, Create
  PROVE  Kept'
<1>1. PICK c \in Clients : thread[c].at = "none" /\ thread' = [thread EXCEPT ![c].at = "start"]
  <2> DEFINE awaits(d) == client[d] # "new" /\ thread[d].at = "none"
  <2>1. PICK c \in Clients : awaits(c)
    BY DEF Steady, Ordered, ThreadsCounted, Create, Awaited
  <2>2. (CHOOSE d \in Clients : awaits(d)) \in Clients /\ awaits(CHOOSE d \in Clients : awaits(d))
    BY <2>1
  <2>3. thread' = [thread EXCEPT ![CHOOSE d \in Clients : awaits(d)].at = "start"]
    BY Zenon DEF Create
  <2> QED  BY <2>2, <2>3
<1>2. thread \in [Clients -> ThreadState]
  BY DEF Steady, Ordered, TypeOK, ThreadState, Points
<1>3. thread'[c].at = "start" /\ \A d \in Clients \ {c} : thread'[d] = thread[d]
  BY <1>1, <1>2 DEF ThreadState
<1>4. UNCHANGED <<buddy, client, typed, got, toServer, toClient>>
  BY DEF Create, slotVars, clientVars
<1> QED  BY <1>1, <1>3, <1>4, StartingKept

\* A step that changes nothing of the streams.
LEMMA SameKept ==
  ASSUME Steady, UNCHANGED <<buddy, thread, client, typed, got, toServer, toClient>>
  PROVE  Kept'
<1>1. \A d \in Clients : /\ Heard(d)' = Heard(d) /\ Overtaken(d)' = Overtaken(d)
                         /\ Sent(d)' = Sent(d) /\ (Waits(d)' <=> Waits(d))
                         /\ (KeySent(d)' <=> KeySent(d)) /\ (Told(d)' <=> Told(d))
                         /\ (OwnThread(d)' <=> OwnThread(d)) /\ Unread(d)' = Unread(d)
  BY DEF Heard, Overtaken, Sent, Key, Word, Waits, KeySent, Told, OwnThread, Started, Slot, Unread
<1>2. HandshakeKept' /\ NothingBefore' /\ WireTyped'
  BY <1>1 DEF Steady, Kept, HandshakeKept, NothingBefore, WireTyped, Slot, Receiver, Name, Word
<1>3. ASSUME NEW b \in Clients, NEW d \in Clients, Linked(b, d)'
      PROVE  Merged(d, Heard(d) \o Unread(b), Sent(b))'
  <2>1. Linked(b, d)
    BY <1>1, <1>3 DEF Linked
  <2> QED  BY <1>1, <2>1, MergedStays DEF Steady, Kept
<1>4. WordsMerged'
  BY <1>3 DEF WordsMerged
<1> QED  BY <1>2, <1>4 DEF Kept

LEMMA CountKept ==
  ASSUME Steady, Count
  PROVE  Kept'
<1>1. CASE Load \/ Store
  BY <1>1, SameKept DEF Load, Store, clientVars
<1> QED  BY <1>1, CreateKept DEF Count

LEMMA StartKept ==
  ASSUME Steady, NEW c \in Clients, Start(c)
  PROVE  Kept'
<1>1. thread'[c].at = "name" /\ \A d \in Clients \ {c} : thread'[d] = thread[d]
  BY DEF Start, Steady, Ordered, TypeOK
<1>2. thread[c].at = "start" /\ UNCHANGED <<buddy, client, typed, got, toServer, toClient>>
  BY DEF Start, At, slotVars, clientVars
<1> QED  BY <1>1, <1>2, StartingKept

\* The name is all that is there, and all of it is read.
LEMMA ReadNameKept ==
  ASSUME Steady, NEW c \in Clients, ReadName(c)
  PROVE  Kept'
<1> USE ChatAssumption
<1>1. Slot(c) \in Slots
  BY DEF Steady, Ordered, TypeOK, Slot
<1>2. PICK x \in Clients : x - 1 = Slot(c) /\ Behind(fd[Slot(c)]) = x
  <2>1. PICK x \in Clients : x = Slot(c) + 1 /\ Behind(fd[Slot(c)]) = x
    BY <1>1, ReadsWords DEF Steady, ReadName
  <2> QED  BY <1>1, <2>1 DEF Slots
<1>3. /\ thread[c].at = "name" /\ thread'[c].at = "idle" /\ thread'[c].slot = thread[c].slot
      /\ \A d \in Clients \ {c} : thread'[d] = thread[d]
  BY DEF ReadName, At, Go, Steady, Ordered, TypeOK
<1>4. toServer' = [toServer EXCEPT ![x] = Drop(@, Len(toServer[x]))]
  <2>1. x # None
    BY DEF Clients, None
  <2> QED  BY <1>2, <2>1, Zenon DEF ReadName, Consume
<1>5. toServer'[x] = <<>> /\ \A d \in Clients \ {x} : toServer'[d] = toServer[d]
  <2>1. Len(toServer[x]) \in Nat
    BY <1>2, Streams, LenProperties DEF Steady, Kept
  <2>2. Drop(toServer[x], Len(toServer[x])) = <<>>
    BY <2>1, SubSeqEmpty DEF Drop
  <2> QED  BY <1>2, <1>4, <2>2 DEF Steady, Ordered, TypeOK
<1>6. UNCHANGED <<buddy, client, typed, got, toClient>>
  BY DEF ReadName, slotVars, clientVars
<1>7. \A d \in Clients : Started(d) => Started(d)' /\ Slot(d)' = Slot(d)
  BY <1>3 DEF Started, Slot
<1>8. \A d \in Clients : Heard(d)' = Heard(d) /\ Overtaken(d)' = Overtaken(d) /\ Sent(d)' = Sent(d)
                       /\ Waits(d)' = Waits(d) /\ KeySent(d)' = KeySent(d)
  BY <1>6 DEF Heard, Overtaken, Sent, Waits, KeySent
<1>9. \A d \in Clients : OwnThread(d) => (x = d <=> d = c)
  BY <1>2, <1>3 DEF OwnThread, Started, Clients
<1>10. HandshakeKept'
  <2> SUFFICES ASSUME NEW d \in Clients, client[d] # "new", OwnThread(d)', ~Overtaken(d)
               PROVE  /\ thread'[d].at \in {"none", "start", "name"} =>
                           Waits(d) /\ toServer'[d] = Name(d)
                      /\ thread'[d].at = "idle" => Waits(d) /\ toServer'[d] = <<>>
                      /\ thread'[d].at = "key" => toServer'[d] = Sent(d)
                      /\ thread'[d].at = "chat" => KeySent(d)
    BY <1>6, <1>8 DEF HandshakeKept, Name, Word
  <2>1. OwnThread(d)
    BY <1>7, OwnBefore
  <2>2. CASE d = c
    BY <1>3, <1>5, <1>9, <2>1, <2>2 DEF HandshakeKept, Steady, Kept
  <2>3. CASE d # c
    BY <1>3, <1>5, <1>9, <2>1, <2>3 DEF HandshakeKept, Steady, Kept
  <2> QED  BY <2>2, <2>3
<1>11. WordsMerged'
  <2> SUFFICES ASSUME NEW b \in Clients, NEW d \in Clients, Linked(b, d)'
               PROVE  Merged(d, Heard(d) \o Unread(b), Sent(b))'
    BY DEF WordsMerged
  <2>1. Linked(b, d)
    BY <1>6, <1>7, <1>8, OwnBefore DEF Linked
  <2>2. Unread(b)' = Unread(b)
    <3>1. x = b <=> b = c
      BY <1>9, <2>1 DEF Linked
    <3> QED  BY <1>3, <1>5, <3>1 DEF Unread
  <2>3. Told(d)' <=> Told(d)
    BY <1>3 DEF Told
  <2> QED  BY <1>8, <2>1, <2>2, <2>3, MergedStays DEF Steady, Kept
<1>12. NothingBefore'
  BY <1>3, <1>6, <1>8 DEF NothingBefore, Steady, Kept, Receiver, Slot
<1> QED  BY <1>6, <1>10, <1>11, <1>12 DEF Steady, Kept, WireTyped

\* The word that a client has a buddy is written behind what it has heard.
LEMMA ConnectedKept ==
  ASSUME Steady, NEW c \in Clients, Connected(c)
  PROVE  Kept'
<1> USE ChatAssumption
<1>1. Slot(c) \in Slots /\ buddy[Slot(c)] # None
  BY DEF Steady, Ordered, TypeOK, Slot, Connected
<1>2. PICK x \in Clients : x - 1 = Slot(c) /\ Behind(fd[Slot(c)]) = x
  <2>1. fd[Slot(c)] # None
    BY <1>1 DEF Steady, Calm, Pairs
  <2> QED  BY <1>1, <2>1, CalmSlot DEF Steady
<1>3. /\ thread[c].at = "idle" /\ thread'[c].at = "key" /\ thread'[c].slot = thread[c].slot
      /\ \A d \in Clients \ {c} : thread'[d] = thread[d]
  BY DEF Connected, At, Go, Steady, Ordered, TypeOK
<1>4. toClient' = [toClient EXCEPT ![x] = @ \o <<On>>]
  <2>1. x # None /\ client[x] # "gone"
    BY <1>2 DEF Steady, NobodyLeft, Clients, None
  <2> QED  BY <1>2, <2>1 DEF Connected, Send, Greeting
<1>5. UNCHANGED <<buddy, client, typed, got, toServer>>
  BY DEF Connected, slotVars, clientVars
<1>6. <<On>> \in Seq(Wire)
  BY OnTheWire DEF Greeting
<1>7. \A d \in Clients \ {x} : Heard(d)' = Heard(d)
  BY <1>4, <1>5 DEF Heard, Steady, Kept, WireTyped
<1>8. Heard(x)' = Heard(x) \o <<On>>
  <2>1. toClient'[x] = toClient[x] \o <<On>>
    BY <1>4 DEF Steady, Kept, WireTyped
  <2> QED  BY <1>5, <1>6, <2>1, HeardGrows DEF Steady, Kept
<1>9. \A d \in Clients : Started(d) => Started(d)' /\ Slot(d)' = Slot(d)
  BY <1>3 DEF Started, Slot
<1>10. \A d \in Clients : OwnThread(d) => (x = d <=> d = c)
  BY <1>2, <1>3 DEF OwnThread, Started, Clients
<1>11. \A d \in Clients : \E more \in Seq(Wire) : Heard(d) \in Seq(Wire) /\ Heard(d)' = Heard(d) \o more
  <2> SUFFICES ASSUME NEW d \in Clients
               PROVE  \E more \in Seq(Wire) : Heard(d) \in Seq(Wire) /\ Heard(d)' = Heard(d) \o more
    OBVIOUS
  <2>1. Heard(d) \in Seq(Wire)
    BY Streams DEF Steady, Kept
  <2>2. Heard(d) \o <<>> = Heard(d) /\ <<>> \in Seq(Wire)
    BY <2>1, ConcatEmptySeq, EmptySeq
  <2>3. CASE d = x
    BY <1>6, <1>8, <2>1, <2>3
  <2>4. CASE d # x
    BY <1>7, <2>1, <2>2, <2>4
  <2> QED  BY <2>3, <2>4
<1>12. \A d \in Clients : ~Overtaken(d)' => ~Overtaken(d)
  BY <1>11, OvertakenStays
<1>13. HandshakeKept'
  <2> SUFFICES ASSUME NEW d \in Clients, client[d] # "new", OwnThread(d)', ~Overtaken(d)'
               PROVE  /\ thread'[d].at \in {"none", "start", "name"} =>
                           Waits(d)' /\ toServer[d] = Name(d)
                      /\ thread'[d].at = "idle" => Waits(d)' /\ toServer[d] = <<>>
                      /\ thread'[d].at = "key" => toServer[d] = Sent(d)
                      /\ thread'[d].at = "chat" => KeySent(d)'
    BY <1>5 DEF HandshakeKept, Name, Word, Sent, KeySent, Key
  <2>1. OwnThread(d) /\ ~Overtaken(d)
    BY <1>9, <1>12, OwnBefore
  <2>2. CASE d = c
    BY <1>3, <2>1, <2>2 DEF HandshakeKept, Steady, Kept, Waits, Sent, KeySent
  <2>3. CASE d # c
    <3>1. Heard(d)' = Heard(d)
      BY <1>7, <1>10, <2>1, <2>3
    <3> QED  BY <1>3, <1>5, <2>1, <2>3, <3>1 DEF HandshakeKept, Steady, Kept, Waits, KeySent
  <2> QED  BY <2>2, <2>3
<1>14. WordsMerged'
  <2> SUFFICES ASSUME NEW b \in Clients, NEW d \in Clients, Linked(b, d)'
               PROVE  Merged(d, Heard(d) \o Unread(b), Sent(b))'
    BY DEF WordsMerged
  <2>1. Linked(b, d)
    BY <1>5, <1>9, <1>12, OwnBefore DEF Linked
  <2>2. Sent(b)' = Sent(b) /\ Unread(b)' = Unread(b)
    BY <1>3, <1>5 DEF Sent, KeySent, Unread
  <2>3. CASE d = c
    <3>1. Heard(d)' = Heard(d) \o <<On>>
      BY <1>8, <1>10, <2>1, <2>3 DEF Linked
    <3>2. Heard(d) \o Unread(b) = Sent(b) /\ Told(d)'
      BY <1>3, <2>1, <2>3 DEF WordsMerged, Merged, Told, Steady, Kept
    <3>3. Heard(d) \in Seq(Wire) /\ Unread(b) \in Seq(Wire)
      BY Streams DEF Steady, Kept
    <3> QED  BY <2>2, <3>1, <3>2, <3>3 DEF Merged
  <2>4. CASE d # c
    <3>1. Heard(d)' = Heard(d) /\ (Told(d)' <=> Told(d))
      BY <1>3, <1>7, <1>10, <2>1, <2>4 DEF Linked, Told
    <3> QED  BY <2>1, <2>2, <3>1, MergedStays DEF Steady, Kept
  <2> QED  BY <2>3, <2>4
<1>15. NothingBefore'
  <2>1. \A d \in Clients : buddy[d - 1] = None => d # x
    BY <1>1, <1>2
  <2> QED  BY <1>3, <1>5, <1>7, <2>1 DEF NothingBefore, Steady, Kept, Receiver, Slot
<1>16. toClient' \in [Clients -> Seq(Wire)]
  <2>1. toClient[x] \o <<On>> \in Seq(Wire)
    BY <1>2, <1>6, ConcatProperties DEF Steady, Kept, WireTyped
  <2> QED  BY <1>4, <2>1 DEF Steady, Kept, WireTyped
<1> QED  BY <1>5, <1>13, <1>14, <1>15, <1>16 DEF Steady, Kept, WireTyped

\* What a thread passes on goes from one stream to the other.
LEMMA PassedKept ==
  ASSUME Steady, NEW c \in Clients, NEW n \in Nat \ {0}, NEW words \in Seq(Wire),
         thread[c].at \in {"key", "chat"}, Readable(fd[Slot(c)]), Consume(fd[Slot(c)], n),
         Send(buddy[Slot(c)], words), words # <<>>, Head(words) # On,
         \A x \in Clients : x - 1 = Slot(c) /\ OwnThread(x) /\ ~Overtaken(x) =>
           words = Take(toServer[x], n),
         thread'[c].at = "chat", thread'[c].slot = thread[c].slot,
         thread'[c].receiver = buddy[Slot(c)] - 1,
         \A d \in Clients \ {c} : thread'[d] = thread[d],
         UNCHANGED <<buddy, client, typed, got>>
  PROVE  Kept'
<1> USE ChatAssumption
<1>1. Slot(c) \in Slots /\ buddy[Slot(c)] # None
  BY DEF Steady, Ordered, TypeOK, Calm, ThreadsPaired, Slot
<1>2. PICK x \in Clients : x - 1 = Slot(c) /\ Behind(fd[Slot(c)]) = x
  <2>1. PICK x \in Clients : x = Slot(c) + 1 /\ Behind(fd[Slot(c)]) = x
    BY <1>1, ReadsWords DEF Steady
  <2> QED  BY <1>1, <2>1 DEF Slots
<1>3. PICK y \in Clients : buddy[x - 1] = y /\ y # x /\ buddy[y - 1] = x /\ Behind(y) = y
  <2>1. Slot(c) + 1 = x
    BY <1>2 DEF Clients
  <2> QED  BY <1>1, <1>2, <2>1, CalmBuddy DEF Steady
<1>4. toServer[x] # <<>> /\ client[y] # "gone" /\ y # None /\ toServer[x] \in Seq(Quiet)
  <2>1. toServer[Slot(c) + 1] # <<>> /\ x = Slot(c) + 1
    BY <1>1, <1>2, ReadsWords DEF Steady, Clients
  <2> QED  BY <2>1 DEF Steady, NobodyLeft, Clients, None, Calm
<1>5. PICK passed \in Seq(Quiet), rest \in Seq(Quiet) :
        /\ passed = Take(toServer[x], n) /\ rest = Drop(toServer[x], n)
        /\ passed \o rest = toServer[x] /\ passed # <<>>
  BY <1>4, TakeDrop
<1>6. passed \in Seq(Wire) /\ rest \in Seq(Wire)
  BY OnTheWire
<1>7. toServer'[x] = rest /\ \A d \in Clients \ {x} : toServer'[d] = toServer[d]
  <2>1. toServer' = [toServer EXCEPT ![x] = Drop(@, n)]
    <3>1. x # None
      BY DEF Clients, None
    <3> QED  BY <1>2, <3>1, Zenon DEF Consume
  <2> QED  BY <1>5, <2>1 DEF Steady, Ordered, TypeOK
<1>8. /\ toClient'[y] = toClient[y] \o words
      /\ \A d \in Clients \ {y} : toClient'[d] = toClient[d]
      /\ toClient' \in [Clients -> Seq(Wire)]
  <2>1. toClient' = [toClient EXCEPT ![y] = @ \o words]
    <3>1. Send(y, words)
      BY <1>2, <1>3
    <3> QED  BY <1>3, <1>4, <3>1 DEF Send
  <2>2. toClient[y] \o words \in Seq(Wire)
    BY ConcatProperties DEF Steady, Kept, WireTyped
  <2> QED  BY <2>1, <2>2 DEF Steady, Kept, WireTyped
<1>9. \A d \in Clients \ {y} : Heard(d)' = Heard(d)
  BY <1>8 DEF Heard
<1>10. Heard(y)' = Heard(y) \o words
  BY <1>8, HeardGrows DEF Steady, Kept
<1>11. \A d \in Clients : Started(d) => Started(d)' /\ Slot(d)' = Slot(d)
  BY DEF Started, Slot
<1>12. \A d \in Clients : OwnThread(d) => (x = d <=> d = c)
  <2>1. Started(c)
    BY DEF Started
  <2>2. \A d \in Clients : Slot(c) = d - 1 <=> x = d
    BY <1>2 DEF Clients
  <2> QED  BY <2>1, <2>2 DEF OwnThread
<1>13. \A d \in Clients : ~Overtaken(d)' => ~Overtaken(d)
  <2> SUFFICES ASSUME NEW d \in Clients, ~Overtaken(d)' PROVE ~Overtaken(d)
    OBVIOUS
  <2>1. CASE d = y
    <3>1. Heard(d) \in Seq(Wire)
      BY Streams DEF Steady, Kept
    <3> QED  BY <1>10, <2>1, <3>1, OvertakenStays
  <2>2. CASE d # y
    BY <1>9, <2>2 DEF Overtaken
  <2> QED  BY <2>1, <2>2
<1>14. HandshakeKept'
  <2> SUFFICES ASSUME NEW d \in Clients, client[d] # "new", OwnThread(d)', ~Overtaken(d)'
               PROVE  /\ thread'[d].at \in {"none", "start", "name"} =>
                           Waits(d)' /\ toServer'[d] = Name(d)
                      /\ thread'[d].at = "idle" => Waits(d)' /\ toServer'[d] = <<>>
                      /\ thread'[d].at = "key" => toServer'[d] = Sent(d)
                      /\ thread'[d].at = "chat" => KeySent(d)
    BY DEF HandshakeKept, Name, Word, Sent, KeySent, Key
  <2>1. OwnThread(d) /\ ~Overtaken(d)
    BY <1>11, <1>13, OwnBefore
  <2>2. CASE d = c
    <3>1. toServer[d] # <<>>
      BY <1>4, <1>12, <2>1, <2>2
    <3>2. thread[c].at = "chat" => KeySent(c)
      BY <2>1, <2>2 DEF HandshakeKept, Steady, Kept
    <3>3. thread[c].at = "key" => KeySent(c)
      BY <2>1, <2>2, <3>1 DEF HandshakeKept, Steady, Kept, Sent
    <3> QED  BY <2>2, <3>2, <3>3
  <2>3. CASE d # c
    <3>1. thread'[d] = thread[d] /\ toServer'[d] = toServer[d]
      BY <1>7, <1>12, <2>1, <2>3
    <3>2. Waits(d) => Waits(d)'
      <4>1. CASE d = y
        BY <1>10, <4>1, Overtaking DEF Waits
      <4>2. CASE d # y
        BY <1>9, <4>2 DEF Waits
      <4> QED  BY <4>1, <4>2
    <3> QED  BY <2>1, <3>1, <3>2 DEF HandshakeKept, Steady, Kept
  <2> QED  BY <2>2, <2>3
<1>15. WordsMerged'
  <2> SUFFICES ASSUME NEW b \in Clients, NEW d \in Clients, Linked(b, d)'
               PROVE  Merged(d, Heard(d) \o Unread(b), Sent(b))'
    BY DEF WordsMerged
  <2>1. Linked(b, d)
    BY <1>11, <1>13, OwnBefore DEF Linked
  <2>2. Sent(b)' = Sent(b) /\ (Told(d)' <=> Told(d))
    BY DEF Sent, KeySent, Told
  <2>3. buddy[d - 1] = b /\ buddy[b - 1] = d
    <3>1. d - 1 \in Slots /\ (d - 1) + 1 = d /\ b # None
      BY DEF Clients, Slots, None
    <3>2. buddy[d - 1] = b
      BY <2>1 DEF Linked
    <3> QED  BY <3>1, <3>2, CalmBuddy DEF Steady
  <2>4. d = y <=> b = x
    BY <1>3, <2>3
  <2>5. x = b <=> b = c
    BY <1>12, <2>1 DEF Linked
  <2>6. CASE d = y
    <3>0. words = passed
      BY <1>2, <1>5, <2>1, <2>4, <2>6 DEF Linked
    <3>1. Unread(b) = passed \o rest /\ Unread(b)' = rest
      BY <1>5, <1>7, <2>4, <2>5, <2>6 DEF Unread
    <3>2. Heard(d) \in Seq(Wire)
      BY Streams DEF Steady, Kept
    <3>3. (Heard(d) \o passed) \o rest = Heard(d) \o (passed \o rest)
      BY <1>6, <3>2, StreamsAssociate
    <3>4. (Heard(d) \o Unread(b))' = Heard(d) \o Unread(b)
      BY <1>10, <2>6, <3>0, <3>1, <3>3
    <3> QED  BY <2>1, <2>2, <3>4, MergedStays DEF Steady, Kept
  <2>7. CASE d # y
    <3>1. Heard(d)' = Heard(d)
      BY <1>9, <2>7
    <3>2. Unread(b)' = Unread(b)
      BY <1>7, <2>4, <2>5, <2>7 DEF Unread
    <3> QED  BY <2>1, <2>2, <3>1, <3>2, MergedStays DEF Steady, Kept
  <2> QED  BY <2>6, <2>7
<1>16. NothingBefore'
  <2>1. \A d \in Clients : buddy[d - 1] = None => d # y
    BY <1>3 DEF Clients, None
  <2>2. \A d \in Clients : buddy[d - 1] = None => Heard(d)' = <<>>
    BY <1>9, <2>1 DEF NothingBefore, Steady, Kept
  <2> QED  BY <2>2 DEF NothingBefore, Steady, Kept, Receiver, Slot
<1>17. WireTyped'
  BY <1>8 DEF Steady, Kept, WireTyped
<1> QED  BY <1>14, <1>15, <1>16, <1>17 DEF Kept

LEMMA PassKeyKept ==
  ASSUME Steady, NEW c \in Clients, PassKey(c)
  PROVE  Kept'
<1> USE ChatAssumption
<1>1. Slot(c) \in Slots /\ buddy[Slot(c)] # None /\ thread[c].at = "key"
  BY DEF Steady, Ordered, TypeOK, Calm, ThreadsPaired, Slot, PassKey, At
<1>2. find_client_by_fd(buddy[Slot(c)]) = buddy[Slot(c)] - 1
  <2>1. buddy[Slot(c)] - 1 \in Slots /\ fd[buddy[Slot(c)] - 1] = buddy[Slot(c)]
    BY <1>1, CalmBuddy DEF Steady
  <2>2. PICK t \in Slots : t = find_client_by_fd(buddy[Slot(c)]) /\ fd[t] = buddy[Slot(c)]
    BY <2>1, FindsFd
  <2>3. fd[t] = t + 1
    BY <1>1, <2>2, CalmSlot DEF Steady
  <2> QED  BY <2>2, <2>3 DEF Slots
<1>3. /\ thread'[c].at = "chat" /\ thread'[c].slot = thread[c].slot
      /\ thread'[c].receiver = buddy[Slot(c)] - 1
      /\ \A d \in Clients \ {c} : thread'[d] = thread[d]
  <2>1. \E receiver : receiver = find_client_by_fd(buddy[Slot(c)])
          /\ thread' = [thread EXCEPT ![c].at = "chat", ![c].receiver = receiver]
    BY Zenon DEF PassKey
  <2> QED  BY <1>2, <2>1 DEF Steady, Ordered, TypeOK
<1>4. UNCHANGED <<buddy, client, typed, got>>
  BY DEF PassKey, slotVars, clientVars
<1>5. /\ Readable(fd[Slot(c)]) /\ Consume(fd[Slot(c)], 4)
      /\ Send(buddy[Slot(c)], Padded(Taken(fd[Slot(c)], 4), 4))
  BY Zenon DEF PassKey
<1>6. PICK x \in Clients : /\ x - 1 = Slot(c) /\ x # None /\ Behind(fd[Slot(c)]) = x
                          /\ fd[Slot(c)] # None
                          /\ toServer[x] # <<>> /\ toServer[x] \in Seq(Quiet)
  <2>1. PICK x \in Clients : /\ x = Slot(c) + 1 /\ Behind(fd[Slot(c)]) = x /\ fd[Slot(c)] # None
                            /\ toServer[x] # <<>> /\ toServer[x] \in Seq(Quiet)
    BY <1>1, <1>5, ReadsWords DEF Steady
  <2>2. x - 1 = Slot(c) /\ x # None
    BY <1>1, <2>1 DEF Slots, Clients, None
  <2> QED  BY <2>1, <2>2
<1>7. Taken(fd[Slot(c)], 4) = Take(toServer[x], 4)
  BY <1>6 DEF Taken
<1>8. 4 \in Nat \ {0}
  OBVIOUS
<1>9. Take(toServer[x], 4) \in Seq(Quiet) /\ Take(toServer[x], 4) # <<>>
  BY <1>6, <1>8, TakeDrop
<1>10. PICK words \in Seq(Wire) : /\ words = Padded(Take(toServer[x], 4), 4)
                                 /\ words # <<>> /\ Head(words) # On
  BY <1>8, <1>9, PaddedWords
<1>11. ASSUME OwnThread(x), ~Overtaken(x) PROVE words = Take(toServer[x], 4)
  <2>1. c = x
    BY <1>1, <1>6, <1>11 DEF OwnThread, Started
  <2>2. client[x] # "new"
    BY <1>1, <2>1 DEF Steady, Ordered, ThreadsCounted
  <2>3. toServer[x] = Sent(x)
    BY <1>1, <1>11, <2>1, <2>2 DEF HandshakeKept, Steady, Kept
  <2>4. Len(toServer[x]) \in Nat /\ Len(toServer[x]) >= 4
    BY <1>6, <2>3, SentWords DEF Steady
  <2>5. Len(Take(toServer[x], 4)) = IF 4 < Len(toServer[x]) THEN 4 ELSE Len(toServer[x])
    BY <1>6, <1>8, TakeLength
  <2>6. Len(Take(toServer[x], 4)) = 4
    <3>1. \A m \in Nat : m >= 4 => (IF 4 < m THEN 4 ELSE m) = 4
      OBVIOUS
    <3> QED  BY <2>4, <2>5, <3>1, Zenon
  <2> QED  BY <1>8, <1>9, <1>10, <2>6, PaddedFull
<1>12. \A z \in Clients : z - 1 = Slot(c) /\ OwnThread(z) /\ ~Overtaken(z) =>
         words = Take(toServer[z], 4)
  <2>1. \A z \in Clients : z - 1 = Slot(c) => z = x
    BY <1>6 DEF Clients
  <2> QED  BY <1>11, <2>1
<1>13. Send(buddy[Slot(c)], words)
  BY <1>5, <1>7, <1>10
<1> QED  BY <1>1, <1>3, <1>4, <1>5, <1>8, <1>10, <1>12, <1>13, PassedKept

LEMMA PassTextKept ==
  ASSUME Steady, NEW c \in Clients, PassText(c)
  PROVE  Kept'
<1> USE ChatAssumption
<1>1. Slot(c) \in Slots /\ buddy[Slot(c)] # None /\ thread[c].at = "chat" /\ Receiver(c) # NULL
  BY DEF Steady, Ordered, TypeOK, Calm, ThreadsPaired, Slot, PassText, At
<1>2. Receiver(c) = buddy[Slot(c)] - 1 /\ fd[Receiver(c)] = buddy[Slot(c)]
  <2>1. Receiver(c) = buddy[Slot(c)] - 1
    BY <1>1 DEF Steady, Kept, NothingBefore
  <2> QED  BY <1>1, <2>1, CalmBuddy DEF Steady
<1>3. thread' = thread /\ Send(buddy[Slot(c)], Padded(Taken(fd[Slot(c)], 2), 2))
  BY <1>1, <1>2 DEF PassText
<1>4. UNCHANGED <<buddy, client, typed, got>>
  BY DEF PassText, slotVars, clientVars
<1>5. Readable(fd[Slot(c)]) /\ Consume(fd[Slot(c)], 2)
  BY DEF PassText
<1>6. thread'[c].receiver = buddy[Slot(c)] - 1
  BY <1>2, <1>3 DEF Receiver
<1>7. PICK x \in Clients : /\ x - 1 = Slot(c)
                          /\ Padded(Taken(fd[Slot(c)], 2), 2) = Take(toServer[x], 2)
                          /\ toServer[x] # <<>> /\ toServer[x] \in Seq(Quiet)
  <2>1. PICK x \in Clients : /\ x - 1 = Slot(c)
                            /\ Padded(Taken(fd[Slot(c)], 2), 2) = Take(toServer[x], 2)
    BY <1>1, <1>5, ReadsLong DEF Steady
  <2>2. x = Slot(c) + 1
    BY <2>1 DEF Clients
  <2> QED  BY <1>1, <1>5, <2>1, <2>2, ReadsWords DEF Steady
<1>8. 2 \in Nat \ {0}
  OBVIOUS
<1>9. Take(toServer[x], 2) \in Seq(Quiet) /\ Take(toServer[x], 2) # <<>>
  BY <1>7, <1>8, TakeDrop
<1>10. PICK words \in Seq(Wire) : /\ words = Take(toServer[x], 2)
                                 /\ words # <<>> /\ Head(words) # On
  <2>1. Head(Take(toServer[x], 2)) \in Quiet
    BY <1>9, HeadTailProperties
  <2> QED  BY <1>9, <2>1, OnTheWire
<1>11. \A z \in Clients : z - 1 = Slot(c) => words = Take(toServer[z], 2)
  <2>1. \A z \in Clients : z - 1 = Slot(c) => z = x
    BY <1>7 DEF Clients
  <2> QED  BY <1>10, <2>1
<1>12. Send(buddy[Slot(c)], words)
  BY <1>3, <1>7, <1>10
<1> QED  BY <1>1, <1>3, <1>4, <1>5, <1>6, <1>8, <1>10, <1>11, <1>12, PassedKept

\* The chat ends for nobody, as long as nobody leaves.
LEMMA ThreadKept ==
  ASSUME Steady, NobodyLeft, NEW c \in Clients, client_process(c)
  PROVE  Kept'
<1>1. ~EndOfStream(c)
  <2> SUFFICES ASSUME EndOfStream(c) PROVE FALSE
    OBVIOUS
  <2>1. Behind(fd[Slot(c)]) \in Clients /\ client[Behind(fd[Slot(c)])] = "gone"
    BY BehindClient DEF EndOfStream, Ended
  <2> QED  BY <2>1 DEF NobodyLeft
<1>2. ~Leave(c)
  BY DEF Leave, LookUp, Clear, LoadCount, StoreCount, At, Steady, Calm, ThreadsPaired, Leaving
<1>3. ~PassExit(c)
  BY NoExit DEF Steady
<1> QED  BY <1>1, <1>2, <1>3, StartKept, ReadNameKept, ConnectedKept, PassKeyKept, PassTextKept
         DEF client_process

\* What a client reads it has heard before.
LEMMA ReceiveHeard ==
  ASSUME WireTyped, NEW c \in Clients, NEW n \in Nat \ {0}, Receive(c, n)
  PROVE  /\ Heard(c) # <<>> /\ WireTyped' /\ \A d \in Clients : Heard(d)' = Heard(d)
<1>1. got[c] \in Seq(Wire) /\ toClient[c] \in Seq(Wire) /\ toClient[c] # <<>>
  BY DEF WireTyped, Receive
<1>2. PICK first \in Seq(Wire), rest \in Seq(Wire) :
        first = Take(toClient[c], n) /\ rest = Drop(toClient[c], n) /\ first \o rest = toClient[c]
  <2>1. /\ Take(toClient[c], n) \in Seq(Wire) /\ Drop(toClient[c], n) \in Seq(Wire)
        /\ Take(toClient[c], n) \o Drop(toClient[c], n) = toClient[c]
    BY <1>1, TakeDrop
  <2> QED  BY <2>1
<1>3. got' = [got EXCEPT ![c] = @ \o first] /\ toClient' = [toClient EXCEPT ![c] = rest]
  BY <1>2 DEF Receive
<1>4. got[c] \o first \in Seq(Wire)
  BY <1>1, <1>2, ConcatProperties
<1>5. WireTyped'
  BY <1>2, <1>3, <1>4 DEF WireTyped
<1>6. (got[c] \o first) \o rest = got[c] \o toClient[c]
  <2>1. \A g \in Seq(Wire) : (g \o first) \o rest = g \o (first \o rest)
    BY StreamsAssociate
  <2> QED  BY <1>1, <1>2, <2>1
<1>7. Heard(c)' = Heard(c)
  BY <1>3, <1>6 DEF Heard, WireTyped
<1>8. \A d \in Clients \ {c} : Heard(d)' = Heard(d)
  BY <1>3 DEF Heard, WireTyped
<1>9. Heard(c) # <<>>
  BY <1>1, ConcatEqualIffEmpty DEF Heard
<1> QED  BY <1>5, <1>7, <1>8, <1>9

\* A client that reads without sending, and may get from the key to the chat.
LEMMA ReadingKept ==
  ASSUME Steady, NEW c \in Clients, NEW n \in Nat \ {0}, Receive(c, n),
         UNCHANGED <<buddy, thread, typed, toServer>>,
         client' = client \/ (client[c] = "key" /\ client' = [client EXCEPT ![c] = "chat"])
  PROVE  Kept'
<1>1. WireTyped' /\ \A d \in Clients : Heard(d)' = Heard(d)
  BY ReceiveHeard DEF Steady, Kept
<1>2. \A d \in Clients : /\ client'[d] = "new" <=> client[d] = "new"
                         /\ client'[d] = "wait" <=> client[d] = "wait"
                         /\ client'[d] \in {"key", "chat"} <=> client[d] \in {"key", "chat"}
                         /\ client[d] = "chat" => client'[d] = "chat"
  <2>1. CASE client' = client
    BY <2>1
  <2>2. CASE client[c] = "key" /\ client' = [client EXCEPT ![c] = "chat"]
    BY <2>2 DEF Steady, Ordered, TypeOK
  <2> QED  BY <2>1, <2>2
<1>3. \A d \in Clients : /\ Overtaken(d)' = Overtaken(d) /\ (Waits(d)' <=> Waits(d))
                         /\ Unread(d)' = Unread(d) /\ (Told(d)' <=> Told(d))
                         /\ (OwnThread(d)' <=> OwnThread(d)) /\ (KeySent(d)' <=> KeySent(d))
  BY <1>1, <1>2 DEF Overtaken, Waits, Unread, Told, OwnThread, Started, Slot, KeySent
<1>4. \A d \in Clients : Sent(d)' = Sent(d)
  BY <1>3 DEF Sent
<1>5. HandshakeKept'
  BY <1>2, <1>3, <1>4 DEF HandshakeKept, Steady, Kept, Name, Word
<1>6. WordsMerged'
  <2> SUFFICES ASSUME NEW b \in Clients, NEW d \in Clients, Linked(b, d)'
               PROVE  Merged(d, Heard(d) \o Unread(b), Sent(b))'
    BY DEF WordsMerged
  <2>1. Linked(b, d)
    BY <1>3 DEF Linked
  <2> QED  BY <1>1, <1>3, <1>4, <2>1, MergedStays DEF Steady, Kept
<1>7. NothingBefore'
  BY <1>1, <1>2 DEF NothingBefore, Steady, Kept, Receiver, Slot
<1> QED  BY <1>1, <1>5, <1>6, <1>7 DEF Kept

\* A client that sends more: what it has sent and what is not read grow together.
LEMMA SendingKept ==
  ASSUME Steady, NEW c \in Clients, NEW more \in Seq(Wire), Heard(c) # <<>> \/ client[c] # "wait",
         client[c] \notin {"new", "gone"},
         UNCHANGED <<buddy, thread>>, WireTyped', \A d \in Clients : Heard(d)' = Heard(d),
         toServer' = [toServer EXCEPT ![c] = @ \o more],
         Sent(c)' = Sent(c) \o more, \A d \in Clients \ {c} : Sent(d)' = Sent(d),
         \A d \in Clients \ {c} : client'[d] = client[d], KeySent(c)',
         \A d \in Clients : client'[d] # "chat" => typed'[d] = 0
  PROVE  Kept'
<1>1. toServer'[c] = toServer[c] \o more /\ \A d \in Clients \ {c} : toServer'[d] = toServer[d]
  BY DEF Steady, Ordered, TypeOK
<1>2. \A d \in Clients : /\ Overtaken(d)' = Overtaken(d) /\ (Told(d)' <=> Told(d))
                         /\ (OwnThread(d)' <=> OwnThread(d))
  BY DEF Overtaken, Told, OwnThread, Started, Slot
<1>3. \A d \in Clients \ {c} : /\ Unread(d)' = Unread(d) /\ (Waits(d)' <=> Waits(d))
                               /\ (KeySent(d)' <=> KeySent(d))
  BY <1>1 DEF Unread, Waits, KeySent
<1>4. ~Waits(c)
  BY DEF Waits
<1>5. OwnThread(c) /\ ~Overtaken(c) => thread[c].at \notin {"none", "start", "name", "idle"}
  BY <1>4 DEF HandshakeKept, Steady, Kept
<1>6. HandshakeKept'
  <2> SUFFICES ASSUME NEW d \in Clients, client'[d] # "new", OwnThread(d), ~Overtaken(d)
               PROVE  /\ thread[d].at \in {"none", "start", "name"} =>
                           Waits(d)' /\ toServer'[d] = Name(d)
                      /\ thread[d].at = "idle" => Waits(d)' /\ toServer'[d] = <<>>
                      /\ thread[d].at = "key" => toServer'[d] = Sent(d)'
                      /\ thread[d].at = "chat" => KeySent(d)'
    BY <1>2 DEF HandshakeKept, Name, Word
  <2>1. CASE d = c
    <3>1. thread[c].at = "key" => toServer[c] = Sent(c)
      BY <2>1 DEF HandshakeKept, Steady, Kept
    <3>2. thread[c].at = "key" => toServer'[c] = Sent(c)'
      BY <1>1, <3>1
    <3> QED  BY <1>5, <2>1, <3>2 DEF KeySent
  <2>2. CASE d # c
    BY <1>1, <1>3, <2>2 DEF HandshakeKept, Steady, Kept
  <2> QED  BY <2>1, <2>2
<1>7. WordsMerged'
  <2> SUFFICES ASSUME NEW b \in Clients, NEW d \in Clients, Linked(b, d)'
               PROVE  Merged(d, Heard(d) \o Unread(b), Sent(b))'
    BY DEF WordsMerged
  <2>1. Linked(b, d)
    BY <1>2 DEF Linked
  <2>2. CASE b = c
    <3>1. Unread(b) = toServer[b] /\ Unread(b)' = toServer[b] \o more
      BY <1>1, <1>5, <2>1, <2>2 DEF Unread, Linked
    <3>2. Merged(d, Heard(d) \o Unread(b), Sent(b))
      BY <2>1 DEF WordsMerged, Steady, Kept
    <3>3. Merged(d, (Heard(d) \o Unread(b)) \o more, Sent(b) \o more)
      BY <3>2, MergedGrows
    <3>4. (Heard(d) \o Unread(b)) \o more = Heard(d) \o Unread(b)'
      <4>1. Heard(d) \in Seq(Wire) /\ toServer[b] \in Seq(Wire)
        BY Streams DEF Steady, Kept
      <4>2. (Heard(d) \o toServer[b]) \o more = Heard(d) \o (toServer[b] \o more)
        BY <4>1, StreamsAssociate
      <4> QED  BY <3>1, <4>2
    <3>5. (Heard(d) \o Unread(b))' = (Heard(d) \o Unread(b)) \o more /\ Sent(b)' = Sent(b) \o more
      BY <2>2, <3>4
    <3> QED  BY <1>2, <3>3, <3>5 DEF Merged
  <2>3. CASE b # c
    BY <1>2, <1>3, <2>1, <2>3, MergedStays DEF Steady, Kept
  <2> QED  BY <2>2, <2>3
<1>8. NothingBefore'
  BY DEF NothingBefore, Steady, Kept, Receiver, Slot
<1> QED  BY <1>6, <1>7, <1>8 DEF Kept

\* The letters that a client has typed are one text behind the other.
LEMMA TypedMore ==
  ASSUME NEW c \in Clients, NEW n \in Nat
  PROVE  [w \in 1 .. 2 * (n + 1) |-> Word(c, "text", w)] =
           [w \in 1 .. 2 * n |-> Word(c, "text", w)] \o Text(c, n + 1)
<1> DEFINE letters(k) == [w \in 1 .. k |-> Word(c, "text", w)]
<1>1. \A k \in Nat : letters(k) \in Seq(Words) /\ Len(letters(k)) = k
  <2> SUFFICES ASSUME NEW k \in Nat PROVE letters(k) \in Seq(Words) /\ Len(letters(k)) = k
    OBVIOUS
  <2>1. \A w \in 1 .. k : Word(c, "text", w) \in Words
    BY DEF Word, Words
  <2>2. letters(k) \in [1 .. k -> Words]
    BY <2>1
  <2>3. letters(k) \in Seq(Words)
    BY <2>2, SeqDef
  <2>4. DOMAIN letters(k) = 1 .. Len(letters(k)) /\ Len(letters(k)) \in Nat
    <3> HIDE DEF letters
    <3> QED  BY <2>3, LenProperties
  <2>5. DOMAIN letters(k) = 1 .. k
    OBVIOUS
  <2>6. \A m \in Nat : 1 .. m = 1 .. k => m = k
    OBVIOUS
  <2> HIDE DEF letters
  <2> QED  BY <2>3, <2>4, <2>5, <2>6
<1>2. PICK m \in Nat : m = 2 * n /\ m + 2 = 2 * (n + 1) /\ m + 1 = 2 * (n + 1) - 1
  OBVIOUS
<1>3. PICK text \in Seq(Words) :
        /\ text = Text(c, n + 1) /\ Len(text) = 2
        /\ text[1] = Word(c, "text", m + 1) /\ text[2] = Word(c, "text", m + 2)
  <2>1. Text(c, n + 1) \in Seq(Words)
    BY ClientWords
  <2>2. Text(c, n + 1) = <<Word(c, "text", m + 1), Word(c, "text", m + 2)>>
    BY <1>2 DEF Text
  <2> QED  BY <2>1, <2>2
<1>4. PICK old \in Seq(Words), new \in Seq(Words) :
        /\ old = letters(m) /\ Len(old) = m /\ \A w \in 1 .. m : old[w] = Word(c, "text", w)
        /\ new = letters(m + 2) /\ Len(new) = m + 2
        /\ \A w \in 1 .. m + 2 : new[w] = Word(c, "text", w)
  <2>1. \A k \in Nat : \A w \in 1 .. k : letters(k)[w] = Word(c, "text", w)
    OBVIOUS
  <2>2. m + 2 \in Nat
    OBVIOUS
  <2> HIDE DEF letters
  <2> QED  BY <1>1, <2>1, <2>2
<1>5. /\ old \o text \in Seq(Words) /\ Len(old \o text) = m + 2
      /\ \A w \in 1 .. m + 2 : (old \o text)[w] = IF w <= m THEN old[w] ELSE text[w - m]
  <2>1. Len(old) = m /\ Len(text) = 2
    BY <1>3, <1>4
  <2>2. /\ old \o text \in Seq(Words) /\ Len(old \o text) = Len(old) + Len(text)
        /\ \A w \in 1 .. Len(old) + Len(text) : (old \o text)[w] =
             IF w <= Len(old) THEN old[w] ELSE text[w - Len(old)]
    BY ConcatProperties, Zenon
  <2> QED  BY <2>1, <2>2
<1>6. ASSUME NEW w \in 1 .. m + 2
      PROVE  (old \o text)[w] = new[w]
  <2>1. CASE w \in 1 .. m
    BY <1>4, <1>5, <2>1
  <2>2. CASE w = m + 1
    BY <1>3, <1>4, <1>5, <2>2
  <2>3. CASE w = m + 2
    BY <1>3, <1>4, <1>5, <2>3
  <2>4. w \in 1 .. m \/ w = m + 1 \/ w = m + 2
    OBVIOUS
  <2> QED  BY <2>1, <2>2, <2>3, <2>4
<1>7. new = old \o text
  BY <1>4, <1>5, <1>6, SeqEqual
<1> QED  BY <1>2, <1>3, <1>4, <1>7

\* The key is the first that a client sends after its name.
LEMMA SendKeyKept ==
  ASSUME Steady, NEW c \in Clients, SendKey(c)
  PROVE  Kept'
<1>1. client[c] = "wait" /\ Receive(c, 1) /\ client' = [client EXCEPT ![c] = "key"]
      /\ toServer' = [toServer EXCEPT ![c] = @ \o Key(c)]
      /\ UNCHANGED <<buddy, thread, typed>>
  BY DEF SendKey, slotVars
<1>2. Heard(c) # <<>> /\ WireTyped' /\ \A d \in Clients : Heard(d)' = Heard(d)
  BY <1>1, ReceiveHeard DEF Steady, Kept
<1>3. Key(c) \in Seq(Wire)
  BY ClientWords, OnTheWire
<1>4. client'[c] = "key" /\ \A d \in Clients \ {c} : client'[d] = client[d]
  BY <1>1 DEF Steady, Ordered, TypeOK
<1>5. typed[c] = 0 /\ \A d \in Clients : client'[d] # "chat" => typed'[d] = 0
  BY <1>1, <1>4 DEF Steady, Kept, NothingBefore
<1>6. Sent(c) = <<>> /\ Sent(c)' = Key(c)
  <2>1. [w \in 1 .. 2 * typed'[c] |-> Word(c, "text", w)] = <<>>
    BY <1>1, <1>5
  <2>2. Key(c) \o <<>> = Key(c)
    BY <1>3, ConcatEmptySeq
  <2>3. Key(c)' = Key(c)
    BY DEF Key, Word
  <2>4. Sent(c)' = Key(c) \o [w \in 1 .. 2 * typed'[c] |-> Word(c, "text", w)]
    BY <1>4, <2>3 DEF Sent, KeySent, Word
  <2> QED  BY <1>1, <2>1, <2>2, <2>4 DEF Sent, KeySent
<1>7. Sent(c)' = Sent(c) \o Key(c)
  BY <1>3, <1>6, ConcatEmptySeq
<1>8. \A d \in Clients \ {c} : Sent(d)' = Sent(d)
  BY <1>1, <1>4 DEF Sent, KeySent, Key, Word
<1>9. KeySent(c)'
  BY <1>4 DEF KeySent
<1> QED  BY <1>1, <1>2, <1>3, <1>4, <1>5, <1>7, <1>8, <1>9, SendingKept

LEMMA WriteKept ==
  ASSUME Steady, NEW c \in Clients, chat_write(c)
  PROVE  Kept'
<1>1. client[c] = "chat" /\ typed' = [typed EXCEPT ![c] = @ + 1]
      /\ toServer' = [toServer EXCEPT ![c] = @ \o Text(c, typed[c] + 1)]
      /\ UNCHANGED <<buddy, thread, client, got, toClient>>
  BY DEF chat_write, slotVars
<1>2. typed[c] \in Nat /\ typed'[c] = typed[c] + 1
      /\ \A d \in Clients \ {c} : typed'[d] = typed[d]
  BY <1>1, ChatAssumption DEF Steady, Ordered, TypeOK
<1>3. Text(c, typed[c] + 1) \in Seq(Wire)
  BY <1>2, ClientWords, OnTheWire
<1>4. WireTyped' /\ \A d \in Clients : Heard(d)' = Heard(d)
  BY <1>1 DEF Steady, Kept, WireTyped, Heard
<1>5. Sent(c)' = Sent(c) \o Text(c, typed[c] + 1)
  <2> DEFINE letters(n) == [w \in 1 .. 2 * n |-> Word(c, "text", w)]
  <2>1. letters(typed[c] + 1) = letters(typed[c]) \o Text(c, typed[c] + 1)
    BY <1>2, TypedMore
  <2>2. Sent(c)' = Key(c) \o letters(typed[c] + 1) /\ Sent(c) = Key(c) \o letters(typed[c])
    BY <1>1, <1>2 DEF Sent, KeySent, Key, Word
  <2>3. letters(typed[c]) \in Seq(Wire)
    <3>1. 2 * typed[c] \in Nat
      BY <1>2
    <3>2. \A w \in 1 .. 2 * typed[c] : Word(c, "text", w) \in Wire
      BY DEF Word, Wire, Words
    <3>3. letters(typed[c]) \in [1 .. 2 * typed[c] -> Wire]
      BY <3>2
    <3> QED  BY <3>1, <3>3, SeqDef
  <2>4. Key(c) \in Seq(Wire)
    BY ClientWords, OnTheWire
  <2> HIDE DEF letters
  <2>5. (Key(c) \o letters(typed[c])) \o Text(c, typed[c] + 1)
          = Key(c) \o (letters(typed[c]) \o Text(c, typed[c] + 1))
    BY <1>3, <2>3, <2>4, StreamsAssociate
  <2> QED  BY <2>1, <2>2, <2>5
<1>6. \A d \in Clients \ {c} : Sent(d)' = Sent(d)
  BY <1>1, <1>2 DEF Sent, KeySent, Key, Word
<1>7. \A d \in Clients : client'[d] # "chat" => typed'[d] = 0
  BY <1>1, <1>2 DEF Steady, Kept, NothingBefore
<1>8. KeySent(c)'
  BY <1>1 DEF KeySent
<1> QED  BY <1>1, <1>3, <1>4, <1>5, <1>6, <1>7, <1>8, SendingKept

LEMMA ClientKept ==
  ASSUME Steady, NEW c \in Clients, Reads(c) \/ chat_write(c)
  PROVE  Kept'
<1>1. CASE SendKey(c)
  BY <1>1, SendKeyKept
<1>2. CASE ReadKey(c)
  <2>1. UNCHANGED <<buddy, thread, typed, toServer>> /\ Receive(c, 4)
        /\ client[c] = "key" /\ client' = [client EXCEPT ![c] = "chat"]
    BY <1>2 DEF ReadKey, slotVars
  <2>2. 4 \in Nat \ {0}
    OBVIOUS
  <2> QED  BY <2>1, <2>2, ReadingKept, Zenon
<1>3. CASE chat_read(c)
  <2>1. UNCHANGED <<buddy, thread, typed, toServer>> /\ Receive(c, 2) /\ client' = client
    BY <1>3 DEF chat_read, slotVars
  <2>2. 2 \in Nat \ {0}
    OBVIOUS
  <2> QED  BY <2>1, <2>2, ReadingKept
<1>4. CASE chat_write(c)
  BY <1>4, WriteKept
<1> QED  BY <1>1, <1>2, <1>3, <1>4 DEF Reads

\* The new client and the one that was alone have neither sent nor heard anything.
LEMMA AcceptKept ==
  ASSUME Steady, NEW c \in Clients, Accept(c), Ordered', Calm'
  PROVE  Kept'
<1> USE ChatAssumption
<1>1. /\ client[c] = "new" /\ client' = [client EXCEPT ![c] = "wait"]
      /\ toServer' = [toServer EXCEPT ![c] = Name(c)]
      /\ UNCHANGED <<thread, typed, got, toClient>>
  BY AcceptEffect DEF Accept
<1>2. /\ client'[c] = "wait" /\ \A d \in Clients \ {c} : client'[d] = client[d]
      /\ toServer'[c] = Name(c) /\ \A d \in Clients \ {c} : toServer'[d] = toServer[d]
  BY <1>1 DEF Steady, Ordered, TypeOK
<1>3. \A s \in Slots : buddy[s] # None => buddy'[s] = buddy[s]
  BY AcceptPairs DEF Steady
<1>4. \A d \in Clients : d - 1 \in Slots /\ (d - 1) + 1 = d /\ d # None
  BY DEF Clients, Slots, None
<1>5. thread[c].at = "none"
  BY <1>1 DEF Steady, Ordered, ThreadsCounted
<1>6. \A d \in Clients : /\ Heard(d)' = Heard(d) /\ Overtaken(d)' = Overtaken(d)
                         /\ (OwnThread(d)' <=> OwnThread(d)) /\ (Told(d)' <=> Told(d))
  BY <1>1 DEF Heard, Overtaken, OwnThread, Started, Slot, Told
<1>7. \A d \in Clients : buddy[d - 1] # None =>
        /\ d # c /\ buddy[d - 1] # c /\ buddy[d - 1] \in Clients
        /\ buddy[buddy[d - 1] - 1] = d
  BY <1>1, <1>4, CalmBuddy DEF Steady
<1>8. Heard(c) = <<>>
  BY <1>7 DEF Steady, Kept, NothingBefore
<1>9. \A d \in Clients : buddy'[d - 1] # None =>
         /\ buddy'[d - 1] \in Clients /\ client'[buddy'[d - 1]] # "new"
         /\ buddy'[buddy'[d - 1] - 1] = d
  <2> SUFFICES ASSUME NEW d \in Clients, buddy'[d - 1] # None
               PROVE  /\ buddy'[d - 1] \in Clients /\ client'[buddy'[d - 1]] # "new"
                      /\ buddy'[buddy'[d - 1] - 1] = d
    OBVIOUS
  <2>1. buddy'[d - 1] \in Clients
    BY <1>4 DEF Ordered, TypeOK
  <2>2. /\ fd'[d - 1] # None /\ open'[buddy'[d - 1]] # None
        /\ buddy'[buddy'[d - 1] - 1] = fd'[d - 1]
    BY <1>4 DEF Calm, Pairs
  <2>3. fd'[d - 1] = open'[d]
    BY <1>4 DEF Calm, OwnSlots
  <2>4. \A e \in Clients : open'[e] # None => open'[e] = e /\ client'[e] # "new"
    BY DEF Calm, OwnSlots
  <2> QED  BY <2>1, <2>2, <2>3, <2>4
<1>10. HandshakeKept'
  <2> SUFFICES ASSUME NEW d \in Clients, client'[d] # "new", OwnThread(d), ~Overtaken(d)
               PROVE  /\ thread[d].at \in {"none", "start", "name"} =>
                           Waits(d)' /\ toServer'[d] = Name(d)
                      /\ thread[d].at = "idle" => Waits(d)' /\ toServer'[d] = <<>>
                      /\ thread[d].at = "key" => toServer'[d] = Sent(d)'
                      /\ thread[d].at = "chat" => KeySent(d)'
    BY <1>1, <1>6 DEF HandshakeKept, Name, Word
  <2>1. CASE d = c
    BY <1>2, <1>5, <1>6, <1>8, <2>1 DEF Waits
  <2>2. CASE d # c
    <3>1. Sent(d)' = Sent(d)
      BY <1>1, <1>2, <2>2 DEF Sent, KeySent, Key, Word
    <3> QED  BY <1>2, <1>6, <2>2, <3>1 DEF HandshakeKept, Steady, Kept, Waits, KeySent
  <2> QED  BY <2>1, <2>2
<1>11. ASSUME NEW d \in Clients, buddy[d - 1] = None, OwnThread(d)
       PROVE  /\ thread[d].at \in {"none", "start", "name", "idle"} /\ ~Told(d)
              /\ Heard(d) = <<>> /\ ~Overtaken(d)
  <2>1. Started(d) => Slot(d) = d - 1
    BY <1>11 DEF OwnThread
  <2>2. thread[d].at \notin {"key", "chat"} /\ ~Leaving(d)
    BY <1>11, <2>1 DEF Started, Steady, Calm, ThreadsPaired
  <2>3. thread[d].at \in Points
    BY DEF Steady, Ordered, TypeOK, Points
  <2>4. Heard(d) = <<>>
    BY <1>11 DEF Steady, Kept, NothingBefore
  <2> QED  BY <2>2, <2>3, <2>4 DEF Points, Told, Overtaken, Leaving
<1>12. WordsMerged'
  <2> SUFFICES ASSUME NEW b \in Clients, NEW d \in Clients, Linked(b, d)'
               PROVE  Merged(d, Heard(d) \o Unread(b), Sent(b))'
    BY DEF WordsMerged
  <2>1. buddy'[d - 1] = b /\ OwnThread(b) /\ OwnThread(d) /\ ~Overtaken(b)
    BY <1>6 DEF Linked
  <2>2. CASE buddy[d - 1] # None
    <3>1. Linked(b, d) /\ b # c
      BY <1>3, <1>4, <1>7, <2>1, <2>2 DEF Linked
    <3>2. Unread(b)' = Unread(b) /\ Sent(b)' = Sent(b)
      BY <1>1, <1>2, <3>1 DEF Unread, Sent, KeySent, Key, Word
    <3> QED  BY <1>6, <3>1, <3>2, MergedStays DEF Steady, Kept
  <2>3. CASE buddy[d - 1] = None
    <3>1. buddy[b - 1] = None
      <4>1. SUFFICES ASSUME buddy[b - 1] # None PROVE FALSE
        OBVIOUS
      <4>2. buddy'[b - 1] = buddy[b - 1]
        BY <1>3, <1>4, <4>1
      <4>3. buddy'[b - 1] = d
        BY <1>4, <2>1, <1>9
      <4> QED  BY <1>4, <1>7, <2>3, <4>1, <4>2, <4>3
    <3>2. /\ thread[b].at \in {"none", "start", "name", "idle"} /\ Heard(d) = <<>> /\ ~Told(d)
      BY <1>11, <2>1, <2>3, <3>1
    <3>3. client'[b] # "new"
      BY <1>4, <2>1, <1>9
    <3>4. thread'[b].at \in {"none", "start", "name", "idle"} /\ OwnThread(b)' /\ ~Overtaken(b)'
      BY <1>1, <1>6, <2>1, <3>2
    <3>5. client'[b] = "wait" /\ (thread'[b].at = "idle" => toServer'[b] = <<>>)
      BY <1>10, <3>3, <3>4 DEF HandshakeKept, Waits
    <3>6. Sent(b)' = <<>> /\ Unread(b)' = <<>> /\ Heard(d)' = <<>> /\ ~Told(d)'
      BY <1>6, <3>2, <3>4, <3>5 DEF Sent, KeySent, Unread
    <3>7. <<>> \o <<>> = <<>>
      BY ConcatEmptySeq, EmptySeq
    <3> QED  BY <3>6, <3>7 DEF Merged
  <2> QED  BY <2>2, <2>3
<1>13. NothingBefore'
  <2>1. \A d \in Clients : buddy'[d - 1] = None => Heard(d)' = <<>>
    BY <1>3, <1>4, <1>6 DEF NothingBefore, Steady, Kept
  <2>2. \A d \in Clients : client'[d] # "chat" => typed'[d] = 0
    BY <1>1, <1>2 DEF NothingBefore, Steady, Kept
  <2>3. \A d \in Clients : thread[d].at = "chat" =>
          Slot(d) \in Slots /\ buddy[Slot(d)] # None /\ Receiver(d) = buddy[Slot(d)] - 1
    BY DEF NothingBefore, Steady, Kept, Calm, ThreadsPaired, Ordered, TypeOK, Slot
  <2>4. \A d \in Clients : thread'[d].at = "chat" => Receiver(d)' = buddy'[Slot(d)'] - 1
    BY <1>1, <1>3, <2>3 DEF Receiver, Slot
  <2> QED  BY <2>1, <2>2, <2>4 DEF NothingBefore
<1>14. WireTyped'
  BY <1>1 DEF Steady, Kept, WireTyped
<1> QED  BY <1>10, <1>12, <1>13, <1>14 DEF Kept

-----------------------------------------------------------------------------
(***************************************************************************)
(* The invariant and the results.                                           *)
(***************************************************************************)
IInv == Ordered /\ (NobodyLeft => Calm /\ Kept)

LEMMA InitIInv == Init => IInv
<1> SUFFICES ASSUME Init PROVE Calm /\ Kept
  BY InitOrdered DEF IInv
<1> USE ChatAssumption DEF Init
<1>1. OwnSlots
  BY DEF OwnSlots, Slots, Clients
<1>2. Pairs /\ OneAlone /\ ThreadsPaired /\ LongsWhole
  BY DEF Pairs, OneAlone, Alone, ThreadsPaired, Leaving, LongsWhole
<1>3. toServer \in [Clients -> Seq(Quiet)]
  OBVIOUS
<1>4. Calm
  BY <1>1, <1>2, <1>3 DEF Calm
<1>5. WireTyped
  BY EmptySeq DEF WireTyped
<1>6. \A c \in Clients : c - 1 \in Slots /\ c # None
  BY DEF Clients, Slots, None
<1>7. HandshakeKept /\ WordsMerged
  BY <1>6 DEF HandshakeKept, WordsMerged, Linked
<1>8. NothingBefore
  <2>1. \A c \in Clients : Heard(c) = <<>>
    BY ConcatEmptySeq, EmptySeq DEF Heard
  <2> QED  BY <2>1 DEF NothingBefore
<1> QED  BY <1>4, <1>5, <1>7, <1>8 DEF Kept

LEMMA NextIInv == IInv /\ [Next]_vars => IInv'
<1> SUFFICES ASSUME IInv, [Next]_vars PROVE IInv'
  OBVIOUS
<1>1. Ordered'
  BY NextOrdered DEF IInv
<1>2. ASSUME NobodyLeft' PROVE Calm' /\ Kept'
  <2>1. NobodyLeft /\ Ordered /\ Calm /\ Kept /\ Steady
    BY <1>2, GoneStaysGone DEF IInv, Ordered, Steady
  <2>2. CASE Count
    BY <2>1, <2>2, CountCalm, CountKept
  <2>3. ASSUME NEW c \in Clients, Accept(c)
        PROVE  Calm' /\ Kept'
    BY <1>1, <2>1, <2>3, AcceptCalm, AcceptKept
  <2>4. ASSUME NEW c \in Clients, client_process(c)
        PROVE  Calm' /\ Kept'
    BY <2>1, <2>4, ThreadCalm, ThreadKept
  <2>5. ASSUME NEW c \in Clients, Reads(c) \/ chat_write(c)
        PROVE  Calm' /\ Kept'
    BY <2>1, <2>5, ClientCalm, ClientKept
  <2>6. ASSUME NEW c \in Clients, Quit(c) \/ Vanish(c)
        PROVE  FALSE
    BY <1>2, <2>1, <2>6 DEF Quit, Vanish, Depart, NobodyLeft, Ordered, TypeOK
  <2>7. CASE UNCHANGED vars
    <3> USE <2>7 DEF vars, slotVars, clientVars
    <3>1. Calm'
      BY <2>1 DEF Calm, OwnSlots, Pairs, OneAlone, Alone, ThreadsPaired, LongsWhole, Whole,
                  Leaving, Slot, Receiver
    <3> QED  BY <2>1, <3>1, SameKept
  <2> QED  BY <2>2, <2>3, <2>4, <2>5, <2>6, <2>7 DEF Next
<1> QED  BY <1>1, <1>2 DEF IInv

LEMMA Invariance == Spec => []IInv
BY InitIInv, NextIInv, PTL DEF Spec

\* The words, merged, are those that greet.
LEMMA GreetedMerged ==
  ASSUME NEW c \in Clients, NEW stream, NEW words, Merged(c, stream, words)
  PROVE  stream \in Greeted(c, words)
<1>1. CASE ~Told(c)
  BY <1>1 DEF Merged, Greeted
<1>2. CASE Told(c)
  <2>1. PICK a \in Seq(Wire), b \in Seq(Wire) : words = a \o b /\ stream = a \o <<On>> \o b
    BY <1>2 DEF Merged
  <2>2. PICK k \in 1 .. Len(words) + 1 : InsertAt(words, k, On) = stream
    BY <2>1, SplitInserts
  <2> QED  BY <1>2, <2>2 DEF Greeted
<1> QED  BY <1>1, <1>2

LEMMA MergedKept == WordsMerged => WordsKept
BY GreetedMerged DEF WordsMerged, WordsKept, Linked

\* Whoever comes and leaves, a slot and a descriptor are found and no slot beyond
\* the accepted clients is written: connections counts the threads until one
\* leaves, and then, with the updates that main and the threads lose to each
\* other, it may count fewer or more than are left, but never more than have come.
\* As long as nobody leaves, buddies are each other's buddy, and reads give whole
\* longs.
THEOREM TableInOrder == Spec => []Inv
<1>1. IInv => Inv
  BY CalmMutual, MergedKept DEF IInv, Ordered, Calm, Kept, WireTyped, Inv, AllPaired,
                                BuddiesMutual, StreamsKept
<1> QED  BY <1>1, Invariance, PTL

\* As long as nobody leaves, no order of accepts, threads and texts kills the
\* server, not even when a thread has taken another client's slot.
THEOREM ServerStaysUp == Spec => []UpWhileNobodyLeaves
<1>1. IInv => UpWhileNobodyLeaves
  BY DEF IInv, Calm, UpWhileNobodyLeaves
<1> QED  BY <1>1, Invariance, PTL

\* As long as nobody leaves, what a client hears is what its buddy has sent, and
\* the word that it has a buddy: nothing is lost, doubled or swapped on the way
\* through the two threads, unless the buddy was overtaken by the client's key.
THEOREM NothingIsLost == Spec => []NothingLost
<1>1. IInv => NothingLost
  <2> SUFFICES ASSUME IInv, NobodyLeft, NEW c \in Clients, Chatting(c), ~Overtaken(BuddyOf(c))
               PROVE  Heard(c) \o Unread(BuddyOf(c)) \in Greeted(c, Sent(BuddyOf(c)))
    BY DEF NothingLost
  <2>1. Ordered /\ Calm /\ WordsMerged
    BY DEF IInv, Kept
  <2>2. ASSUME NEW d \in Clients, Undisturbed(d)
        PROVE  Slot(d) = d - 1 /\ OwnThread(d)
    <3>1. Slot(d) \in Slots /\ Started(d) /\ fd[Slot(d)] = open[d]
      BY <2>1, <2>2 DEF Undisturbed, OnTime, Ordered, TypeOK, Slot
    <3>2. client[d] # "new"
      BY <2>1, <3>1 DEF Started, Ordered, ThreadsCounted
    <3>3. fd[Slot(d)] = d /\ d # None
      BY <2>1, <3>1, <3>2, ChatAssumption DEF Calm, OwnSlots, Clients, None
    <3>4. Slot(d) = d - 1
      BY <2>1, <3>1, <3>3, CalmSlot DEF Slots
    <3>5. \A e \in Clients \ {d} : Started(e) => Slot(e) # Slot(d)
      BY <2>2 DEF Undisturbed
    <3> QED  BY <3>1, <3>4, <3>5 DEF OwnThread
  <2>3. Undisturbed(c) /\ BuddyOf(c) # None /\ Undisturbed(BuddyOf(c))
    BY DEF Chatting
  <2>4. PICK b \in Clients : b = BuddyOf(c) /\ open[b] = buddy[Slot(c)]
    BY <2>3, BehindClient DEF BuddyOf
  <2>5. Slot(c) = c - 1 /\ OwnThread(c) /\ OwnThread(b)
    BY <2>2, <2>3, <2>4
  <2>6. Slot(c) \in Slots /\ buddy[c - 1] # None
    BY <2>1, <2>3, <2>5, BehindClient DEF BuddyOf, Ordered, TypeOK, Slot
  <2>7. buddy[c - 1] = b
    BY <2>1, <2>4, <2>5, <2>6, CalmBuddy DEF BuddyOf
  <2>8. Merged(c, Heard(c) \o Unread(b), Sent(b))
    BY <2>1, <2>4, <2>5, <2>7 DEF WordsMerged, Linked
  <2> QED  BY <2>4, <2>8, GreetedMerged
<1> QED  BY <1>1, Invariance, PTL

OwnSlotWritten ==
  \A c \in Clients : Accept(c) /\ NobodyLeft =>
    /\ fd[current_client'] = None /\ fd'[current_client'] = open'[c]
    /\ \A s \in Slots \ {current_client'} : fd'[s] = fd[s]

\* As long as nobody leaves, Accept writes no other client's slot, though it
\* writes the descriptor twice: to the slot it has found, and to the one that
\* connections names.
THEOREM AcceptWritesItsOwnSlot == Spec => [][OwnSlotWritten]_vars
<1>1. ASSUME IInv, NEW c \in Clients, Accept(c), NobodyLeft
      PROVE  /\ fd[current_client'] = None /\ fd'[current_client'] = open'[c]
             /\ \A s \in Slots \ {current_client'} : fd'[s] = fd[s]
  <2>1. Ordered /\ Calm
    BY <1>1 DEF IInv
  <2>2. /\ FreeSlot = c - 1 /\ connections = c - 1 /\ NewFd = c
        /\ FreeSlot \in Slots /\ fd[FreeSlot] = None
    <3>1. FreeSlot \in 0 .. c - 1 /\ fd[FreeSlot] = None
      BY <1>1, <2>1, AcceptFinds DEF Ordered
    <3> QED  BY <1>1, <2>1, <3>1, AcceptFindsOwn, ChatAssumption DEF Slots, Clients
  <2>3. /\ current_client' = FreeSlot /\ open'[c] = NewFd
        /\ fd' = [[fd EXCEPT ![FreeSlot] = NewFd] EXCEPT ![FreeSlot] = NewFd]
    BY <1>1, <2>1, <2>2, AcceptEffect DEF Ordered, TypeOK, Filled
  <2>4. fd \in [Slots -> Clients \cup {None}]
    BY <2>1 DEF Ordered, TypeOK
  <2> QED  BY <2>2, <2>3, <2>4
<1>2. IInv => OwnSlotWritten
  BY <1>1 DEF OwnSlotWritten
<1> QED  BY <1>2, Invariance, PTL

==============================================================================
