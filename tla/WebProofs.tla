----------------------------- MODULE WebProofs -------------------------------
(***************************************************************************)
(* Proofs about the web service, for any number of clients and whatever     *)
(* they request: one's own answer, and once, on time; and no crash without  *)
(* a cause.                                                                 *)
(***************************************************************************)
EXTENDS Web, FiniteSetTheorems, WellFoundedInduction, TLAPS

\* All that a thread may answer, and the records of the threads.
Responses == NothingRead \cup PartRead \cup UNION {parse_request(r) : r \in Requests}

ThreadState ==
  [at : {"none", "start", "read", "write", "close", "done"}, fd : 0 .. N,
   response : SUBSET Responses]

Shaped ==
  /\ thread \in [Clients -> ThreadState]
  /\ answers \in [Clients -> Seq(Responses \ Crashes)]

IInv == Shaped /\ Inv /\ CrashNeedsCause

-----------------------------------------------------------------------------
(***************************************************************************)
(* accept finds a descriptor.                                               *)
(***************************************************************************)

\* A set of numbers has a least one: among the intervals from 0 to its members,
\* which are finite sets, one has no other below it.
LEMMA LeastElement ==
  ASSUME NEW S \in SUBSET Nat, S # {}
  PROVE  \E n \in S : \A m \in S : n <= m
<1> DEFINE Intervals == {0 .. n : n \in S}
<1>1. Intervals \subseteq FiniteSubsetsOf(Nat) /\ Intervals # {}
  <2> SUFFICES ASSUME NEW n \in S PROVE 0 .. n \in FiniteSubsetsOf(Nat)
    OBVIOUS
  <2>1. IsFiniteSet(0 .. n)
    BY FS_Interval
  <2> QED  BY <2>1 DEF FiniteSubsetsOf
<1>2. PICK X \in Intervals :
        \A Y \in Intervals : <<Y, X>> \notin StrictSubsetOrdering(Nat)
  <2> HIDE DEF Intervals
  <2> QED  BY <1>1, FS_StrictSubsetOrderingWellFounded, WFMin
<1>3. PICK n \in S : X = 0 .. n
  OBVIOUS
<1>4. ASSUME NEW m \in S, m < n
      PROVE  FALSE
  <2>1. n \in X /\ n \notin 0 .. m
    BY <1>3, <1>4
  <2>2. 0 .. m \subseteq X /\ X \subseteq Nat
    BY <1>3, <1>4
  <2>3. <<0 .. m, X>> \in StrictSubsetOrdering(Nat)
    BY <2>1, <2>2 DEF StrictSubsetOrdering
  <2> QED  BY <1>2, <2>3
<1> QED  BY <1>4

\* One client without a descriptor leaves one free: the others are too few.
LEMMA DescriptorLeft ==
  ASSUME TypeOK, NEW c \in Clients, open[c] = 0
  PROVE  \E fd \in Clients : \A d \in Clients : open[d] # fd
<1> USE WebAssumption
<1> DEFINE Others == Clients \ {c}
           Used == {open[d] : d \in Others}
<1>1. IsFiniteSet(Clients) /\ Cardinality(Clients) = N
  BY FS_Interval DEF Clients
<1>2. IsFiniteSet(Others) /\ Cardinality(Others) = N - 1
  BY <1>1, FS_RemoveElement
<1>3. IsFiniteSet(Used) /\ Cardinality(Used) <= N - 1
  <2> DEFINE descriptor == [d \in Others |-> open[d]]
  <2>1. descriptor \in Surjection(Others, Used)
    BY DEF Surjection
  <2> HIDE DEF Others, Used, descriptor
  <2>2. IsFiniteSet(Used) /\ Cardinality(Used) <= Cardinality(Others)
    BY <1>2, <2>1, FS_Surjection
  <2> QED  BY <1>2, <2>2
<1>4. ASSUME Clients \subseteq Used
      PROVE  FALSE
  <2> HIDE DEF Used
  <2>1. Cardinality(Clients) <= Cardinality(Used)
    BY <1>3, <1>4, FS_Subset
  <2>2. Cardinality(Used) \in Nat
    BY <1>3, FS_CardinalityType
  <2> QED  BY <1>1, <1>3, <2>1, <2>2
<1>5. PICK fd \in Clients : fd \notin Used
  BY <1>4
<1>6. \A d \in Clients : open[d] # fd
  <2> SUFFICES ASSUME NEW d \in Clients, open[d] = fd PROVE FALSE
    OBVIOUS
  <2>1. d # c
    BY DEF Clients
  <2> QED  BY <1>5, <2>1
<1> QED  BY <1>6

\* So accept returns a descriptor that nobody has.
LEMMA LowestFreeIsFree ==
  ASSUME TypeOK, NEW c \in Clients, open[c] = 0
  PROVE  LowestFree \in Clients /\ \A d \in Clients : open[d] # LowestFree
<1> DEFINE Free == {fd \in Clients : \A d \in Clients : open[d] # fd}
<1>1. Free # {} /\ Free \subseteq Nat
  BY DescriptorLeft DEF Clients
<1>2. PICK fd \in Free : \A m \in Free : fd <= m
  <2> HIDE DEF Free
  <2> QED  BY <1>1, LeastElement
<1>3. \A lower \in 1 .. fd - 1 : lower \in Clients /\ lower \notin Free
  BY <1>2, WebAssumption DEF Clients
<1>4. \A lower \in 1 .. fd - 1 : \E d \in Clients : open[d] = lower
  BY <1>3
<1> QED  BY <1>2, <1>4 DEF LowestFree

-----------------------------------------------------------------------------
(***************************************************************************)
(* Late stays late: the number a thread has read is not read again.         *)
(***************************************************************************)

\* Only Accept gives a client its descriptor and only Start takes the number,
\* so a thread that is not on time never is.
LEMMA LateStaysLate ==
  ASSUME Shaped, TypeOK, NewUntouched, [Next]_vars, OnTime'
  PROVE  OnTime
<1> SUFFICES ASSUME NEW d \in Clients, thread[d].at \notin {"none", "start"}
             PROVE  thread[d].fd = accepted[d]
  BY DEF OnTime
<1> USE DEF Shaped, TypeOK, NewUntouched
<1>0. thread'[d].at \notin {"none", "start"} => thread'[d].fd = accepted'[d]
  BY DEF OnTime
<1>1. ASSUME NEW c \in Clients, Accept(c)
      PROVE  thread[d].fd = accepted[d]
  <2>1. c # d
    BY <1>1 DEF Accept
  <2> QED  BY <1>0, <1>1, <2>1 DEF Accept
<1>2. ASSUME NEW c \in Clients, Start(c)
      PROVE  thread[d].fd = accepted[d]
  <2>1. c # d
    BY <1>2 DEF Start, At
  <2> QED  BY <1>0, <1>2, <2>1 DEF Start
<1>3. ASSUME NEW c \in Clients, Read(c) \/ Write(c) \/ Close(c)
      PROVE  thread[d].fd = accepted[d]
  <2>1. /\ thread'[d].fd = thread[d].fd
        /\ thread'[d].at \notin {"none", "start"}
        /\ accepted' = accepted
    <3>1. CASE Read(c)
      <4>1. /\ \E response :
                 thread' = [thread EXCEPT ![c].at = "write", ![c].response = response]
            /\ accepted' = accepted
        BY <3>1, Zenon DEF Read
      <4> QED  BY <4>1
    <3>2. CASE Write(c)
      <4>1. /\ thread' = [thread EXCEPT ![c].at = "close", ![c].response = {}]
            /\ accepted' = accepted
        BY <3>2 DEF Write
      <4> QED  BY <4>1
    <3>3. CASE Close(c)
      BY <3>3 DEF Close
    <3> QED  BY <1>3, <3>1, <3>2, <3>3
  <2> QED  BY <1>0, <2>1
<1>4. CASE \E c \in Clients : Send(c) \/ SendRest(c) \/ Leave(c)
  BY <1>0, <1>4 DEF Send, SendRest, Leave, serverVars
<1>5. CASE UNCHANGED vars
  BY <1>0, <1>5 DEF vars
<1> QED  BY <1>1, <1>2, <1>3, <1>4, <1>5 DEF Next, serve

-----------------------------------------------------------------------------
(***************************************************************************)
(* The invariant: initially, and by each step.                              *)
(***************************************************************************)

\* The answer that is owed follows from how far a client is served.
LEMMA ServedOnce == TypeOK /\ Served => OwnAnswerOnce
BY DEF OwnAnswerOnce, Served, TypeOK

LEMMA InitIInv == Init => IInv
<1> SUFFICES ASSUME Init PROVE IInv
  OBVIOUS
<1> USE WebAssumption DEF Init
<1>1. Shaped
  BY DEF Shaped, ThreadState
<1>2. TypeOK
  BY DEF TypeOK
<1>3. NewUntouched /\ OwnDescriptor
  BY DEF NewUntouched, OwnDescriptor
<1>4. Served
  BY DEF Served
<1>5. CrashNeedsCause
  BY DEF CrashNeedsCause
<1> QED  BY <1>1, <1>2, <1>3, <1>4, <1>5, ServedOnce DEF IInv, Inv

\* With the invariant, and on time: a thread's descriptor is its client's.
LEMMA BehindOwn ==
  ASSUME Inv, OnTime, NEW c \in Clients, thread[c].at \in {"read", "write", "close"}
  PROVE  Behind(thread[c].fd) = {c}
<1>1. open[c] # 0 /\ open[c] = accepted[c] /\ thread[c].fd = open[c]
  BY DEF Inv, Served, OwnDescriptor, OnTime
<1>2. \A d \in Clients : open[d] = open[c] => d = c
  BY <1>1 DEF Inv, OwnDescriptor
<1> QED  BY <1>1, <1>2 DEF Behind

\* Accept gives the new client, and it only, a descriptor that nobody has.
LEMMA AcceptStep ==
  ASSUME IInv, NEW c \in Clients, Accept(c)
  PROVE  Shaped' /\ TypeOK' /\ NewUntouched' /\ OwnDescriptor' /\ (OnTime => Served')
<1> USE DEF IInv, Inv, ThreadState
<1>1. /\ client[c] = "new" /\ open[c] = 0 /\ answers[c] = <<>>
      /\ thread[c].at = "none"
  BY DEF Accept, NewUntouched
<1>2. connfd' \in Clients /\ connfd' # 0 /\ \A d \in Clients : open[d] # connfd'
  BY <1>1, LowestFreeIsFree, WebAssumption DEF Accept, Clients
<1>3. /\ open' = [open EXCEPT ![c] = connfd'] /\ accepted' = [accepted EXCEPT ![c] = connfd']
      /\ client' = [client EXCEPT ![c] = "open"]
      /\ thread' = [thread EXCEPT ![c].at = "start"]
      /\ UNCHANGED <<server, request, sent, unread, answers>>
  BY DEF Accept
<1>4. Shaped'
  BY <1>3 DEF Shaped
<1>5. TypeOK'
  BY <1>2, <1>3 DEF TypeOK, Shaped, Clients
<1>6. NewUntouched'
  BY <1>1, <1>2, <1>3 DEF NewUntouched, Shaped, TypeOK
<1>7. OwnDescriptor'
  BY <1>2, <1>3 DEF OwnDescriptor, TypeOK
<1>8. ASSUME OnTime PROVE Served'
  <2>1. /\ thread'[c].at = "start" /\ open'[c] # 0 /\ answers'[c] = <<>>
        /\ sent'[c] = "nothing" /\ unread'[c] = "nothing"
    BY <1>1, <1>2, <1>3 DEF Shaped, TypeOK, NewUntouched
  <2>2. \A d \in Clients \ {c} : /\ thread'[d] = thread[d] /\ open'[d] = open[d]
                                 /\ client'[d] = client[d]
    BY <1>3 DEF Shaped, TypeOK
  <2> QED  BY <1>3, <1>8, <2>1, <2>2 DEF Served, Waiting
<1> QED  BY <1>4, <1>5, <1>6, <1>7, <1>8

\* The thread takes the number in connfd: it is on time only if it is its own.
LEMMA StartStep ==
  ASSUME IInv, NEW c \in Clients, Start(c)
  PROVE  Shaped' /\ TypeOK' /\ NewUntouched' /\ OwnDescriptor' /\ (OnTime => Served')
<1> USE DEF IInv, Inv, Start, At, ThreadState
<1>1. Shaped'
  <2>1. thread[c] \in ThreadState /\ connfd \in 0 .. N
    BY DEF Shaped, TypeOK
  <2>2. [thread[c] EXCEPT !.at = "read", !.fd = connfd] \in ThreadState
    BY <2>1
  <2> HIDE DEF ThreadState
  <2>3. thread' \in [Clients -> ThreadState]
    BY <2>2 DEF Shaped
  <2> QED  BY <2>3 DEF Shaped
<1>2. TypeOK'
  BY <1>1 DEF TypeOK, Shaped
<1>3. NewUntouched' /\ OwnDescriptor'
  BY DEF NewUntouched, OwnDescriptor, Shaped
<1>4. ASSUME OnTime PROVE Served'
  BY <1>4 DEF Served, Waiting, Shaped
<1> QED  BY <1>1, <1>2, <1>3, <1>4

\* On time, read returns what the client itself has sent, its request if it has
\* sent that at once; and nothing only if the client has sent nothing and is gone.
LEMMA ReadStep ==
  ASSUME IInv, NEW c \in Clients, Read(c)
  PROVE  Shaped' /\ TypeOK' /\ NewUntouched' /\ OwnDescriptor' /\ (OnTime => Served')
<1> USE DEF IInv, Inv, At, ThreadState
<1>1. thread[c].at = "read"
  BY DEF Read
<1>2. PICK response \in SUBSET Responses :
        thread' = [thread EXCEPT ![c].at = "write", ![c].response = response]
  <2>1. NothingRead \in SUBSET Responses /\ PartRead \in SUBSET Responses
    BY DEF Responses
  <2>2. \A d \in Clients : unread[d] # "nothing" => parse_request(request[d]) \in SUBSET Responses
    BY DEF Responses, TypeOK
  <2>3. \A d \in Clients : unread[d] # "nothing" =>
          (IF unread[d] = "whole" THEN parse_request(request[d]) ELSE PartRead) \in SUBSET Responses
    BY <2>1, <2>2
  <2>4. \A fd : Behind(fd) \subseteq Clients
    BY DEF Behind
  <2> HIDE DEF IInv
  <2> QED  BY <2>1, <2>3, <2>4 DEF Read
<1>3. UNCHANGED <<connfd, server, open, accepted, client, request, sent, answers>>
  BY DEF Read
<1>4. \A d \in Clients : unread'[d] \in {"nothing", unread[d]}
  BY DEF Read, TypeOK, Behind
<1>5. Shaped'
  BY <1>2, <1>3 DEF Shaped
<1>6. TypeOK'
  <2>1. unread' \in [Clients -> {"nothing", "part", "whole"}]
    BY DEF Read, TypeOK
  <2> QED  BY <1>3, <1>4, <1>5, <2>1 DEF TypeOK, Shaped
<1>7. NewUntouched' /\ OwnDescriptor'
  BY <1>1, <1>2, <1>3, <1>4 DEF NewUntouched, OwnDescriptor, Shaped
<1>8. ASSUME OnTime PROVE Served'
  <2>1. Behind(thread[c].fd) = {c}
    BY <1>1, <1>8, BehindOwn
  <2>2. open[c] # 0 /\ answers[c] = <<>> /\ unread[c] = Waiting(c)
    BY <1>1, <1>8 DEF Served
  <2>3. /\ thread'[c].at = "write"
        /\ \A d \in Clients \ {c} : thread'[d] = thread[d]
    BY <1>2 DEF Shaped
  <2>4. \A d \in Clients \ {c} : unread'[d] = unread[d]
    BY <2>1 DEF Read, TypeOK
  <2>5. CASE unread[c] = "nothing"
    <3>1. AtEnd(thread[c].fd)
      BY <2>1, <2>5 DEF Read
    <3>2. client[c] = "gone"
      BY <2>1, <3>1 DEF AtEnd
    <3>3. sent[c] = "nothing"
      BY <2>2, <2>5 DEF Waiting, TypeOK
    <3> QED  BY <1>3, <1>8, <2>2, <2>3, <2>4, <3>2, <3>3 DEF Served, Waiting
  <2>6. CASE unread[c] # "nothing"
    <3>1. sent[c] # "nothing"
      BY <2>6 DEF TypeOK
    <3>2. thread' = [thread EXCEPT ![c].at = "write",
            ![c].response = IF unread[c] = "whole" THEN parse_request(request[c]) ELSE PartRead]
      BY <2>1, <2>6 DEF Read, AtEnd
    <3>3. sent[c] = "whole" => thread'[c].response = parse_request(request[c])
      <4>1. sent[c] = "whole" => unread[c] = "whole"
        BY <2>2 DEF Waiting
      <4> QED  BY <3>2, <4>1 DEF Shaped
    <3> QED  BY <1>3, <1>8, <2>2, <2>3, <2>4, <3>1, <3>3 DEF Served, Waiting
  <2> QED  BY <2>5, <2>6
<1> QED  BY <1>5, <1>6, <1>7, <1>8

\* On time, the answer to the client's own request is the one it gets.
LEMMA WriteStep ==
  ASSUME IInv, NEW c \in Clients, Write(c)
  PROVE  Shaped' /\ TypeOK' /\ NewUntouched' /\ OwnDescriptor' /\ (OnTime => Served')
<1> USE DEF IInv, Inv, At, ThreadState
<1>1. thread[c].at = "write"
  BY DEF Write
<1>2. /\ thread' = [thread EXCEPT ![c].at = "close", ![c].response = {}]
      /\ UNCHANGED <<connfd, open, accepted, client, request, sent, unread>>
  BY DEF Write
<1>3. PICK response \in thread[c].response :
        /\ server' \in {server, "segv", "abort", "up", "sigpipe"}
        /\ \/ answers' = answers
           \/ /\ response \notin Crashes
              /\ answers' = [d \in Clients |->
                   IF d \in Behind(thread[c].fd) THEN Append(answers[d], response)
                   ELSE answers[d]]
  BY DEF Write, Crashes, Segv, Abort
<1>4. response \in Responses
  BY <1>3 DEF Shaped
<1>5. answers' \in [Clients -> Seq(Responses \ Crashes)]
  <2>1. CASE answers' = answers
    BY <2>1 DEF Shaped
  <2>2. CASE answers' # answers
    <3>1. \A d \in Clients : answers[d] \in Seq(Responses \ Crashes)
      BY DEF Shaped
    <3>2. \A d \in Clients : Append(answers[d], response) \in Seq(Responses \ Crashes)
      BY <1>3, <1>4, <2>2, <3>1
    <3> QED  BY <1>3, <2>2, <3>1, <3>2
  <2> QED  BY <2>1, <2>2
<1>6. Shaped'
  BY <1>2, <1>5 DEF Shaped
<1>7. TypeOK'
  BY <1>2, <1>3, <1>6 DEF TypeOK, Shaped
<1>8. NewUntouched'
  <2> SUFFICES ASSUME NEW d \in Clients
               PROVE  /\ client[d] = "new" <=> thread'[d].at = "none"
                      /\ client[d] = "new" => answers'[d] = <<>>
    BY <1>2 DEF NewUntouched
  <2>1. client[d] = "new" <=> thread'[d].at = "none"
    BY <1>1, <1>2 DEF NewUntouched, Shaped
  <2>2. ASSUME client[d] = "new" PROVE answers'[d] = <<>>
    <3>1. open[d] = 0 /\ answers[d] = <<>>
      BY <2>2 DEF NewUntouched
    <3>2. d \notin Behind(thread[c].fd)
      BY <3>1 DEF Behind
    <3> QED  BY <1>3, <3>1, <3>2
  <2> QED  BY <2>1, <2>2
<1>9. OwnDescriptor'
  BY <1>2 DEF OwnDescriptor
<1>10. ASSUME OnTime PROVE Served'
  <2>1. Behind(thread[c].fd) = {c}
    BY <1>1, <1>10, BehindOwn
  <2>2. /\ open[c] # 0 /\ answers[c] = <<>> /\ (sent[c] # "nothing" \/ client[c] = "gone")
        /\ sent[c] = "whole" => response \in parse_request(request[c])
    BY <1>1, <1>3, <1>10 DEF Served
  <2>3. /\ thread'[c].at = "close"
        /\ \A d \in Clients \ {c} : thread'[d] = thread[d] /\ answers'[d] = answers[d]
    BY <1>2, <1>3, <2>1 DEF Shaped
  <2>4. answers'[c] = <<>> \/ answers'[c] = <<response>>
    BY <1>3, <2>1, <2>2
  <2>5. /\ Len(answers'[c]) <= 1
        /\ answers'[c] # <<>> /\ sent[c] = "whole" => answers'[c][1] \in parse_request(request[c])
    <3>1. CASE answers'[c] = <<>>
      BY ONLY <3>1
    <3>2. CASE answers'[c] = <<response>>
      <4>1. Len(answers'[c]) = 1 /\ answers'[c][1] = response
        BY ONLY <3>2
      <4> QED  BY ONLY <2>2, <4>1
    <3> QED  BY <2>4, <3>1, <3>2
  <2> QED  BY <1>2, <1>10, <2>2, <2>3, <2>5 DEF Served, Waiting
<1> QED  BY <1>6, <1>7, <1>8, <1>9, <1>10

\* On time, a thread closes its own client's descriptor.
LEMMA CloseStep ==
  ASSUME IInv, NEW c \in Clients, Close(c)
  PROVE  Shaped' /\ TypeOK' /\ NewUntouched' /\ OwnDescriptor' /\ (OnTime => Served')
<1> USE DEF IInv, Inv, Close, At, ThreadState
<1>1. Shaped'
  BY DEF Shaped
<1>2. open' \in [Clients -> 0 .. N] /\ \A d \in Clients : open'[d] \in {0, open[d]}
  BY WebAssumption DEF TypeOK
<1>3. TypeOK'
  BY <1>2 DEF TypeOK, Shaped
<1>4. NewUntouched'
  BY <1>2 DEF NewUntouched, Shaped
<1>5. OwnDescriptor'
  BY <1>2 DEF OwnDescriptor
<1>6. ASSUME OnTime PROVE Served'
  <2>1. Behind(thread[c].fd) = {c}
    BY <1>6, BehindOwn
  <2>2. /\ thread'[c].at = "done" /\ open'[c] = 0
        /\ \A d \in Clients \ {c} : thread'[d] = thread[d] /\ open'[d] = open[d]
    BY <2>1 DEF Shaped
  <2>3. thread[c].at = "close"
    OBVIOUS
  <2> QED  BY <1>6, <2>2, <2>3 DEF Served, Waiting
<1> QED  BY <1>1, <1>3, <1>4, <1>5, <1>6

\* What a client sends waits for its thread; it has none that has read before.
LEMMA SendStep ==
  ASSUME IInv, NEW c \in Clients, Send(c) \/ SendRest(c)
  PROVE  Shaped' /\ TypeOK' /\ NewUntouched' /\ OwnDescriptor' /\ (OnTime => Served')
<1> USE DEF IInv, Inv
<1>1. /\ UNCHANGED <<connfd, server, open, accepted, thread, client, answers>>
      /\ client[c] = "open" /\ sent[c] \in {"nothing", "part"}
  BY DEF Send, SendRest, serverVars
<1>2. /\ sent' \in [Clients -> {"nothing", "part", "pieces", "whole"}]
      /\ unread' \in [Clients -> {"nothing", "part", "whole"}]
      /\ request' \in [Clients -> Requests \cup {NULL}] /\ request'[c] \in Requests
      /\ sent'[c] # "nothing"
  BY DEF Send, SendRest, TypeOK
<1>3. \A d \in Clients \ {c} :
        sent'[d] = sent[d] /\ unread'[d] = unread[d] /\ request'[d] = request[d]
  BY DEF Send, SendRest, TypeOK
<1>4. Shaped'
  BY <1>1 DEF Shaped
<1>5. TypeOK'
  BY <1>1, <1>2, <1>3 DEF TypeOK
<1>6. NewUntouched' /\ OwnDescriptor'
  BY <1>1, <1>3 DEF NewUntouched, OwnDescriptor
<1>7. ASSUME OnTime PROVE Served'
  <2>1. CASE Send(c)
    <3>1. thread[c].at \notin {"write", "close", "done"} /\ thread[c].at # "none"
      BY <1>1, <1>7, <2>1 DEF Served, NewUntouched, Send
    <3>2. thread[c].at \in {"start", "read"} /\ answers[c] = <<>>
      BY <1>7, <3>1 DEF Served, TypeOK
    <3>3. sent'[c] \in {"part", "whole"} /\ unread'[c] = sent'[c]
      BY <2>1 DEF Send, TypeOK
    <3> QED  BY <1>1, <1>3, <1>7, <3>2, <3>3 DEF Served, Waiting
  <2>2. CASE SendRest(c)
    <3>1. sent[c] = "part" /\ sent'[c] = "pieces" /\ (unread[c] = "part" => unread'[c] = "whole")
      BY <2>2 DEF SendRest, TypeOK
    <3> QED  BY <1>1, <1>3, <1>7, <3>1 DEF Served, Waiting
  <2> QED  BY <2>1, <2>2
<1> QED  BY <1>4, <1>5, <1>6, <1>7

\* A client that leaves is none that was new.
LEMMA LeaveStep ==
  ASSUME IInv, NEW c \in Clients, Leave(c)
  PROVE  Shaped' /\ TypeOK' /\ NewUntouched' /\ OwnDescriptor' /\ (OnTime => Served')
<1> USE DEF IInv, Inv, Leave, serverVars
<1>1. Shaped'
  BY DEF Shaped
<1>2. TypeOK'
  BY DEF TypeOK
<1>3. NewUntouched' /\ OwnDescriptor'
  BY DEF NewUntouched, OwnDescriptor, TypeOK
<1>4. OnTime => Served'
  BY DEF Served, Waiting, TypeOK
<1> QED  BY <1>1, <1>2, <1>3, <1>4

\* On time, the client whose thread reads a NULL pointer has provoked it.
LEMMA CauseStep ==
  ASSUME IInv, NEW c \in Clients, Write(c), OnTime, server' = "segv"
  PROVE  thread'[c].at = "close" /\ answers'[c] = <<>> /\ Provoked(c)'
<1> USE DEF IInv, Inv
<1>1. thread[c].at = "write" /\ server = "up"
  BY DEF Write, At
<1>2. Segv \in thread[c].response /\ answers' = answers
  BY <1>1 DEF Write, Crashes, Segv, Abort
<1>3. /\ thread' = [thread EXCEPT ![c].at = "close", ![c].response = {}]
      /\ UNCHANGED <<client, request, sent>>
  BY DEF Write
<1>4. /\ answers[c] = <<>> /\ (sent[c] # "nothing" \/ client[c] = "gone")
      /\ sent[c] = "whole" => Segv \in parse_request(request[c])
  BY <1>1, <1>2 DEF Served
<1>5. Provoked(c)'
  BY <1>3, <1>4 DEF Provoked, TypeOK
<1>6. thread'[c].at = "close"
  BY <1>3 DEF Shaped, ThreadState
<1> QED  BY <1>2, <1>4, <1>5, <1>6

\* When the server is dead its clients go on; who has provoked it, has.
LEMMA CauseStays ==
  ASSUME IInv, NEW d \in Clients, Provoked(d),
         NEW c \in Clients, Send(c) \/ SendRest(c) \/ Leave(c)
  PROVE  Provoked(d)'
<1> USE DEF IInv, Inv, TypeOK, Provoked
<1>1. CASE Send(c)
  <2>1. c # d
    BY <1>1 DEF Send
  <2> QED  BY <1>1, <2>1 DEF Send
<1>2. CASE SendRest(c)
  BY <1>2 DEF SendRest
<1>3. CASE Leave(c)
  BY <1>3 DEF Leave
<1> QED  BY <1>1, <1>2, <1>3

LEMMA NextIInv == IInv /\ [Next]_vars => IInv'
<1> SUFFICES ASSUME IInv, [Next]_vars PROVE IInv'
  OBVIOUS
<1>1. Shaped' /\ TypeOK' /\ NewUntouched' /\ OwnDescriptor' /\ (OnTime => Served')
  <2>1. CASE UNCHANGED vars
    BY <2>1 DEF vars, IInv, Inv, Shaped, TypeOK, NewUntouched, OwnDescriptor, Served, Waiting,
                OnTime
  <2> QED  BY <2>1, AcceptStep, StartStep, ReadStep, WriteStep, CloseStep, SendStep, LeaveStep
           DEF Next, serve
<1>2. OnTime' => OnTime
  BY LateStaysLate DEF IInv, Inv
<1>3. Served'
  <2>1. CASE OnTime'
    BY <1>1, <1>2, <2>1
  <2>2. CASE ~OnTime'
    BY <2>2 DEF Served
  <2> QED  BY <2>1, <2>2
<1>4. CrashNeedsCause'
  <2> SUFFICES ASSUME server' = "segv", OnTime'
               PROVE  \E d \in Clients :
                        thread'[d].at = "close" /\ answers'[d] = <<>> /\ Provoked(d)'
    BY DEF CrashNeedsCause
  <2>1. CASE \E c \in Clients : Write(c)
    BY <1>2, <2>1, CauseStep
  <2>2. CASE ~\E c \in Clients : Write(c)
    <3>1. /\ UNCHANGED <<server, thread, answers>>
          /\ \/ UNCHANGED vars
             \/ \E c \in Clients : Send(c) \/ SendRest(c) \/ Leave(c)
      BY <2>2 DEF Next, serve, vars, serverVars, Accept, Start, Read, Close, Send, SendRest, Leave,
                  At
    <3>2. PICK d \in Clients : thread[d].at = "close" /\ answers[d] = <<>> /\ Provoked(d)
      BY <1>2, <3>1 DEF IInv, CrashNeedsCause
    <3>3. Provoked(d)'
      <4>1. CASE UNCHANGED vars
        BY <3>2, <4>1 DEF vars, Provoked
      <4> QED  BY <3>1, <3>2, <4>1, CauseStays
    <3> QED  BY <3>1, <3>2, <3>3
  <2> QED  BY <2>1, <2>2
<1>5. OwnAnswerOnce'
  BY <1>1, <1>3, ServedOnce, PTL
<1> QED  BY <1>1, <1>3, <1>4, <1>5 DEF IInv, Inv

LEMMA Invariance == Spec => []IInv
BY InitIInv, NextIInv, PTL DEF Spec

-----------------------------------------------------------------------------
(***************************************************************************)
(* The numbers of fibonacci.  A recursive function is what its definition   *)
(* says only if there is such a function: it is made here of the values of  *)
(* a step that is taken again and again.                                    *)
(***************************************************************************)
\* A step taken again and again from a start has a sequence of values.
LEMMA Iteration ==
  ASSUME NEW S, NEW start \in S, NEW step \in [S -> S]
  PROVE  \E g \in [Nat -> S] : g[0] = start /\ \A n \in Nat : g[n + 1] = step[g[n]]
<1> DEFINE UpTo(g, n) == /\ g \in [0 .. n -> S] /\ g[0] = start
                         /\ \A k \in 0 .. n - 1 : g[k + 1] = step[g[k]]
           Missing == {n \in Nat : ~\E g : UpTo(g, n)}
<1>1. ASSUME Missing # {} PROVE FALSE
  <2>1. PICK n \in Missing : \A m \in Missing : n <= m
    BY <1>1, LeastElement
  <2>2. CASE n = 0
    <3>1. UpTo([k \in 0 .. 0 |-> start], 0)
      OBVIOUS
    <3> QED  BY <2>1, <2>2, <3>1
  <2>3. CASE n # 0
    <3>1. n - 1 \in Nat /\ n - 1 \notin Missing
      <4>1. n \in Nat
        OBVIOUS
      <4> HIDE DEF Missing
      <4> QED  BY <2>1, <2>3, <4>1
    <3>2. PICK g : UpTo(g, n - 1)
      BY <3>1
    <3> DEFINE h == [k \in 0 .. n |-> IF k = n THEN step[g[n - 1]] ELSE g[k]]
    <3>3. UpTo(h, n)
      <4>1. g[n - 1] \in S /\ step[g[n - 1]] \in S
        BY <3>1, <3>2
      <4>2. h \in [0 .. n -> S] /\ h[0] = start
        BY <2>3, <3>1, <3>2, <4>1
      <4>3. ASSUME NEW k \in 0 .. n - 1 PROVE h[k + 1] = step[h[k]]
        BY <2>3, <3>1, <3>2, <4>3
      <4> QED  BY <4>2, <4>3
    <3> QED  BY <2>1, <3>3
  <2> QED  BY <2>2, <2>3
<1> DEFINE first(n) == CHOOSE g : UpTo(g, n)
<1>2. ASSUME NEW n \in Nat PROVE UpTo(first(n), n)
  <2>1. \E g : UpTo(g, n)
    BY <1>1
  <2> HIDE DEF UpTo
  <2> QED  BY <2>1
<1>3. ASSUME NEW n \in Nat, NEW g, UpTo(g, n), NEW h, UpTo(h, n + 1)
      PROVE  g[n] = h[n]
  <2> DEFINE Apart == {k \in 0 .. n : g[k] # h[k]}
  <2>1. ASSUME Apart # {} PROVE FALSE
    <3>1. PICK k \in Apart : \A m \in Apart : k <= m
      <4>1. Apart \in SUBSET Nat
        OBVIOUS
      <4> HIDE DEF Apart
      <4> QED  BY <2>1, <4>1, LeastElement
    <3>2. k # 0
      BY <1>3, <3>1
    <3>3. k - 1 \in 0 .. n - 1 /\ g[k - 1] = h[k - 1]
      BY <3>1, <3>2
    <3>4. g[k - 1 + 1] = h[k - 1 + 1]
      BY <1>3, <3>3
    <3> QED  BY <3>1, <3>4
  <2> QED  BY <2>1
<1> DEFINE g == [n \in Nat |-> first(n)[n]]
<1>4. g \in [Nat -> S] /\ g[0] = start
  <2> HIDE DEF first
  <2>1. \A n \in Nat : first(n)[n] \in S
    BY <1>2
  <2> QED  BY <1>2, <2>1
<1>5. ASSUME NEW n \in Nat PROVE g[n + 1] = step[g[n]]
  <2> HIDE DEF first
  <2>1. first(n + 1)[n + 1] = step[first(n + 1)[n]]
    BY <1>2
  <2> HIDE DEF UpTo
  <2>2. UpTo(first(n), n) /\ UpTo(first(n + 1), n + 1)
    BY <1>2
  <2>3. first(n)[n] = first(n + 1)[n]
    BY <1>3, <2>2
  <2> QED  BY <2>1, <2>3
<1> QED  BY <1>4, <1>5

\* So the powers of two, and both sequences, satisfy their equations.
LEMMA PowersExist ==
  pow2 = [k \in Nat |-> IF k = 0 THEN 1 ELSE 2 * pow2[k - 1]]
<1> DEFINE Values == Nat
           start == 1
           double == [x \in Nat |-> 2 * x]
<1>1. PICK g \in [Nat -> Nat] : g[0] = 1 /\ \A n \in Nat : g[n + 1] = double[g[n]]
  <2>1. double \in [Values -> Values] /\ start \in Values
    OBVIOUS
  <2> HIDE DEF double, start, Values
  <2>2. \E g \in [Nat -> Values] : g[0] = start /\ \A n \in Nat : g[n + 1] = double[g[n]]
    BY <2>1, Iteration
  <2> QED  BY <2>2 DEF start, Values
<1>2. ASSUME NEW k \in Nat PROVE g[k] = IF k = 0 THEN 1 ELSE 2 * g[k - 1]
  <2>1. CASE k # 0
    <3>1. k - 1 \in Nat /\ (k - 1) + 1 = k
      BY <2>1
    <3>2. g[k] = double[g[k - 1]]
      BY <1>1, <3>1
    <3> QED  BY <2>1, <3>1, <3>2
  <2> QED  BY <1>1, <2>1
<1>3. g = [k \in Nat |-> IF k = 0 THEN 1 ELSE 2 * g[k - 1]]
  <2>1. g = [k \in Nat |-> g[k]]
    OBVIOUS
  <2> QED  BY <1>2, <2>1
<1> QED  BY <1>3 DEF pow2

LEMMA TrueFibExists ==
  trueFib = [n \in Nat |-> IF n < 2 THEN n ELSE trueFib[n - 1] + trueFib[n - 2]]
<1> DEFINE Pairs == Nat \X Nat
           start == <<0, 1>>
           next == [p \in Pairs |-> <<p[2], p[1] + p[2]>>]
<1>1. PICK g \in [Nat -> Pairs] : g[0] = <<0, 1>> /\ \A n \in Nat : g[n + 1] = next[g[n]]
  <2>1. next \in [Pairs -> Pairs] /\ start \in Pairs
    OBVIOUS
  <2> HIDE DEF next, Pairs, start
  <2>2. \E g \in [Nat -> Pairs] : g[0] = start /\ \A n \in Nat : g[n + 1] = next[g[n]]
    BY <2>1, Iteration
  <2> QED  BY <2>2 DEF start
<1>2. \A n \in Nat : g[n] \in Pairs /\ g[n + 1] = <<g[n][2], g[n][1] + g[n][2]>>
  BY <1>1
<1> DEFINE f == [n \in Nat |-> g[n][1]]
<1>3. ASSUME NEW n \in Nat PROVE f[n] = IF n < 2 THEN n ELSE f[n - 1] + f[n - 2]
  <2>1. CASE n = 0
    BY <1>1, <2>1
  <2>2. CASE n = 1
    <3>1. g[0 + 1] = <<1, 1>>
      BY <1>1, <1>2
    <3> QED  BY <2>2, <3>1
  <2>3. CASE n >= 2
    <3>1. n - 2 \in Nat /\ n - 1 \in Nat /\ (n - 2) + 1 = n - 1 /\ (n - 1) + 1 = n
      BY <2>3
    <3>2. g[n - 1][1] = g[n - 2][2] /\ g[n - 1][2] = g[n - 2][1] + g[n - 2][2]
      BY <1>2, <3>1
    <3>3. g[n][1] = g[n - 1][2]
      BY <1>2, <3>1
    <3>4. f[n] = f[n - 1] + f[n - 2]
      BY <1>2, <3>1, <3>2, <3>3
    <3> QED  BY <2>3, <3>4
  <2> QED  BY <2>1, <2>2, <2>3
<1>4. f = [n \in Nat |-> IF n < 2 THEN n ELSE f[n - 1] + f[n - 2]]
  BY <1>3
<1> HIDE DEF f
<1> QED  BY <1>4 DEF trueFib

LEMMA FibExists ==
  ASSUME pow2[Width] \in Nat \ {0}
  PROVE  fib = [n \in Int |-> IF n < 2 THEN n ELSE (fib[n - 1] + fib[n - 2]) % pow2[Width]]
<1> DEFINE M == pow2[Width]
           Pairs == Nat \X Nat
           start == <<0, 1>>
           next == [p \in Pairs |-> <<p[2], (p[1] + p[2]) % M>>]
<1>0. M \in Nat \ {0}
  OBVIOUS
<1> HIDE DEF M
<1>1. PICK g \in [Nat -> Pairs] : g[0] = <<0, 1>> /\ \A n \in Nat : g[n + 1] = next[g[n]]
  <2>1. next \in [Pairs -> Pairs] /\ start \in Pairs
    <3>1. \A p \in Pairs : (p[1] + p[2]) % M \in Nat
      BY <1>0
    <3> QED  BY <3>1
  <2> HIDE DEF next, Pairs, start
  <2>2. \E g \in [Nat -> Pairs] : g[0] = start /\ \A n \in Nat : g[n + 1] = next[g[n]]
    BY <2>1, Iteration
  <2> QED  BY <2>2 DEF start
<1>2. \A n \in Nat : g[n] \in Pairs /\ g[n + 1] = <<g[n][2], (g[n][1] + g[n][2]) % M>>
  BY <1>1
<1> DEFINE f == [n \in Int |-> IF n < 0 THEN n ELSE g[n][1]]
<1>3. ASSUME NEW n \in Int PROVE f[n] = IF n < 2 THEN n ELSE (f[n - 1] + f[n - 2]) % M
  <2>1. CASE n <= 0
    BY <1>1, <2>1
  <2>2. CASE n = 1
    <3>1. g[0 + 1][1] = 1
      BY <1>1, <1>2
    <3> QED  BY <2>2, <3>1
  <2>3. CASE n >= 2
    <3>1. n - 2 \in Nat /\ n - 1 \in Nat /\ (n - 2) + 1 = n - 1 /\ (n - 1) + 1 = n
      BY <2>3
    <3>2. g[n - 1][1] = g[n - 2][2] /\ g[n - 1][2] = (g[n - 2][1] + g[n - 2][2]) % M
      <4>1. g[(n - 2) + 1] = <<g[n - 2][2], (g[n - 2][1] + g[n - 2][2]) % M>>
        BY <1>2, <3>1
      <4> QED  BY <3>1, <4>1
    <3>3. g[n][1] = g[n - 1][2]
      BY <1>2, <3>1
    <3>4. f[n] = g[n][1] /\ f[n - 1] = g[n - 1][1] /\ f[n - 2] = g[n - 2][1]
      BY <2>3, <3>1
    <3>5. f[n] = (f[n - 1] + f[n - 2]) % M
      BY <3>2, <3>3, <3>4
    <3> QED  BY <2>3, <3>5
  <2> QED  BY <2>1, <2>2, <2>3
<1>4. f = [n \in Int |-> IF n < 2 THEN n ELSE (f[n - 1] + f[n - 2]) % M]
  BY <1>3
<1> HIDE DEF f
<1> QED  BY <1>4 DEF fib, M

\* The modulus is twice the first number that is negative as a long long.
LEMMA Powers ==
  /\ pow2[Width - 1] \in Nat \ {0}
  /\ pow2[Width] = 2 * pow2[Width - 1]
<1>1. \A k \in Nat : pow2[k] = IF k = 0 THEN 1 ELSE 2 * pow2[k - 1]
  BY PowersExist
<1> DEFINE Bad == {k \in Nat : pow2[k] \notin Nat \ {0}}
<1>2. ASSUME Bad # {} PROVE FALSE
  <2>1. PICK k \in Bad : \A m \in Bad : k <= m
    BY <1>2, LeastElement
  <2>2. k \in Nat
    OBVIOUS
  <2>3. k # 0
    BY <1>1
  <2>4. k - 1 \in Nat /\ k - 1 \notin Bad
    <3> HIDE DEF Bad
    <3> QED  BY <2>1, <2>2, <2>3
  <2>5. pow2[k - 1] \in Nat \ {0} /\ pow2[k] = 2 * pow2[k - 1]
    BY <1>1, <2>2, <2>3, <2>4
  <2>6. pow2[k] \in Nat \ {0}
    BY <2>5
  <2> QED  BY <2>6
<1> QED  BY <1>1, <1>2, WebAssumption

\* The sequence grows.
LEMMA FibTyped == \A n \in Nat : trueFib[n] \in Nat
<1> DEFINE Bad == {n \in Nat : trueFib[n] \notin Nat}
<1>1. \A n \in Nat : trueFib[n] = IF n < 2 THEN n ELSE trueFib[n - 1] + trueFib[n - 2]
  BY TrueFibExists
<1>2. ASSUME Bad # {} PROVE FALSE
  <2>1. PICK n \in Bad : \A m \in Bad : n <= m
    BY <1>2, LeastElement
  <2>2. n \in Nat /\ n >= 2
    BY <1>1
  <2>3. n - 1 \in Nat \ Bad /\ n - 2 \in Nat \ Bad
    <3> HIDE DEF Bad
    <3> QED  BY <2>1, <2>2
  <2>4. trueFib[n - 1] \in Nat /\ trueFib[n - 2] \in Nat
    BY <2>3
  <2> QED  BY <1>1, <2>2, <2>4
<1> QED  BY <1>2

LEMMA FibGrows ==
  ASSUME NEW k \in Nat, NEW j \in 0 .. k
  PROVE  trueFib[j] <= trueFib[k]
<1>1. \A n \in Nat : trueFib[n] <= trueFib[n + 1]
  <2> SUFFICES ASSUME NEW n \in Nat PROVE trueFib[n] <= trueFib[n + 1]
    OBVIOUS
  <2>1. \A m \in Nat : trueFib[m] = IF m < 2 THEN m ELSE trueFib[m - 1] + trueFib[m - 2]
    BY TrueFibExists
  <2>2. CASE n = 0
    BY <2>1, <2>2
  <2>3. CASE n # 0
    <3>1. trueFib[n + 1] = trueFib[n] + trueFib[n - 1] /\ n - 1 \in Nat
      BY <2>1, <2>3
    <3> QED  BY <3>1, FibTyped
  <2> QED  BY <2>2, <2>3
<1> DEFINE Bad == {n \in Nat : n >= j /\ ~(trueFib[j] <= trueFib[n])}
<1>2. ASSUME Bad # {} PROVE FALSE
  <2>1. PICK n \in Bad : \A m \in Bad : n <= m
    BY <1>2, LeastElement
  <2>2. n \in Nat /\ j \in Nat /\ n >= j /\ n # j
    BY FibTyped
  <2>3. n - 1 \in Nat /\ n - 1 >= j /\ n - 1 \notin Bad
    <3> HIDE DEF Bad
    <3> QED  BY <2>1, <2>2
  <2>4. trueFib[j] <= trueFib[n - 1] /\ trueFib[n - 1] <= trueFib[n - 1 + 1]
    BY <1>1, <2>3
  <2>5. trueFib[j] <= trueFib[n]
    BY <2>2, <2>3, <2>4, FibTyped
  <2> QED  BY <2>5
<1> QED  BY <1>2

\* Until the first number that a long long cannot hold, and at this one, the
\* program computes the sequence.
LEMMA FibAgrees ==
  ASSUME NEW n \in Nat, \A j \in Nat : j < n => trueFib[j] < pow2[Width - 1]
  PROVE  fib[n] = trueFib[n]
<1> DEFINE H == pow2[Width - 1]
           M == pow2[Width]
           Bad == {k \in Nat : k <= n /\ fib[k] # trueFib[k]}
<1>1. H \in Nat \ {0} /\ M = 2 * H /\ M \in Nat \ {0}
  BY Powers
<1> HIDE DEF H, M
<1>2. /\ \A k \in Nat : trueFib[k] = IF k < 2 THEN k ELSE trueFib[k - 1] + trueFib[k - 2]
      /\ \A k \in Nat : fib[k] = IF k < 2 THEN k ELSE (fib[k - 1] + fib[k - 2]) % M
  BY <1>1, TrueFibExists, FibExists DEF M
<1>3. ASSUME Bad # {} PROVE FALSE
  <2>1. PICK k \in Bad : \A m \in Bad : k <= m
    BY <1>3, LeastElement
  <2>2. k \in Nat /\ k <= n /\ k >= 2
    BY <1>2
  <2>3. k - 1 \in Nat /\ k - 2 \in Nat /\ k - 1 \notin Bad /\ k - 2 \notin Bad
    <3> HIDE DEF Bad
    <3> QED  BY <2>1, <2>2
  <2>4. fib[k - 1] = trueFib[k - 1] /\ fib[k - 2] = trueFib[k - 2]
    BY <2>2, <2>3
  <2>5. trueFib[k - 1] < H /\ trueFib[k - 2] < H /\ trueFib[k - 1] \in Nat /\ trueFib[k - 2] \in Nat
    BY <2>2, <2>3, FibTyped DEF H
  <2>6. (trueFib[k - 1] + trueFib[k - 2]) % M = trueFib[k - 1] + trueFib[k - 2]
    <3> DEFINE sum == trueFib[k - 1] + trueFib[k - 2]
    <3>1. sum \in Nat /\ sum < M
      BY <1>1, <2>5
    <3> HIDE DEF sum
    <3>2. sum % M = sum
      BY <1>1, <3>1
    <3> QED  BY <3>2 DEF sum
  <2>7. fib[k] = trueFib[k]
    BY <1>2, <2>2, <2>4, <2>6
  <2> QED  BY <2>7
<1> QED  BY <1>3

\* The overflow is found at the first number that is too large, and only then.
LEMMA OverflowFound ==
  ASSUME NEW k \in Nat
  PROVE  (\E j \in 0 .. k : Negative(fib[j])) <=> ~(trueFib[k] < pow2[Width - 1])
<1> DEFINE H == pow2[Width - 1]
<1>1. H \in Nat \ {0}
  BY Powers
<1>2. ASSUME trueFib[k] < H, NEW j \in 0 .. k PROVE ~Negative(fib[j]) /\ fib[j] = trueFib[j]
  <2>1. \A i \in Nat : i <= k => trueFib[i] < H
    <3> SUFFICES ASSUME NEW i \in 0 .. k PROVE trueFib[i] < H
      OBVIOUS
    <3>1. trueFib[i] <= trueFib[k] /\ trueFib[i] \in Nat /\ trueFib[k] \in Nat
      BY FibGrows, FibTyped
    <3> QED  BY <1>1, <1>2, <3>1
  <2>2. fib[j] = trueFib[j]
    BY <2>1, FibAgrees
  <2>3. trueFib[j] < H /\ trueFib[j] \in Nat
    BY <2>1, FibTyped
  <2> QED  BY <1>1, <2>2, <2>3 DEF Negative
<1>3. ASSUME ~(trueFib[k] < H) PROVE \E j \in 0 .. k : Negative(fib[j])
  <2> DEFINE Large == {j \in Nat : ~(trueFib[j] < H)}
  <2>1. PICK j \in Large : \A m \in Large : j <= m
    <3>1. k \in Large
      BY <1>3
    <3> HIDE DEF Large
    <3>2. Large \in SUBSET Nat
      BY DEF Large
    <3> QED  BY <3>1, <3>2, LeastElement
  <2>2. j \in 0 .. k
    BY <1>3, <2>1
  <2>3. \A i \in Nat : i < j => trueFib[i] < H
    BY <2>1
  <2>4. fib[j] = trueFib[j] /\ trueFib[j] \in Nat
    BY <2>2, <2>3, FibAgrees, FibTyped
  <2>5. Negative(fib[j])
    BY <1>1, <2>1, <2>4 DEF Negative
  <2> QED  BY <2>2, <2>5
<1> QED  BY <1>2, <1>3

\* What fibonacci lists is the sequence, as far as a long long holds it.
LEMMA ListedIsTrue ==
  ASSUME NEW n
  PROVE  Listed(n) = [k \in 1 .. n + 1 |-> IF trueFib[k - 1] < pow2[Width - 1] THEN trueFib[k - 1]
                                           ELSE NULL]
<1>1. ASSUME NEW k \in 1 .. n + 1
      PROVE  (IF \E j \in 0 .. k - 1 : Negative(fib[j]) THEN NULL ELSE fib[k - 1])
               = IF trueFib[k - 1] < pow2[Width - 1] THEN trueFib[k - 1] ELSE NULL
  <2>1. k - 1 \in Nat
    OBVIOUS
  <2>2. CASE trueFib[k - 1] < pow2[Width - 1]
    <3>1. ~\E j \in 0 .. k - 1 : Negative(fib[j])
      BY <2>1, <2>2, OverflowFound
    <3>2. \A j \in Nat : j < k - 1 => trueFib[j] < pow2[Width - 1]
      <4> SUFFICES ASSUME NEW j \in Nat, j < k - 1 PROVE trueFib[j] < pow2[Width - 1]
        OBVIOUS
      <4>1. trueFib[j] <= trueFib[k - 1] /\ trueFib[j] \in Nat /\ trueFib[k - 1] \in Nat
        BY <2>1, FibGrows, FibTyped
      <4> QED  BY <2>2, <4>1, Powers
    <3>3. fib[k - 1] = trueFib[k - 1]
      BY <2>1, <3>2, FibAgrees
    <3> QED  BY <2>2, <3>1, <3>3
  <2>3. CASE ~(trueFib[k - 1] < pow2[Width - 1])
    <3>1. \E j \in 0 .. k - 1 : Negative(fib[j])
      BY <2>1, <2>3, OverflowFound
    <3> QED  BY <2>3, <3>1
  <2> QED  BY <2>2, <2>3
<1> QED  BY <1>1 DEF Listed

\* A response with a status holds the page.
LEMMA Responded ==
  ASSUME NEW page, page \notin Crashes, NEW status, NEW a \in Respond({page}, status),
         a \notin Crashes
  PROVE  a.page = page
<1>1. a \in build_response(page, status)
  BY DEF Respond
<1>2. a = [front |-> Garbage, status |-> status, page |-> page]
  BY <1>1 DEF build_response, Crashes
<1> QED  BY <1>2

\* So in an answer with status 200 to a request for a service is what is promised.
LEMMA ServicePromised ==
  ASSUME NEW r, Service(r), NEW a \in parse_request(r), a \notin Crashes, a.status = 200
  PROVE  a.page.text = Promised(r)
<1>1. a \in Get(r) /\ r.resource # NULL /\ r.resource # Root /\ r.resource.whole
  BY DEF Service, parse_request
<1>2. CASE PrefixMatch(r.resource, "watch")
  <2>1. a \in Respond(watch(r.params), 200) /\ r.resource.word = "watch"
    BY <1>1, <1>2 DEF Get, PrefixMatch
  <2> DEFINE video == <<"video", Value(Given(r.params), "w", 960), Value(Given(r.params), "h", 720),
                        Value(Given(r.params), "vid", DefaultVideo)>>
             page == [Page(video) EXCEPT !.cut = TRUE]
  <2>2. watch(r.params) = {page}
    BY <2>1 DEF watch, Respond, Crashes
  <2>3. page \notin Crashes /\ page.text = video
    BY DEF Page, Crashes, Segv, Abort
  <2>4. Promised(r) = video
    BY <2>1 DEF Promised
  <2> HIDE DEF page, video
  <2> QED  BY <2>1, <2>2, <2>3, <2>4, Responded
<1>3. CASE ~PrefixMatch(r.resource, "watch") /\ ExactMatch(r.resource, "bananas")
  <2>1. a \in Respond({Page(<<"bananas">>)}, 200) /\ r.resource.word = "bananas"
    BY <1>1, <1>3 DEF Get, ExactMatch, bananas
  <2>2. Page(<<"bananas">>) \notin Crashes /\ Page(<<"bananas">>).text = <<"bananas">>
    BY DEF Page, Crashes, Segv, Abort
  <2>3. Promised(r) = <<"bananas">>
    BY <2>1 DEF Promised
  <2> QED  BY <2>1, <2>2, <2>3, Responded
<1>4. CASE /\ ~PrefixMatch(r.resource, "watch") /\ ~ExactMatch(r.resource, "bananas")
           /\ ExactMatch(r.resource, "fibonacci")
  <2>1. a \in Respond(fibonacci(r.params), 200) /\ r.resource.word = "fibonacci"
    BY <1>1, <1>4 DEF Get, ExactMatch
  <2> DEFINE n == Value(Given(r.params), "n", 25)
             held == [k \in 1 .. n + 1 |->
                        IF trueFib[k - 1] < pow2[Width - 1] THEN trueFib[k - 1] ELSE NULL]
             page == [Page(Listed(n)) EXCEPT !.before = Garbage]
  <2>2. fibonacci(r.params) = {page}
    BY <2>1 DEF fibonacci, Respond, Crashes
  <2>3. page \notin Crashes /\ page.text = Listed(n)
    BY DEF Page, Crashes, Segv, Abort
  <2>4. Promised(r) = held
    BY <2>1, SMTT(30) DEF Promised
  <2>5. Listed(n) = held
    BY ListedIsTrue
  <2> HIDE DEF page, held, n
  <2> QED  BY <2>1, <2>2, <2>3, <2>4, <2>5, Responded
<1>5. CASE /\ ~PrefixMatch(r.resource, "watch") /\ ~ExactMatch(r.resource, "bananas")
           /\ ~ExactMatch(r.resource, "fibonacci")
  <2>1. a = [front |-> Garbage, status |-> 404, page |-> Page(NULL)]
    BY <1>1, <1>5 DEF Get, build_response, Crashes
  <2> QED  BY <2>1
<1> QED  BY <1>2, <1>3, <1>4, <1>5

-----------------------------------------------------------------------------
(***************************************************************************)
(* The results.                                                             *)
(***************************************************************************)

\* The threads and their descriptors are as the runs check them; in particular,
\* a client gets at most one answer as long as the threads are on time, and that
\* to its own request if it has sent the request at once.
THEOREM OneOwnAnswer == Spec => []Inv
<1>1. IInv => Inv
  BY DEF IInv
<1> QED  BY <1>1, Invariance, PTL

\* Whoever connects, sends all of a request, a part of one or nothing, and stays or
\* goes: a NULL pointer kills the server only by the thread of a client that has
\* provoked it, or when a thread comes late to its number.  What an overrun of the
\* heap does, or a write to a client that is gone, is not spoken of.
THEOREM NoCrashWithoutCause == Spec => []CrashNeedsCause
<1>1. IInv => CrashNeedsCause
  BY DEF IInv
<1> QED  BY <1>1, Invariance, PTL

\* On time, who gets an answer with status 200 to a request for a service finds in
\* it what README.txt promises, behind what memory never written has left: the
\* parameters' last values, and of fibonacci the numbers up to the first that a
\* long long cannot hold, whatever its width.
THEOREM ServicesAsPromised == Spec => []AsPromised
<1>1. IInv => AsPromised
  <2> SUFFICES ASSUME IInv, OnTime, NEW c \in Clients, answers[c] # <<>>, sent[c] = "whole",
                      Service(request[c]), answers[c][1].status = 200
               PROVE  answers[c][1].page.text = Promised(request[c])
    BY DEF AsPromised
  <2>1. answers[c][1] \in parse_request(request[c])
    BY DEF IInv, Inv, Served
  <2>2. answers[c][1] \notin Crashes
    <3>1. answers[c] \in Seq(Responses \ Crashes)
      BY DEF IInv, Shaped
    <3> QED  BY <3>1
  <2> QED  BY <2>1, <2>2, ServicePromised
<1> QED  BY <1>1, Invariance, PTL

\* A thread that has taken another client's number never gets its own.
THEOREM NobodyCatchesUp == Spec => [][OnTime' => OnTime]_vars
<1>1. IInv /\ [Next]_vars => (OnTime' => OnTime)
  BY LateStaysLate DEF IInv, Inv
<1> QED  BY <1>1, Invariance, PTL DEF Spec

==============================================================================
