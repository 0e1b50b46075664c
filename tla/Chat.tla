-------------------------------- MODULE Chat ---------------------------------
(***************************************************************************)
(* The chat server and its clients (G2 - crypto chat/src/server.c and       *)
(* client.c): the accept loop that pairs the clients, a thread for each, and *)
(* the handshake before a chat.  What goes over a socket is a stream of      *)
(* words of four bytes: an int is one word, a long two, a key four.  What is *)
(* done between two calls that may block is one step, but for the clean-up   *)
(* and for connections, which main and the threads load and store unlocked.  *)
(***************************************************************************)
EXTENDS Integers, Sequences, SequencesExt

CONSTANTS
  N,           \* the number of clients that connect
  Typists,     \* bound: the clients that type
  Texts,       \* bound: the letters each of them types
  MaxQueue,    \* bound: words that wait for a client before its thread goes on
  MaxHeard,    \* bound: words a client has been sent before it is sent stale ones
  Leavers      \* bound: the clients that may leave

ASSUME ChatAssumption == N \in Nat \ {0} /\ Typists \subseteq 1 .. N /\ Texts \in Nat

Clients == 1 .. N   \* in the order in which they connect

\* As many slots and descriptors as clients: max_connections is not reached.
Slots == 0 .. N - 1
None == 0          \* descriptor 0 marks a free slot, and no buddy
NULL == -1

VARIABLES
  fd, buddy,       \* of the struct client in each slot of clients
  connections,
  loaded,          \* main's copy of it, while it is counted up
  current_client,  \* the variable whose address every thread is given
  main,            \* "accept", "create" a thread, "load" and "store" connections
  server,          \* "up", "exit", or the signal that has killed it
  open,            \* the server's descriptor of each client
  thread,          \* the thread created for each client: the slots it has found,
                   \* and its copy of connections while that is counted down
  client,          \* where each client is
  typed,           \* the letters it has typed
  got,             \* the words it has read
  toServer, toClient

slotVars == <<fd, buddy, connections, loaded, current_client>>
clientVars == <<client, typed, got>>
vars == <<slotVars, main, server, open, thread, clientVars, toServer, toClient>>

Word(c, what, part) == [of |-> c, what |-> what, part |-> part]
On == Word(None, "on", 1)                              \* i = 1, an int
NoGreeting == <<>>      \* Mutant: the client is not told.
Greeting == <<On>>
Name(c) == <<Word(c, "name", 1)>>
Key(c) == [k \in 1 .. 4 |-> Word(c, "key", k)]
Text(c, n) == <<Word(c, "text", 2 * n - 1), Word(c, "text", 2 * n)>>
ExitSignal(c) == <<Word(c, "exit", 1), Word(c, "exit", 2)>>
Stale == Word(None, "stale", 1)                        \* left in a buffer from before

Init ==
  /\ fd = [s \in Slots |-> None] /\ buddy = [s \in Slots |-> None]
  /\ connections = 0 /\ loaded = 0 /\ current_client = 0
  /\ main = "accept" /\ server = "up"
  /\ open = [c \in Clients |-> None]
  /\ thread = [c \in Clients |-> [at |-> "none", slot |-> 0, receiver |-> NULL, count |-> 0]]
  /\ client = [c \in Clients |-> "new"]
  /\ typed = [c \in Clients |-> 0] /\ got = [c \in Clients |-> <<>>]
  /\ toServer = [c \in Clients |-> <<>>] /\ toClient = [c \in Clients |-> <<>>]

-----------------------------------------------------------------------------
Least(S) == CHOOSE n \in S : \A m \in S : n <= m
Greatest(S) == CHOOSE n \in S : \A m \in S : m <= n
Drop(s, n) == SubSeq(s, n + 1, Len(s))
Take(s, n) == SubSeq(s, 1, IF n < Len(s) THEN n ELSE Len(s))

\* The client behind a descriptor; None when it is closed.
Behind(f) ==
  IF \E c \in Clients : f # None /\ open[c] = f THEN CHOOSE c \in Clients : open[c] = f
  ELSE None

\* A descriptor from which read returns: with data, at the end, or because it is
\* closed.  (From descriptor 0, the server's own input, it does not.)
Closed(f) == f # None /\ Behind(f) = None
Ended(f) == Behind(f) # None /\ client[Behind(f)] = "gone" /\ toServer[Behind(f)] = <<>>
Readable(f) == Closed(f) \/ Ended(f) \/ (Behind(f) # None /\ toServer[Behind(f)] # <<>>)

\* The words read, and what is then in a buffer of n words.
Taken(f, n) == IF Behind(f) = None THEN <<>> ELSE Take(toServer[Behind(f)], n)
Padded(words, n) == words \o [k \in 1 .. n - Len(words) |-> Stale]
Consume(f, n) ==
  toServer' = IF Behind(f) = None THEN toServer ELSE [toServer EXCEPT ![Behind(f)] = Drop(@, n)]

\* What is written to a closed descriptor is lost; to a client that is gone,
\* too, and the write may kill the server.
Send(f, words) ==
  IF Behind(f) = None THEN UNCHANGED <<toClient, server>>
  ELSE IF client[Behind(f)] = "gone"
       THEN UNCHANGED toClient /\ server' \in {"up", "sigpipe"}
       ELSE /\ toClient' = [toClient EXCEPT ![Behind(f)] = @ \o words]
            /\ UNCHANGED server

\* The bound on stale words: a full one is not sent any.
Heard(c) == got[c] \o toClient[c]
Room(f) == Behind(f) # None => Len(Heard(Behind(f))) < MaxHeard

\* Mutant: the search begins at the second slot.
FindFromOne(f) ==
  IF \A s \in Slots \ {0} : fd[s] # f THEN NULL ELSE Least({s \in Slots \ {0} : fd[s] = f})

find_client_by_fd(f) ==
  IF \A s \in Slots : fd[s] # f THEN NULL ELSE Least({s \in Slots : fd[s] = f})

-----------------------------------------------------------------------------
(***************************************************************************)
(* main: the accept loop.                                                   *)
(***************************************************************************)

Unpaired(f, b, new) == {s \in Slots : f[s] # None /\ b[s] = None} \ {new}

\* The new client becomes the buddy of all that have none, and keeps the last.
\* Then its descriptor is written to slot connections, whoever that belongs to, or
\* before the slots.
Accept(c) ==
  /\ server = "up" /\ main = "accept" /\ client[c] = "new"
  /\ \A d \in Clients : d < c => client[d] # "new"
  /\ LET connfd == Least(Clients \ {open[d] : d \in Clients})
         slot   == Least({s \in Slots : fd[s] = None})
         filled == [fd EXCEPT ![slot] = connfd]
         found  == Unpaired(filled, [buddy EXCEPT ![slot] = None], slot)
     IN  /\ current_client' = slot
         /\ open' = [open EXCEPT ![c] = connfd]
         /\ buddy' = [s \in Slots |->
              IF s \in found THEN connfd
              ELSE IF s # slot THEN buddy[s]
              ELSE IF found = {} THEN None ELSE filled[Greatest(found)]]
         /\ fd' = IF connections \in Slots THEN [filled EXCEPT ![connections] = connfd] ELSE filled
  /\ client' = [client EXCEPT ![c] = "wait"]
  /\ toServer' = [toServer EXCEPT ![c] = Name(c)]
  /\ main' = "create"
  /\ UNCHANGED <<connections, loaded, server, thread, typed, got, toClient>>

Create ==
  /\ server = "up" /\ main = "create"
  /\ thread' = [thread EXCEPT
       ![CHOOSE c \in Clients : client[c] # "new" /\ thread[c].at = "none"].at = "start"]
  /\ main' = "load"
  /\ UNCHANGED <<slotVars, server, open, clientVars, toServer, toClient>>

CountedTwice == loaded + 2     \* Mutant: as its name says.
Counted == loaded + 1

Load ==
  /\ server = "up" /\ main = "load"
  /\ loaded' = connections
  /\ main' = "store"
  /\ UNCHANGED <<fd, buddy, connections, current_client, server, open, thread, clientVars,
                 toServer, toClient>>

Store ==
  /\ server = "up" /\ main = "store"
  /\ connections' = Counted /\ loaded' = 0
  /\ main' = "accept"
  /\ UNCHANGED <<fd, buddy, current_client, server, open, thread, clientVars, toServer, toClient>>

-----------------------------------------------------------------------------
(***************************************************************************)
(* client_process: the thread for client c.                                 *)
(***************************************************************************)
At(c, point) == server = "up" /\ thread[c].at = point
Slot(c) == thread[c].slot
Go(c, point) == thread' = [thread EXCEPT ![c].at = point]
Return(c, point) == thread' = [thread EXCEPT ![c].at = point, ![c].receiver = NULL]

\* The index is read through the pointer, when the thread gets to run.
Start(c) ==
  /\ At(c, "start")
  /\ thread' = [thread EXCEPT ![c].at = "name", ![c].slot = current_client]
  /\ UNCHANGED <<slotVars, main, server, open, clientVars, toServer, toClient>>

ReadName(c) ==
  /\ At(c, "name") /\ Readable(fd[Slot(c)])
  /\ Consume(fd[Slot(c)], Len(toServer[Behind(fd[Slot(c)])]))
  /\ Go(c, "idle")
  /\ UNCHANGED <<slotVars, main, server, open, clientVars, toClient>>

\* The thread polls its slot for a buddy, and tells its client of it.
Connected(c) ==
  /\ At(c, "idle") /\ buddy[Slot(c)] # None
  /\ Behind(fd[Slot(c)]) # None => Len(toClient[Behind(fd[Slot(c)])]) < MaxQueue
  /\ Send(fd[Slot(c)], Greeting)
  /\ Go(c, "key")
  /\ UNCHANGED <<slotVars, main, open, clientVars, toServer>>

\* The client's key, or of it what has come and else what was there, goes to the
\* buddy, and the chat begins.
PassKey(c) ==
  LET from == fd[Slot(c)]
      key  == Taken(from, 4)
  IN
  /\ At(c, "key") /\ Readable(from)
  /\ Len(key) < 4 => Room(buddy[Slot(c)])
  /\ Consume(from, 4)
  /\ Send(buddy[Slot(c)], Padded(key, 4))
  /\ thread' = [thread EXCEPT ![c].at = "chat",
                              ![c].receiver = find_client_by_fd(buddy[Slot(c)])]
  /\ UNCHANGED <<slotVars, main, open, clientVars>>

\* Mutant: the letter goes back to where it came from.
Echo(c) == Slot(c)
Receiver(c) == thread[c].receiver

\* chat: a long goes to the receiver, unless it has left; read may have failed,
\* and the long be the one from before.
PassText(c) ==
  LET from == fd[Slot(c)]
      buf  == Padded(Taken(from, 2), 2)
  IN
  /\ At(c, "chat") /\ Readable(from)
  /\ buf[2].what # "exit"
  /\ buf[2] = Stale /\ Receiver(c) # NULL => Room(fd[Receiver(c)])
  /\ Consume(from, 2)
  /\ IF Receiver(c) = NULL THEN server' = "segv" /\ UNCHANGED <<thread, toClient>>
     ELSE IF fd[Receiver(c)] = None THEN Return(c, "idle") /\ UNCHANGED <<server, toClient>>
     ELSE Send(fd[Receiver(c)], buf) /\ UNCHANGED thread
  /\ UNCHANGED <<slotVars, main, open, clientVars>>

\* chat at the end of the stream: back to the outer loop.
EndOfStream(c) ==
  /\ At(c, "chat") /\ Ended(fd[Slot(c)])
  /\ Return(c, "idle")
  /\ UNCHANGED <<slotVars, main, server, open, clientVars, toServer, toClient>>

\* chat, the exit signal, which is any negative long: the sender's descriptor is
\* closed.  One closed before ends the server.
PassExit(c) ==
  LET from == fd[Slot(c)]
      buf  == Padded(Taken(from, 2), 2)
  IN
  /\ At(c, "chat") /\ Readable(from)
  /\ buf[2].what \in {"exit", "stale"}
  /\ Consume(from, 2)
  /\ IF Closed(from) THEN server' = "exit" /\ UNCHANGED <<fd, open, thread, toClient>>
     ELSE /\ open' = [open EXCEPT ![Behind(from)] = None]
          /\ fd' = [fd EXCEPT ![Slot(c)] = None]
          /\ Return(c, "leave")
          /\ IF Receiver(c) = NULL THEN server' = "segv" /\ UNCHANGED toClient
             ELSE Send(fd'[Receiver(c)], buf)
  /\ UNCHANGED <<buddy, connections, loaded, current_client, main, clientVars>>

\* The clean-up: the buddy is looked up, which fails when it has left before; the
\* two are parted; and connections is counted down.
LookUp(c) ==
  /\ At(c, "leave")
  /\ thread' = [thread EXCEPT ![c].at = "clear",
                              ![c].receiver = find_client_by_fd(buddy[Slot(c)])]
  /\ UNCHANGED <<slotVars, main, server, open, clientVars, toServer, toClient>>

Clear(c) ==
  /\ At(c, "clear")
  /\ IF Receiver(c) = NULL THEN server' = "segv" /\ UNCHANGED <<buddy, thread>>
     ELSE /\ buddy' = [buddy EXCEPT ![Receiver(c)] = None, ![Slot(c)] = None]
          /\ Return(c, "load")
          /\ UNCHANGED server
  /\ UNCHANGED <<fd, connections, loaded, current_client, main, open, clientVars, toServer,
                 toClient>>

LoadCount(c) ==
  /\ At(c, "load")
  /\ thread' = [thread EXCEPT ![c].at = "store", ![c].count = connections]
  /\ UNCHANGED <<slotVars, main, server, open, clientVars, toServer, toClient>>

StoreCount(c) ==
  /\ At(c, "store")
  /\ connections' = thread[c].count - 1
  /\ thread' = [thread EXCEPT ![c].at = "done", ![c].count = 0]
  /\ UNCHANGED <<fd, buddy, loaded, current_client, main, server, open, clientVars, toServer,
                 toClient>>

Leave(c) == LookUp(c) \/ Clear(c) \/ LoadCount(c) \/ StoreCount(c)

-----------------------------------------------------------------------------
(***************************************************************************)
(* The client.                                                              *)
(***************************************************************************)
\* read takes what is there, up to n words.
Receive(c, n) ==
  /\ toClient[c] # <<>>
  /\ got' = [got EXCEPT ![c] = @ \o Take(toClient[c], n)]
  /\ toClient' = [toClient EXCEPT ![c] = Drop(@, n)]

\* connected is read, and the public key sent.
SendKey(c) ==
  /\ client[c] = "wait" /\ Receive(c, 1)
  /\ client' = [client EXCEPT ![c] = "key"]
  /\ toServer' = [toServer EXCEPT ![c] = @ \o Key(c)]
  /\ UNCHANGED <<slotVars, main, server, open, thread, typed>>

ReadKey(c) ==
  /\ client[c] = "key" /\ Receive(c, 4)
  /\ client' = [client EXCEPT ![c] = "chat"]
  /\ UNCHANGED <<slotVars, main, server, open, thread, typed, toServer>>

chat_write(c) ==
  /\ c \in Typists /\ client[c] = "chat" /\ typed[c] < Texts
  /\ typed' = [typed EXCEPT ![c] = @ + 1]
  /\ toServer' = [toServer EXCEPT ![c] = @ \o Text(c, typed[c] + 1)]
  /\ UNCHANGED <<slotVars, main, server, open, thread, client, got, toClient>>

\* What a client that is gone has read, or has not, is forgotten.
Depart(c) ==
  /\ c \in Leavers
  /\ client' = [client EXCEPT ![c] = "gone"] /\ typed' = [typed EXCEPT ![c] = 0]
  /\ got' = [got EXCEPT ![c] = <<>>] /\ toClient' = [toClient EXCEPT ![c] = <<>>]
  /\ UNCHANGED <<slotVars, main, server, open, thread>>

Quit(c) ==
  /\ client[c] = "chat"
  /\ Depart(c)
  /\ toServer' = [toServer EXCEPT ![c] = @ \o ExitSignal(c)]

\* A client that goes without ".quit" sends nothing more.
Vanish(c) ==
  /\ client[c] \notin {"new", "gone"}
  /\ Depart(c)
  /\ UNCHANGED toServer

chat_read(c) ==
  /\ client[c] = "chat" /\ Receive(c, 2)
  /\ UNCHANGED <<slotVars, main, server, open, thread, client, typed, toServer>>

-----------------------------------------------------------------------------
client_process(c) ==
  \/ Start(c) \/ ReadName(c) \/ Connected(c) \/ PassKey(c) \/ PassText(c)
  \/ EndOfStream(c) \/ PassExit(c) \/ Leave(c)

Reads(c) == SendKey(c) \/ ReadKey(c) \/ chat_read(c)

Count == Create \/ Load \/ Store

Next ==
  \/ Count
  \/ \E c \in Clients :
       Accept(c) \/ client_process(c) \/ Reads(c) \/ chat_write(c) \/ Quit(c) \/ Vanish(c)

\* The server's threads are scheduled and the clients read; nobody has to come,
\* to type or to leave.
Fairness ==
  /\ WF_vars(Count)
  /\ \A c \in Clients : WF_vars(client_process(c)) /\ WF_vars(Reads(c))

Spec == Init /\ [][Next]_vars
FairSpec == Spec /\ Fairness

-----------------------------------------------------------------------------
\* The words a client may send, and those it sends while it stays.
Words == [of : Clients, what : {"name", "key", "text", "exit"}, part : Nat]
Quiet == [of : Clients, what : {"name", "key", "text"}, part : Nat]

TypeOK ==
  /\ fd \in [Slots -> Clients \cup {None}] /\ buddy \in [Slots -> Clients \cup {None}]
  /\ connections \in Int /\ loaded \in Int /\ current_client \in Slots
  /\ main \in {"accept", "create", "load", "store"}
  /\ server \in {"up", "exit", "segv", "sigpipe"}
  /\ open \in [Clients -> Clients \cup {None}]
  /\ thread \in [Clients ->
       [at : {"none", "start", "name", "idle", "key", "chat", "leave", "clear", "load", "store", "done"},
        slot : Slots, receiver : Slots \cup {NULL}, count : Int]]
  /\ client \in [Clients -> {"new", "wait", "key", "chat", "gone"}]
  /\ typed \in [Clients -> 0 .. Texts] /\ toServer \in [Clients -> Seq(Words)]

NobodyLeft == \A c \in Clients : client[c] # "gone"
Started(c) == thread[c].at \notin {"none", "start"}

\* A thread that runs has found its own client behind the pointer.
OnTime(c) == Started(c) /\ fd[Slot(c)] = open[c]

\* As long as nobody leaves, buddies are each other's buddy.
BuddiesMutual ==
  NobodyLeft => \A s \in Slots : buddy[s] # None =>
    \E t \in Slots \ {s} : fd[t] = buddy[s] /\ buddy[t] = fd[s]

\* Clients are accepted in their order, and of the slots and descriptors, only
\* as many are used as clients have been accepted.
UsedFromLowest ==
  /\ \A c, d \in Clients : d < c /\ client[c] # "new" => client[d] # "new"
  /\ \A s \in Slots : fd[s] # None => client[s + 1] # "new"
  /\ \A c \in Clients : open[c] # None => client[open[c]] # "new"

\* A client's thread is created after it is accepted, and before the next is;
\* connections is the number of the threads created, until one of them leaves.
Running == {c \in Clients : thread[c].at \notin {"none", "done"}}
Awaited == {c \in Clients : client[c] # "new" /\ thread[c].at = "none"}
Leaving(c) == thread[c].at \in {"leave", "clear", "load", "store", "done"}
Uncounted == IF main \in {"load", "store"} THEN 1 ELSE 0
ThreadsCounted ==
  /\ (\A c \in Clients : ~Leaving(c)) =>
       connections + Uncounted = Cardinality(Running) /\ (main = "store" => loaded = connections)
  /\ \A c \in Clients : client[c] = "new" => thread[c].at = "none" /\ open[c] = None
  /\ IF main = "create" THEN \E c \in Clients : Awaited = {c} ELSE Awaited = {}

\* The updates of connections that are lost do not make it count more than have
\* come: as an index it is never beyond the slots.
Come(count) == count <= N /\ \A c \in Clients : c <= count => client[c] # "new"
NeverTooMany ==
  \A count \in {connections, loaded} \cup {thread[c].count : c \in Clients} :
    Come(IF main = "accept" THEN count ELSE count + 1)

\* A client is in its own slot, from the lowest, behind its own descriptor.
OwnSlots ==
  /\ \A c \in Clients : open[c] = IF client[c] = "new" THEN None ELSE c
  /\ \A s \in Slots : fd[s] = open[s + 1]

\* The buddy of a slot's client has a slot, whose buddy it is in its turn.
Pairs == \A s \in Slots : buddy[s] # None =>
  fd[s] # None /\ buddy[s] # fd[s] /\ open[buddy[s]] # None /\ buddy[buddy[s] - 1] = fd[s]

Alone(s) == fd[s] # None /\ buddy[s] = None
OneAlone == \A s, t \in Slots : Alone(s) /\ Alone(t) => s = t

\* A thread that waits for the key has a buddy to pass it to, and one that
\* passes text has found the receiver.
ThreadsPaired == \A c \in Clients :
  /\ ~Leaving(c)
  /\ thread[c].at \in {"key", "chat"} => buddy[Slot(c)] # None
  /\ thread[c].at = "chat" => Receiver(c) # NULL

\* A thread that has read a name has found a client, and what this one has sent
\* since are whole longs: no read gives half of one.
Whole(s) == \E n \in 0 .. Len(s) : Len(s) = 2 * n
LongsWhole == \A c \in Clients : thread[c].at \in {"idle", "key", "chat"} =>
  fd[Slot(c)] # None /\ Whole(toServer[Slot(c) + 1])

\* As long as nobody leaves, the table is one of pairs, and one client at most
\* is alone.
AllPaired ==
  NobodyLeft => /\ OwnSlots /\ Pairs /\ OneAlone /\ ThreadsPaired /\ LongsWhole
                /\ toServer \in [Clients -> Seq(Quiet)]

\* The buddy's key has come to a client before the word that it has a buddy.
Overtaken(c) == Heard(c) # <<>> /\ Head(Heard(c)) # On

\* What a client has sent after its name, and what of it its thread has not read.
KeySent(c) == client[c] \in {"key", "chat"}
Sent(c) ==
  IF KeySent(c) THEN Key(c) \o [w \in 1 .. 2 * typed[c] |-> Word(c, "text", w)] ELSE <<>>
Unread(c) == IF thread[c].at \in {"none", "start", "name"} THEN <<>> ELSE toServer[c]

\* The buddy's words, with the one that tells of the buddy somewhere in between
\* if the thread has written it.
Told(c) == thread[c].at \in {"key", "chat"}
Greeted(c, words) ==
  IF Told(c) THEN {InsertAt(words, k, On) : k \in 1 .. Len(words) + 1} ELSE {words}

\* Of the threads that run, its own and no other serves a client.
OwnThread(c) == \A d \in Clients : Started(d) => (Slot(d) = c - 1 <=> d = c)

\* Until its thread tells it of its buddy a client waits, and sends its key after
\* that, unless it is overtaken.
Waits(c) == client[c] = "wait" /\ Heard(c) = <<>>
HandshakeKept == \A c \in Clients : client[c] # "new" /\ OwnThread(c) /\ ~Overtaken(c) =>
  /\ thread[c].at \in {"none", "start", "name"} => Waits(c) /\ toServer[c] = Name(c)
  /\ thread[c].at = "idle" => Waits(c) /\ toServer[c] = <<>>
  /\ thread[c].at = "key" => toServer[c] = Sent(c)
  /\ thread[c].at = "chat" => KeySent(c)

\* What a client hears is what its buddy has sent and its thread has read.
WordsKept == \A b, c \in Clients :
  buddy[c - 1] = b /\ OwnThread(b) /\ OwnThread(c) /\ ~Overtaken(b) =>
    Heard(c) \o Unread(b) \in Greeted(c, Sent(b))

\* Nobody hears anything without a buddy, or types before the chat; a thread
\* that passes text has found the buddy's slot.
NothingBefore ==
  /\ \A c \in Clients : buddy[c - 1] = None => Heard(c) = <<>>
  /\ \A c \in Clients : client[c] # "chat" => typed[c] = 0
  /\ \A c \in Clients : thread[c].at = "chat" => Receiver(c) = buddy[Slot(c)] - 1

Wire == Words \cup {On, Stale}
StreamsKept ==
  NobodyLeft => /\ HandshakeKept /\ WordsKept /\ NothingBefore
                /\ got \in [Clients -> Seq(Wire)] /\ toClient \in [Clients -> Seq(Wire)]

\* The invariant of the server's table and of the streams.
Inv ==
  TypeOK /\ UsedFromLowest /\ ThreadsCounted /\ NeverTooMany /\ AllPaired /\ BuddiesMutual /\ StreamsKept

\* As long as nobody leaves, the server is not killed, in whatever slot a
\* thread has ended up.
UpWhileNobodyLeaves == NobodyLeft => server = "up"

\* Nobody else's thread serves the client of a thread on time.
Undisturbed(c) == OnTime(c) /\ \A d \in Clients \ {c} : Started(d) => Slot(d) # Slot(c)
BuddyOf(c) == Behind(buddy[Slot(c)])
Chatting(c) == Undisturbed(c) /\ BuddyOf(c) # None /\ Undisturbed(BuddyOf(c))

\* As long as nobody leaves, and no thread that is late has come to the two
\* clients, what a client has got, what waits for it and what its buddy's thread
\* has still to read is what the buddy has sent, in this order, and one word
\* that it has a buddy: nothing is lost, doubled or swapped, unless the buddy was
\* overtaken, and its key taken for a part of its name.
NothingLost ==
  NobodyLeft => \A c \in Clients : Chatting(c) => \E b \in {BuddyOf(c)} :
    ~Overtaken(b) => Heard(c) \o Unread(b) \in Greeted(c, Sent(b))

\* "Read back buddy's public key": what a client takes for it is a key,
\* as long as nobody leaves.
ReadsBuddyKey ==
  NobodyLeft => \A c \in Clients : client[c] = "chat" => \E d \in Clients : IsPrefix(Key(d), Tail(got[c]))

\* Two buddies whose threads are on time get to chat, unless somebody leaves
\* or one of them is overtaken: then both can wait for ever.
BuddiesGetToChat ==
  \A c \in Clients : Chatting(c) ~>
    \/ client[c] = "chat"
    \/ ~NobodyLeft \/ ~Chatting(c) \/ Overtaken(c) \/ Overtaken(BuddyOf(c))

==============================================================================
