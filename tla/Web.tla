-------------------------------- MODULE Web ----------------------------------
(***************************************************************************)
(* The web service (G3 - web service/web_service.c): the accept loop, which *)
(* gives every new thread the address of connfd, the threads, and what they *)
(* answer.  What is answered to a request is a set: much of it is put into  *)
(* memory that was never written.                                           *)
(***************************************************************************)
EXTENDS Integers, Sequences

CONSTANTS
  N,          \* the number of clients that connect
  Requests,   \* bound: the requests they send
  Width,      \* the bits of a long long
  NULL,       \* a pointer to nothing
  Garbage     \* what memory never written holds: any text, also none

ASSUME WebAssumption == N \in Nat \ {0} /\ Width \in Nat \ {0}

Clients == 1 .. N   \* in the order in which they connect

(***************************************************************************)
(* A request: its method; the name of the resource without slashes, NULL    *)
(* when the line ends before it, "/" for the root; params, NULL or a        *)
(* sequence of name and value; host, NULL or the value of the header;       *)
(* blank, whether a line "\r" ends the headers.  A name is a word or a      *)
(* proper prefix of one.  A value is a number, of a video or a person, too,  *)
(* and NULL for a parameter without "=".                                    *)
(***************************************************************************)
Root == [word |-> "/", whole |-> TRUE]
DefaultVideo == 0
Christian == 0

\* What may kill the server: a NULL pointer is read; the heap is written past a
\* buffer, or freed wrongly.
Segv == [signal |-> "segv"]
Abort == [signal |-> "abort"]
Crashes == {Segv, Abort}

\* A page: its text, what stands before it if anything does, whether its end is
\* cut off.
Page(text) == [before |-> NULL, text |-> text, cut |-> FALSE]

\* The response is put together behind what memory never written holds, which
\* may leave too little room.
build_response(page, status) ==
  {Abort, [front |-> Garbage, status |-> status, page |-> page]}
Respond(pages, status) ==
  (pages \cap Crashes) \cup UNION {build_response(page, status) : page \in pages \ Crashes}

\* A response that was never written, or one to nobody knows what.
Unwritten == [front |-> Garbage, status |-> Garbage, page |-> Page(Garbage)]

\* strncmp with the length of the name: every prefix will do; with one more,
\* only the word.
PrefixMatch(name, word) == name # NULL /\ name.word = word
ExactMatch(name, word) == name # NULL /\ name = [word |-> word, whole |-> TRUE]

\* The last value counts.
Value(params, word, default) ==
  LET given == {k \in DOMAIN params : PrefixMatch(params[k].name, word)}
  IN  IF given = {} THEN default
      ELSE params[CHOOSE k \in given : \A m \in given : m <= k].value

\* A token without a name, or a known name without a value, is a NULL pointer.
Faults(params, words) ==
  \E k \in DOMAIN params :
    \/ params[k].name = NULL
    \/ params[k].value = NULL /\ \E word \in words : PrefixMatch(params[k].name, word)

Given(params) == IF params = NULL THEN <<>> ELSE params

\* The page is cut at 127 characters; 116 are its own, so that with any video of
\* YouTube's, a name of 11, what comes after the name is not whole.
watch(params) ==
  IF Faults(Given(params), {"w", "h", "vid"}) THEN {Segv}
  ELSE {[Page(<<"video", Value(Given(params), "w", 960), Value(Given(params), "h", 720),
                Value(Given(params), "vid", DefaultVideo)>>) EXCEPT !.cut = TRUE]}

\* rand() % 100 is left out.
bananas == {Page(<<"bananas">>)}

\* The powers of two, as a function that proofs can unfold.
pow2[k \in Nat] == IF k = 0 THEN 1 ELSE 2 * pow2[k - 1]

\* The numbers are computed modulo 2 ^ Width.
fib[n \in Int] == IF n < 2 THEN n ELSE (fib[n - 1] + fib[n - 2]) % pow2[Width]

\* Mutant: the sign is not looked at.
NeverNegative(unsigned) == FALSE
Negative(unsigned) == unsigned >= pow2[Width - 1]

\* From the first number that is negative as a long long, all are "overflow": NULL.
Listed(n) ==
  [k \in 1 .. n + 1 |->
    IF \E j \in 0 .. k - 1 : Negative(fib[j]) THEN NULL ELSE fib[k - 1]]

\* The list is printed behind itself, and first behind what was never written,
\* which is taken to end within the buffer.
fibonacci(params) ==
  IF Faults(Given(params), {"n"}) THEN {Segv}
  ELSE {[Page(Listed(Value(Given(params), "n", 25))) EXCEPT !.before = Garbage]}

\* The name is copied, over the default, up to the length of a message that was
\* never written, which may be more than there is room for.
echo(params) ==
  IF \E k \in DOMAIN params : params[k].name = NULL THEN {Segv}
  ELSE {Page(<<"name", Christian>>)} \cup
       IF \A k \in DOMAIN params : ~PrefixMatch(params[k].name, "name") THEN {}
       ELSE {Page(<<"name", Garbage>>), Abort,
             IF Value(params, "name", NULL) = NULL THEN Segv
             ELSE Page(<<"name", Value(params, "name", NULL)>>)}

\* The host's line is copied without its end; without one the location is not
\* written.
redirect(host) == {Page(Garbage)} \cup IF host = NULL THEN {} ELSE {Page(host)}

\* A GET: the resource decides.  What is left of "/?..." does not begin where
\* malloc has put it, and is freed.
Get(request) ==
  LET name == request.resource
      given == request.params
  IN  IF name = NULL THEN {Segv}
      ELSE IF name = Root /\ given = NULL THEN Respond(redirect(request.host), 302)
      ELSE IF name = Root THEN {Abort}
      ELSE IF PrefixMatch(name, "watch") THEN Respond(watch(given), 200)
      ELSE IF ExactMatch(name, "bananas") THEN Respond(bananas, 200)
      ELSE IF ExactMatch(name, "fibonacci") THEN Respond(fibonacci(given), 200)
      ELSE build_response(Page(NULL), 404)

\* Any other method, and a POST whose headers do not end, get a response that
\* was never written.
parse_request(request) ==
  IF request.method = "GET" THEN Get(request)
  ELSE IF request.method = "POST" /\ request.blank
       THEN Respond(echo(Given(request.params)), 200)
  ELSE {Unwritten}

\* What comes of it when nothing was read, and of a request that is cut
\* anywhere and goes on with what the buffer holds.
NothingRead == {Segv, Unwritten}
PartRead == Crashes \cup {Unwritten}

-----------------------------------------------------------------------------
(***************************************************************************)
(* The server.                                                              *)
(***************************************************************************)
VARIABLES
  connfd,     \* the variable whose address every thread is given
  server,     \* "up", or the signal that has killed it
  open,       \* the server's descriptor of each client; 0: closed
  accepted,   \* the descriptor accept has returned for it
  thread,     \* the thread created for each client
  client,     \* "new", "open" or "gone"
  request,    \* what the client asks for, once it does
  sent,       \* how much of it it has sent: "nothing", "part", "whole"; "pieces"
  unread,     \* what of it waits at the server: "nothing", "part" or "whole"
  answers     \* what has been written to the client

vars == <<connfd, server, open, accepted, thread, client, request, sent, unread, answers>>
serverVars == <<connfd, server, open, accepted, thread, answers>>

Init ==
  /\ connfd = 0 /\ server = "up"
  /\ open = [c \in Clients |-> 0] /\ accepted = [c \in Clients |-> 0]
  /\ thread = [c \in Clients |-> [at |-> "none", fd |-> 0, response |-> {}]]
  /\ client = [c \in Clients |-> "new"]
  /\ request = [c \in Clients |-> NULL]
  /\ sent = [c \in Clients |-> "nothing"] /\ unread = [c \in Clients |-> "nothing"]
  /\ answers = [c \in Clients |-> <<>>]

LowestFree == CHOOSE fd \in Clients :
  /\ \A c \in Clients : open[c] # fd
  /\ \A lower \in 1 .. fd - 1 : \E c \in Clients : open[c] = lower

Behind(fd) == {c \in Clients : fd # 0 /\ open[c] = fd}

Accept(c) ==
  /\ server = "up" /\ client[c] = "new"
  /\ \A d \in Clients : d < c => client[d] # "new"
  /\ connfd' = LowestFree
  /\ open' = [open EXCEPT ![c] = connfd'] /\ accepted' = [accepted EXCEPT ![c] = connfd']
  /\ client' = [client EXCEPT ![c] = "open"]
  /\ thread' = [thread EXCEPT ![c].at = "start"]
  /\ UNCHANGED <<server, request, sent, unread, answers>>

At(c, point) == server = "up" /\ thread[c].at = point

\* The descriptor is read through the pointer, when the thread gets to run.
Start(c) ==
  /\ At(c, "start")
  /\ thread' = [thread EXCEPT ![c].at = "read", ![c].fd = connfd]
  /\ UNCHANGED <<connfd, server, open, accepted, client, request, sent, unread, answers>>

\* Mutant: read does not wait for the client.
AlwaysAtEnd(fd) == TRUE
AtEnd(fd) == \A c \in Behind(fd) : client[c] = "gone" /\ unread[c] = "nothing"

\* read returns what has come, once, be it a part of the request; or nothing
\* when the client is gone or the descriptor closed.
Read(c) ==
  /\ At(c, "read")
  /\ \/ \E d \in Behind(thread[c].fd) :
          /\ unread[d] # "nothing"
          /\ unread' = [unread EXCEPT ![d] = "nothing"]
          /\ thread' = [thread EXCEPT ![c].at = "write",
                ![c].response = IF unread[d] = "whole" THEN parse_request(request[d]) ELSE PartRead]
     \/ /\ AtEnd(thread[c].fd)
        /\ thread' = [thread EXCEPT ![c].at = "write", ![c].response = NothingRead]
        /\ UNCHANGED unread
  /\ UNCHANGED <<connfd, server, open, accepted, client, request, sent, answers>>

\* Mutant: nothing is written.
WriteNothing(c) ==
  /\ At(c, "write")
  /\ thread' = [thread EXCEPT ![c].at = "close", ![c].response = {}]
  /\ UNCHANGED <<connfd, server, open, accepted, client, request, sent, unread, answers>>

\* The response is made and written; a write to a client that is gone may kill
\* the server.
Write(c) ==
  /\ At(c, "write")
  /\ \E response \in thread[c].response :
       IF response \in Crashes THEN server' = response.signal /\ UNCHANGED answers
       ELSE IF \E d \in Behind(thread[c].fd) : client[d] = "gone"
            THEN server' \in {"up", "sigpipe"} /\ UNCHANGED answers
       ELSE /\ answers' = [d \in Clients |->
                 IF d \in Behind(thread[c].fd) THEN Append(answers[d], response) ELSE answers[d]]
            /\ UNCHANGED server
  /\ thread' = [thread EXCEPT ![c].at = "close", ![c].response = {}]
  /\ UNCHANGED <<connfd, open, accepted, client, request, sent, unread>>

\* Mutant: the descriptor is not closed.
CloseNothing(c) ==
  /\ At(c, "close")
  /\ thread' = [thread EXCEPT ![c].at = "done"]
  /\ UNCHANGED <<connfd, server, open, accepted, client, request, sent, unread, answers>>

Close(c) ==
  /\ At(c, "close")
  /\ open' = [d \in Clients |-> IF d \in Behind(thread[c].fd) THEN 0 ELSE open[d]]
  /\ thread' = [thread EXCEPT ![c].at = "done"]
  /\ UNCHANGED <<connfd, server, accepted, client, request, sent, unread, answers>>

\* A client sends its request at once, or a part of it and then the rest.
Send(c) ==
  /\ client[c] = "open" /\ sent[c] = "nothing"
  /\ \E r \in Requests : request' = [request EXCEPT ![c] = r]
  /\ \E much \in {"part", "whole"} :
       sent' = [sent EXCEPT ![c] = much] /\ unread' = [unread EXCEPT ![c] = much]
  /\ UNCHANGED serverVars /\ UNCHANGED client

SendRest(c) ==
  /\ client[c] = "open" /\ sent[c] = "part"
  /\ sent' = [sent EXCEPT ![c] = "pieces"]
  /\ unread' = [unread EXCEPT ![c] = IF @ = "part" THEN "whole" ELSE "part"]
  /\ UNCHANGED serverVars /\ UNCHANGED <<client, request>>

\* It may leave at any time, and need not have sent anything.
Leave(c) ==
  /\ client[c] = "open"
  /\ client' = [client EXCEPT ![c] = "gone"]
  /\ UNCHANGED serverVars /\ UNCHANGED <<request, sent, unread>>

serve(c) == Start(c) \/ Read(c) \/ Write(c) \/ Close(c)

Next == \E c \in Clients : Accept(c) \/ serve(c) \/ Send(c) \/ SendRest(c) \/ Leave(c)

Spec == Init /\ [][Next]_vars

\* The threads are scheduled; nobody has to come, to send or to leave.
FairSpec == Spec /\ \A c \in Clients : WF_vars(serve(c))

-----------------------------------------------------------------------------
TypeOK ==
  /\ connfd \in 0 .. N /\ server \in {"up", "segv", "abort", "sigpipe"}
  /\ open \in [Clients -> 0 .. N] /\ accepted \in [Clients -> 0 .. N]
  /\ \A c \in Clients :
       /\ thread[c].at \in {"none", "start", "read", "write", "close", "done"}
       /\ thread[c].fd \in 0 .. N
  /\ client \in [Clients -> {"new", "open", "gone"}]
  /\ request \in [Clients -> Requests \cup {NULL}]
  /\ sent \in [Clients -> {"nothing", "part", "pieces", "whole"}]
  /\ unread \in [Clients -> {"nothing", "part", "whole"}]
  /\ \A c \in Clients :
       IF sent[c] = "nothing" THEN unread[c] = "nothing" ELSE request[c] \in Requests

\* Every thread that runs has read connfd before the next accept.
OnTime == \A c \in Clients :
  thread[c].at \notin {"none", "start"} => thread[c].fd = accepted[c]

\* What README.txt promises for a request to a service with good parameters.
trueFib[n \in Nat] == IF n < 2 THEN n ELSE trueFib[n - 1] + trueFib[n - 2]
Promised(r) ==
  LET given(word, default) == Value(Given(r.params), word, default)
      n == given("n", 25)
  IN  CASE r.resource.word = "watch" -> <<"video", given("w", 960), given("h", 720),
                                          given("vid", DefaultVideo)>>
        [] r.resource.word = "fibonacci" ->
             [k \in 1 .. n + 1 |-> IF trueFib[k - 1] < pow2[Width - 1] THEN trueFib[k - 1]
                                   ELSE NULL]
        [] OTHER -> <<"bananas">>
Service(r) == r.method = "GET" /\ r.resource \notin {NULL, Root} /\ r.resource.whole

\* As long as the threads are on time, a client gets one answer; if it has sent
\* its request at once, to its own request; and the connection is closed then.
OwnAnswerOnce ==
  OnTime => \A c \in Clients :
    /\ Len(answers[c]) <= 1
    /\ answers[c] # <<>> /\ sent[c] = "whole" => answers[c][1] \in parse_request(request[c])
    /\ thread[c].at = "done" => open[c] = 0
    /\ open[c] = 0 => thread[c].at \in {"none", "done"}

\* A client has a thread when, and only when, it has been accepted.
NewUntouched == \A c \in Clients :
  /\ client[c] = "new" <=> thread[c].at = "none"
  /\ client[c] = "new" => /\ open[c] = 0 /\ accepted[c] = 0 /\ answers[c] = <<>>
                          /\ sent[c] = "nothing" /\ unread[c] = "nothing"
  /\ client[c] # "new" => accepted[c] # 0

\* An open descriptor is the one accept has returned, and of one client only.
OwnDescriptor == \A c \in Clients : open[c] # 0 =>
  /\ open[c] = accepted[c]
  /\ \A d \in Clients \ {c} : open[d] # open[c]

\* How far a client on time is served, by the point where its thread is: what it
\* has sent waits, its thread has an answer to that, it is written.
Waiting(c) == CASE sent[c] = "pieces" -> "whole" [] OTHER -> sent[c]
Served ==
  OnTime => \A c \in Clients :
    /\ thread[c].at \in {"start", "read", "write", "close"} => open[c] # 0
    /\ thread[c].at = "done" => open[c] = 0
    /\ thread[c].at \in {"start", "read"} => unread[c] = Waiting(c)
    /\ thread[c].at \in {"none", "start", "read", "write"} => answers[c] = <<>>
    /\ thread[c].at \in {"write", "close", "done"} => sent[c] # "nothing" \/ client[c] = "gone"
    /\ thread[c].at = "write" /\ sent[c] = "whole" =>
         thread[c].response \subseteq parse_request(request[c])
    /\ Len(answers[c]) <= 1
    /\ answers[c] # <<>> /\ sent[c] = "whole" => answers[c][1] \in parse_request(request[c])

\* The invariant of the threads and their descriptors.
Inv == TypeOK /\ NewUntouched /\ OwnDescriptor /\ Served /\ OwnAnswerOnce

\* Whoever has sent a request for a service at once and gets an answer with
\* status 200 finds in it what is promised, whatever memory never written has put
\* in front, and but for the end of the page of a video; the overflow of fibonacci
\* is found where it is.
AsPromised ==
  OnTime => \A c \in Clients : answers[c] # <<>> /\ sent[c] = "whole" /\ Service(request[c]) =>
    \/ answers[c][1].status # 200
    \/ answers[c][1].page.text = Promised(request[c])

\* What a client may do to have a NULL pointer read: ask for it, send a part of
\* a request only, or go without a word.
Provoked(c) ==
  \/ sent[c] = "whole" /\ Segv \in parse_request(request[c])
  \/ sent[c] \in {"part", "pieces"}
  \/ sent[c] = "nothing" /\ client[c] = "gone"

\* A NULL pointer that kills the server has been read by the thread of a client
\* that has provoked it, unless a thread has come late to its descriptor: then
\* all requests may be good.
CrashNeedsCause ==
  server = "segv" /\ OnTime =>
    \E c \in Clients : thread[c].at = "close" /\ answers[c] = <<>> /\ Provoked(c)

\* Everybody is answered who has sent something and stays, unless the server is
\* killed or a thread has come late.
Answered ==
  \A c \in Clients : (client[c] = "open" /\ sent[c] # "nothing") ~>
    (answers[c] # <<>> \/ client[c] = "gone" \/ server # "up" \/ ~OnTime)

==============================================================================
