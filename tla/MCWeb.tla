------------------------------- MODULE MCWeb ---------------------------------
(* Requests for the web service: one of each kind of answer. *)
EXTENDS Web

Req(method, word, whole, params) ==
  [method |-> method, resource |-> [word |-> word, whole |-> whole], params |-> params,
   host |-> NULL, blank |-> TRUE]
Par(word, value) == [name |-> [word |-> word, whole |-> TRUE], value |-> value]

MCRequests == {
  Req("GET", "watch", TRUE, <<Par("vid", 7), Par("h", 3), Par("vid", 8)>>),
  Req("GET", "fibonacci", TRUE, <<Par("n", 9)>>),
  Req("GET", "fibonacci", TRUE, <<Par("n", NULL)>>),
  Req("GET", "fibonacci", FALSE, NULL),
  Req("GET", "bananas", TRUE, NULL),
  [Req("GET", "/", TRUE, NULL) EXCEPT !.host = 5],
  Req("POST", "echo", TRUE, <<Par("name", 9)>>),
  [Req("POST", "echo", TRUE, NULL) EXCEPT !.blank = FALSE]}

\* pow2 is what it is called.
ASSUME PowersOfTwo == \A k \in 0 .. Width : pow2[k] = 2 ^ k

==============================================================================
