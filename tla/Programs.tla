------------------------------ MODULE Programs -------------------------------
(***************************************************************************)
(* The small programs and the libraries, one at a time: the counting        *)
(* programs, the concurrent list, the directory synchroniser, the file      *)
(* replacer and the shell's job list, as its callers use it, run by the     *)
(* steps of their own modules, which are extended, for their properties are *)
(* theorems; a call of one of the sequential algorithms is one step, from   *)
(* its arguments to its result.                                             *)
(***************************************************************************)
EXTENDS Counters, FileSync, JobListUse, Replacer, SharedList

CONSTANTS
  BUFSIZE, EINTR, EIO,      \* see Rio
  Fault,                    \* see ShellParse
  Calls                     \* bound: the calls of the algorithms

VARIABLES
  chosen,                   \* which of the programs runs
  call, result              \* a call, and <<>> or its result

Key == INSTANCE Crypt
Ana == INSTANCE Anagram
Ex == INSTANCE Exercises
IO == INSTANCE Rio
Sh == INSTANCE ShellParse

vars == <<chosen, countersVars, listVars, syncVars, replacerVars, useVars, call, result>>

\* A program that is not chosen stays in one of its simplest initial states.
Idle == [trees |-> [dirs |-> {<<>>}, files |-> <<>>],
         disk |-> [dirs |-> {<<"x">>}, files |-> <<>>],
         params |-> [mode |-> 0, fname |-> NULL]]

Init ==
  /\ chosen \in {"counters", "list", "sync", "replacer", "jobs", "call"}
  /\ CountersInit /\ (chosen # "counters" => program = "locks")
  /\ IF chosen = "list" THEN ListInit ELSE ListInitWith([t \in Workers |-> <<>>])
  /\ IF chosen = "sync" THEN SyncInit
     ELSE SyncInitWith([master |-> Idle.trees, slave |-> Idle.trees])
  /\ IF chosen = "replacer" THEN ReplacerInit
     ELSE ReplacerInitWith([disk |-> Idle.disk, params |-> Idle.params, base |-> <<"x">>])
  /\ UseInit
  /\ IF chosen = "call" THEN call \in Calls ELSE call = NULL
  /\ result = <<>>

-----------------------------------------------------------------------------
Messages(keys) == {0, 1, 2, 7, 13, 72, 122}

\* A sequence of reads through one rio_t.
Reads(rp, reads, newline) ==
  LET after[k \in 0 .. Len(reads)] ==
        IF k = 0 THEN [got |-> <<>>, fd |-> rp]
        ELSE LET read == IF reads[k].op = "line"
                         THEN IO!rio_readlineb(after[k - 1].fd, reads[k].n, newline)
                         ELSE IO!rio_readnb(after[k - 1].fd, reads[k].n)
             IN  [got |-> Append(after[k - 1].got, read), fd |-> read.fd]
  IN  after[Len(reads)].got

Result(c) ==
  CASE c.op = "keys" ->
         LET keys == Key!generate_from_primes(c.n, c.m)
         IN  [c |-> keys.public.b,
              back |-> [msg \in Messages(keys) |-> Key!ThereAndBack(keys, msg)]]
    [] c.op = "crack" ->
         LET keys == Key!generate_from_primes(c.n, c.m)
         IN  [keys |-> keys,
              found |-> Key!crack(keys.public.a, keys.public.b, keys.public.b + 1)]
    [] c.op = "replace" -> str_replace(c.orig, c.rep, c.with)
    [] c.op = "sanitize" -> sanitize(c.orig, "n", " ")
    [] c.op = "anagram" -> Ana!main(c.dict, "anagram", c.arg, c.letter, c.place)
    [] c.op = "words" -> Ana!main(c.dict, "permutations", c.arg, c.letter, c.place)
    [] c.op = "sort" -> [array |-> Ex!sort(c.data, Len(c.data)), list |-> Ex!listMain(c.data)]
    [] c.op = "array" -> Ex!Use(c.size, c.calls)
    [] c.op = "read" -> Reads(IO!Descriptor(c.bytes, c.results), c.reads, "n")
    [] c.op = "readn" -> IO!rio_readn(IO!Descriptor(c.bytes, c.results), c.n)
    [] c.op = "writen" -> IO!rio_writen(IO!Descriptor(<<>>, c.results), c.bytes)
    [] c.op = "parse" -> Sh!parseline(c.line)
    [] c.op = "redirect" -> Sh!checkForRedirects(c.argv, c.side, c.isPiped)

Return == result = <<>> /\ result' = <<Result(call)>> /\ UNCHANGED call

Next ==
  /\ UNCHANGED chosen
  /\ \/ /\ chosen = "counters" /\ CountersNext
        /\ UNCHANGED <<listVars, syncVars, replacerVars, useVars, call, result>>
     \/ /\ chosen = "list" /\ ListNext
        /\ UNCHANGED <<countersVars, syncVars, replacerVars, useVars, call, result>>
     \/ /\ chosen = "sync" /\ SyncNext
        /\ UNCHANGED <<countersVars, listVars, replacerVars, useVars, call, result>>
     \/ /\ chosen = "replacer" /\ ReplacerNext
        /\ UNCHANGED <<countersVars, listVars, syncVars, useVars, call, result>>
     \/ /\ chosen = "jobs" /\ UseNext
        /\ UNCHANGED <<countersVars, listVars, syncVars, replacerVars, call, result>>
     \/ /\ chosen = "call" /\ Return
        /\ UNCHANGED <<countersVars, listVars, syncVars, replacerVars, useVars>>

Spec == Init /\ [][Next]_vars

-----------------------------------------------------------------------------
TypeOK ==
  /\ CountersTypeOK /\ ListTypeOK /\ SyncTypeOK /\ ReplacerTypeOK /\ UseTypeOK
  /\ Len(result) <= 1

\* The results of a call of op.
Returned(op) == chosen = "call" /\ call.op = op /\ result # <<>>

\* generate_from_primes: with two different primes the private key undoes the
\* public one, modulo c, whatever the message; a prime that does not exist makes
\* c zero, and then every use of the keys is the division by zero README.txt
\* says there is not.
KeysInvert ==
  Returned("keys") =>
    /\ call.n > 0 /\ call.m > 0 /\ call.n # call.m =>
         \A msg \in DOMAIN result[1].back : result[1].back[msg] = msg % result[1].c
    /\ call.n <= 0 \/ call.m <= 0 =>
         \A msg \in DOMAIN result[1].back : result[1].back[msg] = Key!FPE

\* keygen's search ends, no later than at the private key or a multiple of the
\* public one's order away, and what it finds deciphers 13 and its powers; that
\* is all, although the program calls the key valid for any text.
CrackedKeyFits ==
  Returned("crack") /\ result[1].keys.public.b > 13 =>
    /\ result[1].found # 0
    /\ \A power \in 1 .. 4 :
         LET c == result[1].keys.public.b
             msg == Key!modulo(13, power, c)
             cipher == Key!endecrypt(msg, result[1].keys.public.a, c)
         IN  Key!endecrypt(cipher, result[1].found, c) = msg

\* str_replace writes exactly what it has allocated; when one character is
\* replaced, every one of them is, and nothing else; sanitize leaves a word.
ReplacedInRoom ==
  /\ Returned("replace") /\ result[1] # NULL /\ strstr(call.orig, call.rep, 1) # 0 =>
       /\ Len(result[1]) = Room(call.orig, call.rep, call.with)
       /\ Len(call.rep) = 1 => result[1] = FlattenSeq(
            [k \in DOMAIN call.orig |->
               IF call.orig[k] = call.rep[1] THEN call.with ELSE <<call.orig[k]>>])
  /\ Returned("sanitize") =>
       result[1] = SelectSeq(call.orig, LAMBDA c : c \notin {"n", " "})

\* main prints the anagrams, all of them and no other.
AnagramsExact ==
  Returned("anagram") =>
    ToSet(result[1]) =
      IF ~Ana!Valid(call.letter) THEN {}
      ELSE Ana!AnagramsOf(call.dict, call.arg, call.letter, Ana!InRange(call.arg, call.place))

\* In the other mode each word it prints is made of letters of the argument, no
\* letter used twice; none is left out, except those with a sum of letters that
\* the search for words does not go up to.
WordsExact ==
  Returned("words") =>
    \A size \in DOMAIN result[1] : \A printed \in result[1][size] :
      ToSet(printed) \subseteq Ana!WordsIn(call.dict, call.arg, size - 1)
        /\ (call.letter = Ana!Nul =>
              ToSet(printed) = {w \in Ana!WordsIn(call.dict, call.arg, size - 1) :
                                  Ana!hash(w) < Ana!WORD_SIZE})

\* Both selection sorts return the elements they were given, in order.
Sorted ==
  Returned("sort") =>
    \A s \in {result[1].array, result[1].list} :
      /\ \A k \in 1 .. Len(s) - 1 : s[k] <= s[k + 1]
      /\ \A v \in ToSet(s) \cup ToSet(call.data) :
           Len(SelectSeq(s, LAMBDA x : x = v)) = Len(SelectSeq(call.data, LAMBDA x : x = v))

\* A call in the middle of the array that counts an element it did not add or
\* remove.
Miscounts(calls) ==
  \E k \in DOMAIN calls :
    \/ calls[k].op = "at"
    \/ calls[k].op = "remove" /\ calls[k].index >= Len(Ex!Expected(SubSeq(calls, 1, k - 1)))

\* As long as only elements that are there are removed, the array that grows by
\* one never writes outside its memory and holds what a list would hold; the
\* one that doubles does so unless it starts with no room at all.
ArrayHolds ==
  Returned("array") /\ ~Miscounts(call.calls) =>
    LET a == result[1]  doubles == \E k \in DOMAIN call.calls : call.calls[k].op = "double"
    IN  IF doubles /\ call.size = 0 THEN TRUE
        ELSE "write" \notin a.fault /\ SubSeq(a.array, 1, a.set) = Ex!Expected(call.calls)

\* Whatever the counts of the single reads and however often they are
\* interrupted, the calls before one that fails hand on the bytes in order, none
\* lost and none twice; what rio_readlineb returns is their number when the line
\* is complete, and one more otherwise.
BytesInOrder ==
  /\ Returned("read") =>
       LET failed(k) == result[1][k].data = EIO \/ (call.reads[k].op = "line" /\ result[1][k].n = -1)
       IN  /\ \A k \in DOMAIN result[1] : (\A j \in 1 .. k : ~failed(j)) =>
                IsPrefix(FlattenSeq([j \in 1 .. k |-> result[1][j].data]), call.bytes)
           /\ \A k \in DOMAIN result[1] : call.reads[k].op = "line" =>
                LET line == result[1][k] IN
                line.n \in {-1, 0} \/ line.n = Len(line.data) +
                  IF line.data # <<>> /\ Last(line.data) = "n" THEN 0 ELSE 1
  /\ Returned("readn") =>
       IF EIO \notin ToSet(call.results)
       THEN result[1].data = SubSeq(call.bytes, 1, IO!Min({call.n, Len(call.bytes)}))
       ELSE result[1].data = EIO \/ result[1].data = SubSeq(call.bytes, 1, Len(result[1].data))
  /\ Returned("writen") => (result[1][1] <=> result[1][2].written = call.bytes)

\* A line that ends with a newline, without quotes, is split at its blanks, and
\* a last argument that begins with "&" is taken for the sign of a background
\* job; one without arguments makes parseline look in front of argv.
LineSplit ==
  Returned("parse") /\ Last(call.line) = "newline" /\ "'" \notin ToSet(call.line) =>
    LET text == SubSeq(call.line, 1, Len(call.line) - 1)
        starts == {k \in DOMAIN text : text[k] # " " /\ (k = 1 \/ text[k - 1] = " ")}
        argv == result[1].argv
    IN  IF starts = {} THEN result[1] = Fault
        ELSE /\ Len(argv) = Cardinality(starts) - (IF result[1].bg THEN 1 ELSE 0)
             /\ \A k \in DOMAIN argv : argv[k] # <<>> /\ " " \notin ToSet(argv[k])
             /\ IsPrefix(FlattenSeq(argv), SelectSeq(text, LAMBDA c : c # " "))
             /\ ~result[1].bg => FlattenSeq(argv) = SelectSeq(text, LAMBDA c : c # " ")

Operator(arg) == arg \in {<<"<">>, <<">">>}

\* When the redirections have names and are not the first thing on the line,
\* the command gets the arguments without them, and the files are those that
\* were named; in a pipeline the inner ends are not redirected.
RedirectsTaken ==
  Returned("redirect") /\ ~Operator(call.argv[1])
    /\ (\A k \in DOMAIN call.argv : Operator(call.argv[k]) =>
          k < Len(call.argv) /\ ~Operator(call.argv[k + 1])) =>
    LET argv == call.argv
        file(op) == {argv[k + 1] : k \in {n \in DOMAIN argv : argv[n] = op}}
        plain == {k \in DOMAIN argv : ~Operator(argv[k]) /\ (k = 1 \/ ~Operator(argv[k - 1]))}
    IN  /\ result[1] # Fault
        /\ call.side = "RIGHT" /\ call.isPiped => result[1].in = <<>>
        /\ call.side = "LEFT" /\ call.isPiped => result[1].out = <<>>
        /\ ToSet(result[1].in) \subseteq file(<<"<">>) /\ ToSet(result[1].out) \subseteq file(<<">">>)
        /\ ~call.isPiped /\ ~result[1].ambiguous =>
             /\ Len(result[1].argv) = Cardinality(plain)
             /\ ToSet(result[1].argv) = {argv[k] : k \in plain}
             /\ ToSet(result[1].in) = file(<<"<">>) /\ ToSet(result[1].out) = file(<<">">>)

\* generate_from_primes and crack, on every message and key of the calls.
KeysWork == KeysInvert /\ CrackedKeyFits

\* What the sequential programs print or hand on is what it should be, and
\* stays in the memory they have for it.
ResultsRight ==
  /\ TypeOK /\ CountInBounds
  /\ ReplacedInRoom /\ AnagramsExact /\ WordsExact /\ Sorted /\ ArrayHolds
  /\ BytesInOrder /\ LineSplit /\ RedirectsTaken

==============================================================================
