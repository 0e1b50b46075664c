----------------------------- MODULE MCPrograms ------------------------------
(***************************************************************************)
(* The small programs on small instances.                                   *)
(***************************************************************************)
EXTENDS Programs

\* What the theorems about the small programs assume of their instances.
ASSUME InstancesSized == Sized /\ SyncAssumption /\ FreshTexts

\* One or two calls per thread on the shared list; both threads may make the
\* same ones.
MCScripts ==
  LET listCall(op, value) == [op |-> op, value |-> value]
      append == listCall("append", 2)  insert == listCall("insert", 2)  delete == listCall("delete", 2)
  IN  {<<append, append>>, <<append, delete>>, <<append, insert>>, <<insert, delete>>,
       <<delete, insert>>, <<append, listCall("print", 0)>>, <<listCall("delete", 1)>>}

PathsTo(path, from) == {SubSeq(path, 1, k) : k \in from .. Len(path)}

\* Trees with files in up to two directories, three levels deep, and perhaps
\* an empty directory; those of a tree are of one age.
FilePlaces == {{}, {<<>>}, {<<"d">>}, {<<"d", "e">>}, {<<"d">>, <<"d", "e">>},
               {<<"d">>, <<"d", "e", "e">>}}
Tree(places, time, empty) ==
  [dirs |-> {<<>>} \cup UNION {PathsTo(p, 0) : p \in places \cup empty},
   files |-> [f \in [dir : places, name : {"f"}] |->
                [version |-> time, time |-> time, length |-> time + 1, padded |-> 0]]]
MCTrees ==
  {[master |-> Tree(p, 2, {}), slave |-> Tree(q, time, empty)] :
     p, q \in FilePlaces, time \in {1, 3}, empty \in {{}, {<<"e">>}}}

\* Disks with files named after the pattern, in directories with and without; a
\* directory x/x/x is left out, in which scan_dir never stops calling itself.
Places == {{<<"x">>, <<"p">>}, {<<"x", "p">>}, {<<"p", "p">>, <<"p">>}, {<<"x", "p">>, <<"r", "p">>},
           {<<"p", "x", "p">>}, {<<"x", "p">>, <<"y", "p">>}, {<<"x", "y", "x", "p">>}}
Texts == {<<<<"x", "r">>, <<"x", "x", "x", "x">>>>, <<<<"p", "r">>>>}
Disk(top, places, text) ==
  LET files == {<<top>> \o p : p \in places}
  IN  [dirs |-> {<<top>>} \cup UNION {PathsTo(p, 1) \ {p} : p \in files},
       files |-> [f \in files |-> text]]
MCDisks ==
  {start \in
     {[disk |-> Disk(top, places, text), params |-> [mode |-> m, fname |-> name], base |-> <<top>>] :
        top \in {"b", "p"}, places \in Places, text \in Texts, m \in {0, 1}, name \in {NULL, "x"}} :
   start.disk.dirs \cap DOMAIN start.disk.files = {}}

-----------------------------------------------------------------------------
SeqsUpTo(set, n) == UNION {[1 .. k -> set] : k \in 0 .. n}
NonEmpty(seqs) == seqs \ {<<>>}

KeyCalls == {[op |-> "keys", n |-> n, m |-> m] : n, m \in 0 .. 5}
CrackCalls == {[op |-> "crack", n |-> n, m |-> m] : n, m \in 1 .. 5} \ {[op |-> "crack", n |-> n, m |-> n] : n \in 1 .. 5}

StringCalls ==
  {[op |-> "replace", orig |-> s, rep |-> rep, with |-> with] :
     s \in SeqsUpTo({"a", "b"}, 5), rep \in NonEmpty(SeqsUpTo({"a", "b"}, 2)),
     with \in {<<>>, <<"a">>, <<"b", "a">>}} \cup
  {[op |-> "sanitize", orig |-> s] : s \in SeqsUpTo({"a", " ", "n"}, 4)}

\* Lines of a dictionary: "ab", "Ba", "aB" again, "bb", "zzzzz", "a1b", and one
\* without a newline.
Lines == {<<97, 98, 10>>, <<66, 97, 10>>, <<97, 66, 10>>, <<98, 98, 10>>,
          <<122, 122, 122, 122, 122, 10>>, <<97, 49, 98, 10>>, <<98, 97>>}
Words == {<<97, 98>>, <<66, 97>>, <<98, 97, 97>>, <<122, 122, 122, 122, 122, 98>>, <<49, 98, 97>>}
WordCalls ==
  {[op |-> op, dict |-> dict, arg |-> arg, letter |-> ask[1], place |-> ask[2]] :
     op \in {"anagram", "words"}, dict \in {<<a, b>> : a, b \in Lines},
     arg \in Words, ask \in {<<0, 0>>, <<66, 0>>, <<66, 1>>}} \cup
  {[op |-> "anagram", dict |-> <<<<97, 98, 10>>>>, arg |-> <<98, 97>>, letter |-> 49, place |-> 3]}

SortCalls == {[op |-> "sort", data |-> data] : data \in NonEmpty(SeqsUpTo(0 .. 2, 5))}
ArrayCalls ==
  LET add(op) == [op |-> op, element |-> 1]
      remove(k) == [op |-> "remove", index |-> k]
      insert(k) == [op |-> "at", index |-> k, element |-> 2]
  IN  {[op |-> "array", size |-> size, calls |-> calls] :
         size \in 0 .. 2,
         calls \in SeqsUpTo({add("add"), remove(0), remove(1), insert(1), insert(3)}, 4) \cup
                   SeqsUpTo({add("double"), remove(0), remove(2)}, 5)}

Results == {<<>>, <<1, 1>>, <<EINTR, 2, EINTR>>, <<1, EIO>>, <<2, EINTR, EIO>>}
Line(n) == [op |-> "line", n |-> n]
Bytes(n) == [op |-> "nb", n |-> n]
ReadCalls ==
  {[op |-> "read", bytes |-> bytes, results |-> results, reads |-> reads] :
     bytes \in SeqsUpTo({"a", "n"}, 5), results \in Results,
     reads \in {<<Line(4), Line(4)>>, <<Bytes(2), Line(3)>>, <<Line(3), Bytes(4), Line(9)>>}} \cup
  {[op |-> op, bytes |-> SubSeq(<<"a", "b", "c", "d">>, 1, k), results |-> results, n |-> n] :
     op \in {"readn", "writen"}, k \in 0 .. 4, results \in Results, n \in 0 .. 4}

ParseCalls ==
  {[op |-> "parse", line |-> Append(line, last)] :
     line \in SeqsUpTo({" ", "'", "&", "a"}, 5), last \in {"newline", "a"}}
RedirectCalls ==
  {[op |-> "redirect", argv |-> argv, side |-> side, isPiped |-> piped] :
     argv \in NonEmpty(SeqsUpTo({<<"a">>, <<"f">>, <<"<">>, <<">">>}, 5)),
     side \in {"LEFT", "RIGHT"}, piped \in BOOLEAN}

MCCalls == KeyCalls \cup CrackCalls \cup StringCalls \cup WordCalls \cup SortCalls \cup
           ArrayCalls \cup ReadCalls \cup ParseCalls \cup RedirectCalls

==============================================================================
