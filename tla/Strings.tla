------------------------------ MODULE Strings --------------------------------
(***************************************************************************)
(* The string helpers (stringly.c in three of the programs; the copy in the *)
(* anagram finder differs).  A string is a sequence of characters.          *)
(***************************************************************************)
EXTENDS Integers, Sequences, FiniteSetsExt

CONSTANT NULL   \* a pointer to nothing

\* Where rep is found in s from position k on; 0 if it is not.
OccursAt(s, rep, k) == k + Len(rep) <= Len(s) + 1 /\ SubSeq(s, k, k + Len(rep) - 1) = rep
strstr(s, rep, k) ==
  LET found == {n \in k .. Len(s) : OccursAt(s, rep, n)}
  IN  IF found = {} THEN 0 ELSE Min(found)

\* replacements_count: occurrences that do not overlap, from the left.
Replacements(orig, rep) ==
  LET from[k \in 1 .. Len(orig) + 1] ==
        IF strstr(orig, rep, k) = 0 THEN 0 ELSE 1 + from[strstr(orig, rep, k) + Len(rep)]
  IN  from[1]

\* What is allocated for the result, without the NUL.
Room(orig, rep, with) == Len(orig) + (Len(with) - Len(rep)) * Replacements(orig, rep)

\* The second loop makes as many replacements as were counted: made[k] is the
\* text after k of them, and where the search goes on; then comes the rest.
Rebuilt(orig, rep, with) ==
  LET n == Replacements(orig, rep)
      made[k \in 0 .. n] ==
        IF k = 0 THEN [text |-> <<>>, at |-> 1]
        ELSE LET before == made[k - 1]
                 ins == strstr(orig, rep, before.at)
             IN  [text |-> before.text \o SubSeq(orig, before.at, ins - 1) \o with,
                  at |-> ins + Len(rep)]
  IN  made[n].text \o SubSeq(orig, made[n].at, Len(orig))

\* absent: what is returned when there is nothing to replace.
Replace(orig, rep, with, absent) ==
  IF orig = NULL \/ rep = <<>> THEN NULL
  ELSE IF strstr(orig, rep, 1) = 0 THEN absent
  ELSE Rebuilt(orig, rep, with)

str_replace(orig, rep, with) == Replace(orig, rep, with, orig)
str_replaceOrNull(orig, rep, with) == Replace(orig, rep, with, NULL)   \* the anagram finder's

sanitize(string, newline, blank) ==
  str_replace(str_replace(string, <<newline>>, <<>>), <<blank>>, <<>>)

==============================================================================
