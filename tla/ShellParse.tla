----------------------------- MODULE ShellParse ------------------------------
(***************************************************************************)
(* How the shell takes a command line apart (G5 - shell/shell.c): parseline *)
(* and checkForRedirects.  A line is a sequence of characters, an argument  *)
(* one without blanks or in quotes.                                         *)
(***************************************************************************)
EXTENDS Integers, Sequences, FiniteSetsExt

CONSTANT Fault   \* memory outside argv is looked at

Skip(buf) ==
  LET chars == {k \in DOMAIN buf : buf[k] # " "}
  IN  IF chars = {} THEN <<>> ELSE SubSeq(buf, Min(chars), Len(buf))

\* The arguments in buf; what has no delimiter behind it is left out.
RECURSIVE Arguments(_)
Arguments(buf) ==
  LET rest == Skip(buf)
      quoted == rest # <<>> /\ Head(rest) = "'"
      word == IF quoted THEN Tail(rest) ELSE rest
      ends == {k \in DOMAIN word : word[k] = IF quoted THEN "'" ELSE " "}
  IN  IF ends = {} THEN <<>>
      ELSE <<SubSeq(word, 1, Min(ends) - 1)>> \o Arguments(SubSeq(word, Min(ends) + 1, Len(word)))

\* The last character, a newline or not, is made a blank.  Without arguments
\* the test for "&" looks in front of argv.
parseline(cmdline) ==
  LET argv == Arguments([cmdline EXCEPT ![Len(cmdline)] = " "])
      last == argv[Len(argv)]
      bg == last # <<>> /\ Head(last) = "&"
  IN  IF argv = <<>> THEN Fault
      ELSE [argv |-> IF bg THEN SubSeq(argv, 1, Len(argv) - 1) ELSE argv, bg |-> bg]

StartsWith(arg, char) == arg # <<>> /\ Head(arg) = char

\* argv without the two arguments from i on.
Without(argv, i) == SubSeq(argv, 1, i - 1) \o SubSeq(argv, i + 2, Len(argv))

Redirected(argv, in, out, ambiguous) ==
  [argv |-> argv, in |-> in, out |-> out, ambiguous |-> ambiguous]

(***************************************************************************)
(* The loop from argument i on, which has found the files in and out: after *)
(* a redirection it goes on with the argument before, and looks in front of *)
(* argv when that was the first.  Opening a file may fail, which ends the   *)
(* shell (Quit in Shell).                                                   *)
(***************************************************************************)
RECURSIVE From(_, _, _, _, _, _)
From(argv, i, side, isPiped, in, out) ==
  LET is(char) == StartsWith(argv[i], char) /\ i < Len(argv)
      goOn(newIn, newOut) ==
        IF i = 1 THEN Fault
        ELSE From(Without(argv, i), i - 1, side, isPiped, newIn, newOut)
  IN  IF i > Len(argv) THEN Redirected(argv, in, out, FALSE)
      ELSE IF is("<") /\ ~(side = "RIGHT" /\ isPiped)
           THEN IF in # <<>> THEN Redirected(argv, in, out, TRUE)
                ELSE goOn(<<argv[i + 1]>>, out)
      ELSE IF is(">") /\ ~(side = "LEFT" /\ isPiped)
           THEN IF out # <<>> THEN Redirected(argv, in, out, TRUE)
                ELSE goOn(in, <<argv[i + 1]>>)
      ELSE From(argv, i + 1, side, isPiped, in, out)

checkForRedirects(argv, side, isPiped) == From(argv, 1, side, isPiped, <<>>, <<>>)

==============================================================================
