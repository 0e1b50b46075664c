---------------------------- MODULE Directories ------------------------------
(***************************************************************************)
(* What the two file tools have in common: paths, as sequences of names,    *)
(* and the two entries that every directory has.                            *)
(***************************************************************************)
EXTENDS Integers, Sequences

Parent(path) == SubSeq(path, 1, Len(path) - 1)
Dots == {".", ".."}
Names == STRING \ Dots

==============================================================================
