------------------------------ MODULE MCShell --------------------------------
(***************************************************************************)
(* The shell on a small instance: model values for the process IDs.         *)
(***************************************************************************)
EXTENDS Shell, TLC

ShellSymmetry == Permutations(Pids)

==============================================================================
