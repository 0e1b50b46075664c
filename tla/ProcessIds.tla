----------------------------- MODULE ProcessIds ------------------------------
(***************************************************************************)
(* The process IDs that the shell's job list and the kernel speak of.       *)
(***************************************************************************)
CONSTANTS
  Pids,      \* the process IDs the kernel may give to a child
  NoPid      \* the pid 0: no process; the pid of an unused entry

ASSUME NoPidAssumption == NoPid \notin Pids

==============================================================================
