------------------------------- MODULE Kernel --------------------------------
(***************************************************************************)
(* The kernel as shell.c uses it: the states of the shell's children, what  *)
(* waitpid can report of them, the signals pending at the shell, and kill() *)
(* on a process group.  One process stands for the group of a job.          *)
(*                                                                         *)
(* A child is "forked" until it has called setpgid and execvp.  Before that *)
(* a signal sent to its group is lost: the group does not exist yet, or the *)
(* child still has the shell's own handlers, whose copy of the job list has *)
(* no foreground job.  A "doomed" child is stopped with a SIGINT pending.   *)
(***************************************************************************)
EXTENDS ProcessIds

VARIABLES
  proc,        \* the state of the process with each pid; "free": no such child
  unreported,  \* the children whose stop waitpid has not reported
  pending      \* the signals pending at the shell

kernelVars == <<proc, unreported, pending>>

Signals == {"INT", "TSTP", "CHLD"}

Live == {p \in Pids : proc[p] \in {"forked", "running", "stopped", "doomed"}}

\* What waitpid(-1, .., WNOHANG|WUNTRACED) can return now.
Waitable == {p \in Pids : proc[p] = "zombie"} \cup unreported

KernelInit ==
  /\ proc = [p \in Pids |-> "free"]
  /\ unreported = {}
  /\ pending = {}

\* fork: any unused process ID.
Fork(p) ==
  /\ proc[p] = "free"
  /\ proc' = [proc EXCEPT ![p] = "forked"]
  /\ UNCHANGED <<unreported, pending>>

\* The child's half of eval, up to the new program.
Exec(p) ==
  /\ proc[p] = "forked"
  /\ proc' = [proc EXCEPT ![p] = "running"]
  /\ UNCHANGED <<unreported, pending>>

(***************************************************************************)
(* Each change of a child's state sends its parent a SIGCHLD.  q is what    *)
(* the caller leaves pending: all, or all but the signal it is handling.    *)
(***************************************************************************)
Die(p, q) ==
  /\ proc' = [proc EXCEPT ![p] = "zombie"]
  /\ unreported' = unreported \ {p}
  /\ pending' = q \cup {"CHLD"}

Stop(p, q) ==
  /\ proc' = [proc EXCEPT ![p] = "stopped"]
  /\ unreported' = unreported \cup {p}
  /\ pending' = q \cup {"CHLD"}

\* A child that continues takes back the report of its stop.
Continue(p, q) ==
  /\ proc' = [proc EXCEPT ![p] = "running"]
  /\ unreported' = unreported \ {p}
  /\ pending' = q \cup {"CHLD"}

Lost(q) == pending' = q /\ UNCHANGED <<proc, unreported>>

(***************************************************************************)
(* kill(-p, sig).  A program may catch or ignore SIGINT and SIGTSTP.  With  *)
(* p = 0 the signal goes to the group of the caller, the shell itself.      *)
(***************************************************************************)
KillOwnGroup(s) == Lost(pending \cup {s})

SendInt(p, q) ==
  \/ proc[p] = "running" /\ Die(p, q)
  \/ /\ proc[p] = "stopped"
     /\ proc' = [proc EXCEPT ![p] = "doomed"]
     /\ pending' = q
     /\ UNCHANGED unreported
  \/ proc[p] # "stopped" /\ Lost(q)

SendTstp(p, q) ==
  \/ proc[p] = "running" /\ Stop(p, q)
  \/ Lost(q)

SendCont(p, q) ==
  \/ proc[p] \in {"stopped", "doomed"} /\ Continue(p, q)
  \/ proc[p] = "doomed" /\ Die(p, q)
  \/ proc[p] \notin {"stopped", "doomed"} /\ Lost(q)

(***************************************************************************)
(* What the children do by themselves, or other processes do to them.       *)
(***************************************************************************)
ChildStep(p) ==
  \/ Exec(p)
  \/ p \in Live /\ Die(p, pending)
  \/ proc[p] \in {"stopped", "doomed"} /\ SendCont(p, pending)

\* waitpid returning p: a dead child is gone, a stop is reported once.
Reap(p) ==
  /\ p \in Waitable
  /\ proc' = IF proc[p] = "zombie" THEN [proc EXCEPT ![p] = "free"] ELSE proc
  /\ unreported' = unreported \ {p}
  /\ UNCHANGED pending

KernelTypeOK ==
  /\ proc \in [Pids -> {"free", "forked", "running", "stopped", "doomed", "zombie"}]
  /\ unreported \subseteq {p \in Pids : proc[p] \in {"stopped", "doomed"}}
  /\ pending \subseteq Signals

==============================================================================
