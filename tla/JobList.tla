------------------------------- MODULE JobList -------------------------------
(***************************************************************************)
(* The job list of the shell (G5 - shell/shell.c): the array jobs[MAXJOBS], *)
(* the counter nextjid, and the helper routines that read and change them.  *)
(*                                                                         *)
(* A job record keeps the three fields the program decides by; the command  *)
(* line is text and is left out.  An array index i of the code is slot      *)
(* i + 1 here.  A helper that searches the array "for the first i with ..." *)
(* is written with First, which yields a set holding that slot, or nothing. *)
(***************************************************************************)
EXTENDS Naturals, ProcessIds

CONSTANT MAXJOBS   \* the size of the array, 16 in the code

ASSUME MaxJobsAssumption == MAXJOBS \in Nat \ {0}

VARIABLES
  jobs,      \* the job list
  nextjid    \* the next job ID to allocate

Slots == 1 .. MAXJOBS

JobStates == {"UNDEF", "FG", "BG", "ST"}

Job == [pid : Pids \cup {NoPid}, jid : Nat, state : JobStates]

\* What clearjob leaves in an entry.
NoJob == [pid |-> NoPid, jid |-> 0, state |-> "UNDEF"]

First(S) == {i \in S : \A j \in S : i <= j}

(***************************************************************************)
(* The lookups.  A pid or jid below 1 finds nothing.                        *)
(***************************************************************************)
getjobpid(p) == First({i \in Slots : jobs[i].pid = p /\ p # NoPid})

getjobjid(j) == First({i \in Slots : jobs[i].jid = j /\ j # 0})

\* The largest job ID in a list (as a set of one element); 0 if it is empty.
maxjid(js) == {m \in {js[i].jid : i \in Slots} : \A i \in Slots : js[i].jid <= m}

\* fgpid returns the pid of the first entry whose state is FG, else 0.
fgpid(p) ==
  \/ \E i \in First({k \in Slots : jobs[k].state = "FG"}) : p = jobs[i].pid
  \/ (\A k \in Slots : jobs[k].state # "FG") /\ p = NoPid

(***************************************************************************)
(* The updates.                                                             *)
(***************************************************************************)
initjobs ==
  /\ jobs = [i \in Slots |-> NoJob]
  /\ nextjid = 1

clearjob(i) == jobs' = [jobs EXCEPT ![i] = NoJob]

\* The first free entry takes the job; a full list only prints a message.
addjob(p, st) ==
  \/ \E i \in First({k \in Slots : jobs[k].pid = NoPid}) :
       /\ jobs' = [jobs EXCEPT ![i] = [pid |-> p, jid |-> nextjid, state |-> st]]
       /\ nextjid' = IF nextjid + 1 > MAXJOBS THEN 1 ELSE nextjid + 1
  \/ /\ \A k \in Slots : jobs[k].pid # NoPid
     /\ UNCHANGED <<jobs, nextjid>>

\* Mutant: the largest job ID itself, not the one after it.
deletejobAtMax(p) ==
  \/ \E i \in getjobpid(p) :
       /\ clearjob(i)
       /\ \E m \in maxjid(jobs') : nextjid' = m
  \/ getjobpid(p) = {} /\ UNCHANGED <<jobs, nextjid>>

deletejob(p) ==
  \/ \E i \in getjobpid(p) :
       /\ clearjob(i)
       /\ \E m \in maxjid(jobs') : nextjid' = m + 1
  \/ getjobpid(p) = {} /\ UNCHANGED <<jobs, nextjid>>

JobsTypeOK ==
  /\ jobs \in [Slots -> Job]
  /\ nextjid \in Nat \ {0}

\* No process has two entries: what getjobpid finds first is the only one.
PidsUnique ==
  \A i, k \in Slots :
    jobs[i].pid = jobs[k].pid /\ jobs[i].pid # NoPid => i = k

==============================================================================
