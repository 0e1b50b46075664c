-------------------------------- MODULE Shell --------------------------------
(***************************************************************************)
(* The tiny shell (G5 - shell/shell.c): the read/eval loop of main, eval    *)
(* with its pipelines of two programs, the builtins fg, bg and kill, and    *)
(* the three signal handlers that run on top of it and share its job list.  *)
(*                                                                         *)
(* The shell is one thread.  A handler may run between any two steps of     *)
(* main unless sigprocmask has masked the signals, and main does not move   *)
(* while one runs.  The steps of main and of sigchld_handler are cut where  *)
(* a handler in between would make a difference; what is left inside a step *)
(* (a search of the list and the test of what it found, say) gives the same *)
(* result wherever a handler interrupts it.  For the same reason the two    *)
(* keyboard handlers are single steps: main sleeps and no process ID is     *)
(* reused while they run.                                                   *)
(***************************************************************************)
EXTENDS JobList, Kernel

CONSTANTS
  MaxForks,   \* bound: how many children the shell ever forks
  MaxSignals  \* bound: how often the user types ctrl-c or ctrl-z, or a
              \* child stops of its own accord

ASSUME BoundsAssumption == MaxForks \in Nat /\ MaxSignals \in Nat

VARIABLES
  pc,        \* where main is: see MainPoints
  cmd,       \* the builtin do_bgfg executes
  piped,     \* eval: RHS # NULL and the left side is being evaluated
  isBGtask,  \* eval: what parseline returned
  pid,       \* eval: pid or pid2; waitfg, kill_job: the local of that name
  job,       \* do_bgfg, kill_job: the job they found
  max,       \* deletejob, called by kill_job: what maxjid returned
  masked,    \* SIGINT, SIGCHLD and SIGTSTP are blocked
  chld,      \* where sigchld_handler is; "idle": it is not running
  got,       \* sigchld_handler: the pid waitpid returned ...
  status,    \* ... and whether that child is "dead" or "stopped"
  forks,     \* the number of children forked so far
  signals    \* the number of ctrl-c, ctrl-z and stops so far

locals == <<cmd, piped, isBGtask, pid, job, max>>
handlerVars == <<chld, got, status>>
jobVars == <<jobs, nextjid>>
bounds == <<forks, signals>>
vars == <<jobVars, kernelVars, pc, locals, masked, handlerVars, bounds>>

\* The three NULL dereferences end the shell as surely as exit does.
Stopped == {"exited", "segv_announce", "segv_kill", "segv_chld"}

MainPoints == {"prompt", "add", "announce", "waitfg", "rhs", "set",
               "ksend", "kclear", "knext"} \cup Stopped

Alive == pc \notin Stopped

\* main takes a step only when no handler is on top of it.
MainRuns == Alive /\ chld = "idle"

\* A command is read at the prompt.  At "rhs" builtin_cmd looks at argv_right
\* before parseline has filled it: the garbage may name any builtin or none.
Command == MainRuns /\ pc \in {"prompt", "rhs"}

\* A command that is done leaves no locals behind.
Return ==
  /\ pc' = "prompt"
  /\ cmd' = "fg" /\ piped' = FALSE /\ isBGtask' = FALSE
  /\ pid' = NoPid /\ job' = 1 /\ max' = 0

Init ==
  /\ initjobs
  /\ KernelInit
  /\ pc = "prompt"
  /\ cmd = "fg" /\ piped = FALSE /\ isBGtask = FALSE
  /\ pid = NoPid /\ job = 1 /\ max = 0
  /\ masked = FALSE
  /\ chld = "idle" /\ got = NoPid /\ status = "dead"
  /\ forks = 0 /\ signals = 0

-----------------------------------------------------------------------------
(***************************************************************************)
(* eval.                                                                    *)
(***************************************************************************)
\* Mutant: fork without blocking the signals first.
EvalForkUnmasked(p) ==
  /\ Command /\ forks < MaxForks
  /\ Fork(p)
  /\ pc' = "add"
  /\ pid' = p
  /\ isBGtask' \in BOOLEAN
  /\ piped' \in (IF pc = "rhs" THEN {FALSE} ELSE BOOLEAN)
  /\ forks' = forks + 1
  /\ UNCHANGED <<jobVars, cmd, job, max, masked, handlerVars, signals>>

\* sigprocmask(SIG_BLOCK), fork.  The right side of a pipeline has no other.
EvalFork(p) ==
  /\ Command /\ forks < MaxForks
  /\ Fork(p)
  /\ pc' = "add"
  /\ masked' = TRUE
  /\ pid' = p
  /\ isBGtask' \in BOOLEAN
  /\ piped' \in (IF pc = "rhs" THEN {FALSE} ELSE BOOLEAN)
  /\ forks' = forks + 1
  /\ UNCHANGED <<jobVars, cmd, job, max, handlerVars, signals>>

\* Mutant: the signals stay blocked.
EvalAddNoUnblock ==
  /\ MainRuns /\ pc = "add"
  /\ addjob(pid, IF isBGtask THEN "BG" ELSE "FG")
  /\ pc' = IF isBGtask THEN "announce" ELSE "waitfg"
  /\ UNCHANGED <<kernelVars, locals, masked, handlerVars, bounds>>

\* addjob, sigprocmask(SIG_UNBLOCK).
EvalAdd ==
  /\ MainRuns /\ pc = "add"
  /\ addjob(pid, IF isBGtask THEN "BG" ELSE "FG")
  /\ masked' = FALSE
  /\ pc' = IF isBGtask THEN "announce" ELSE "waitfg"
  /\ UNCHANGED <<kernelVars, locals, handlerVars, bounds>>

\* eval goes on with the right side of a pipeline, or returns.
Finish ==
  IF piped THEN pc' = "rhs" /\ UNCHANGED locals ELSE Return

Announce ==
  /\ MainRuns /\ pc = "announce"
  /\ IF getjobpid(pid) = {}
       THEN pc' = "segv_announce" /\ UNCHANGED locals
       ELSE Finish
  /\ UNCHANGED <<jobVars, kernelVars, masked, handlerVars, bounds>>

\* waitfg's loop ends; while it goes on nothing changes.
WaitfgReturn ==
  /\ MainRuns /\ pc = "waitfg"
  /\ \A i \in getjobpid(pid) : jobs[i].state # "FG"
  /\ Finish
  /\ UNCHANGED <<jobVars, kernelVars, masked, handlerVars, bounds>>

\* quit, exit, the end of the input; a redirection, pipe or fork that fails.
Quit ==
  /\ Command
  /\ pc' = "exited"
  /\ UNCHANGED <<jobVars, kernelVars, locals, masked, handlerVars, bounds>>

\* A builtin that finds nothing to do, or only prints (jobs).
NothingToDo ==
  /\ MainRuns /\ pc = "rhs"
  /\ Return
  /\ UNCHANGED <<jobVars, kernelVars, masked, handlerVars, bounds>>

-----------------------------------------------------------------------------
(***************************************************************************)
(* do_bgfg and kill_job.  Their argument is a process ID or a job ID: both  *)
(* name the first entry that has it.                                        *)
(***************************************************************************)
\* The job IDs a user may type: no job ever has the largest one.
JidArgs == 0 .. MaxForks + 1

Named(i) ==
  \/ \E p \in Pids : i \in getjobpid(p)
  \/ \E k \in JidArgs : i \in getjobjid(k)

\* The job is found and its state allows the command: kill(-pid, SIGCONT).
BgfgCont(c, i) ==
  /\ Command
  /\ Named(i)
  /\ jobs[i].state \in (IF c = "fg" THEN {"BG", "ST"} ELSE {"ST"})
  /\ SendCont(jobs[i].pid, pending)
  /\ pc' = "set" /\ cmd' = c /\ job' = i /\ piped' = FALSE
  /\ UNCHANGED <<jobVars, isBGtask, pid, max, masked, handlerVars, bounds>>

\* Mutant: fg does not wait for the job.
BgfgSetNoWait ==
  /\ MainRuns /\ pc = "set"
  /\ jobs' = [jobs EXCEPT ![job].state = IF cmd = "fg" THEN "FG" ELSE "BG"]
  /\ Return
  /\ UNCHANGED <<nextjid, kernelVars, masked, handlerVars, bounds>>

\* job->state = FG or BG, whatever has become of the job; waitfg(job->pid).
BgfgSet ==
  /\ MainRuns /\ pc = "set"
  /\ jobs' = [jobs EXCEPT ![job].state = IF cmd = "fg" THEN "FG" ELSE "BG"]
  /\ IF cmd = "fg"
       THEN /\ pc' = "waitfg" /\ pid' = jobs[job].pid
            /\ UNCHANGED <<cmd, piped, isBGtask, job, max>>
       ELSE Return
  /\ UNCHANGED <<nextjid, kernelVars, masked, handlerVars, bounds>>

KillFound(i) ==
  /\ pc' = "ksend" /\ job' = i /\ pid' = jobs[i].pid /\ piped' = FALSE
  /\ UNCHANGED <<cmd, isBGtask, max>>

\* kill %k reads job->pid before it looks whether there is such a job.
KillByJid(k) ==
  /\ Command
  /\ \/ \E i \in getjobjid(k) : KillFound(i)
     \/ getjobjid(k) = {} /\ pc' = "segv_kill" /\ UNCHANGED locals
  /\ UNCHANGED <<jobVars, kernelVars, masked, handlerVars, bounds>>

KillByPid(p) ==
  /\ Command
  /\ \E i \in getjobpid(p) : KillFound(i)
  /\ UNCHANGED <<jobVars, kernelVars, masked, handlerVars, bounds>>

\* kill(-(job->pid), SIGINT): a handler may have cleared the job by now.
KillSend ==
  /\ MainRuns /\ pc = "ksend"
  /\ IF jobs[job].pid = NoPid THEN KillOwnGroup("INT") ELSE SendInt(jobs[job].pid, pending)
  /\ pc' = "kclear"
  /\ UNCHANGED <<jobVars, locals, masked, handlerVars, bounds>>

\* deletejob(jobs, pid), which a handler may interrupt before it ends.
KillClear ==
  /\ MainRuns /\ pc = "kclear"
  /\ \/ \E i \in getjobpid(pid) :
          /\ clearjob(i)
          /\ max' \in maxjid(jobs')
          /\ pc' = "knext"
          /\ UNCHANGED <<cmd, piped, isBGtask, pid, job>>
     \/ getjobpid(pid) = {} /\ UNCHANGED jobs /\ Return
  /\ UNCHANGED <<nextjid, kernelVars, masked, handlerVars, bounds>>

\* Mutant: the largest job ID itself, not the one after it.
KillNextAtMax ==
  /\ MainRuns /\ pc = "knext"
  /\ nextjid' = max
  /\ Return
  /\ UNCHANGED <<jobs, kernelVars, masked, handlerVars, bounds>>

KillNext ==
  /\ MainRuns /\ pc = "knext"
  /\ nextjid' = max + 1
  /\ Return
  /\ UNCHANGED <<jobs, kernelVars, masked, handlerVars, bounds>>

-----------------------------------------------------------------------------
(***************************************************************************)
(* The signal handlers.                                                     *)
(***************************************************************************)
Deliverable(s) == Alive /\ ~masked /\ s \in pending

SigintHandler ==
  /\ Deliverable("INT")
  /\ \E p \in Pids \cup {NoPid} :
       /\ fgpid(p)
       /\ IF p = NoPid THEN Lost(pending \ {"INT"}) ELSE SendInt(p, pending \ {"INT"})
  /\ UNCHANGED <<jobVars, pc, locals, masked, handlerVars, bounds>>

SigtstpHandler ==
  /\ Deliverable("TSTP")
  /\ \E p \in Pids \cup {NoPid} :
       /\ fgpid(p)
       /\ IF p = NoPid THEN Lost(pending \ {"TSTP"}) ELSE SendTstp(p, pending \ {"TSTP"})
  /\ UNCHANGED <<jobVars, pc, locals, masked, handlerVars, bounds>>

SigquitHandler ==
  /\ Alive
  /\ pc' = "exited"
  /\ UNCHANGED <<jobVars, kernelVars, locals, masked, handlerVars, bounds>>

\* The kernel enters sigchld_handler; SIGCHLD is blocked until it returns.
SigchldEnter ==
  /\ Deliverable("CHLD") /\ chld = "idle"
  /\ pending' = pending \ {"CHLD"}
  /\ chld' = "wait"
  /\ UNCHANGED <<jobVars, proc, unreported, pc, locals, masked, got, status, bounds>>

\* waitpid has found a child: the loop's body is next.
SigchldWait(p) ==
  /\ Alive /\ chld = "wait"
  /\ Reap(p)
  /\ chld' = "act"
  /\ got' = p
  /\ status' = IF proc[p] = "zombie" THEN "dead" ELSE "stopped"
  /\ UNCHANGED <<jobVars, pc, locals, masked, bounds>>

\* getjobpid(jobs, pid)->state = ST, which dereferences NULL without an entry.
MarkStopped ==
  /\ UNCHANGED nextjid
  /\ \/ /\ \E i \in getjobpid(got) : jobs' = [jobs EXCEPT ![i].state = "ST"]
        /\ UNCHANGED pc
     \/ getjobpid(got) = {} /\ pc' = "segv_chld" /\ UNCHANGED jobs

\* Mutant: one waitpid per signal, if instead of while.
SigchldActOnce ==
  /\ Alive /\ chld = "act"
  /\ \/ status = "dead" /\ deletejob(got) /\ UNCHANGED pc
     \/ status = "stopped" /\ MarkStopped
  /\ chld' = "idle" /\ got' = NoPid /\ status' = "dead"
  /\ UNCHANGED <<kernelVars, locals, masked, bounds>>

\* Mutant: a dead child stays in the list.
SigchldActNoDelete ==
  /\ Alive /\ chld = "act"
  /\ \/ status = "dead" /\ UNCHANGED <<jobVars, pc>>
     \/ status = "stopped" /\ MarkStopped
  /\ chld' = "wait" /\ got' = NoPid /\ status' = "dead"
  /\ UNCHANGED <<kernelVars, locals, masked, bounds>>

\* The child is deleted from the list, or its entry is marked ST.
SigchldAct ==
  /\ Alive /\ chld = "act"
  /\ \/ status = "dead" /\ deletejob(got) /\ UNCHANGED pc
     \/ status = "stopped" /\ MarkStopped
  /\ chld' = "wait" /\ got' = NoPid /\ status' = "dead"
  /\ UNCHANGED <<kernelVars, locals, masked, bounds>>

\* waitpid has found nothing: the handler returns.
SigchldReturn ==
  /\ Alive /\ chld = "wait"
  /\ Waitable = {}
  /\ chld' = "idle"
  /\ UNCHANGED <<jobVars, kernelVars, pc, locals, masked, got, status, bounds>>

-----------------------------------------------------------------------------
(***************************************************************************)
(* The user's keyboard and the children.                                    *)
(***************************************************************************)
Key(s) ==
  /\ Alive /\ signals < MaxSignals
  /\ pending' = pending \cup {s}
  /\ signals' = signals + 1
  /\ UNCHANGED <<jobVars, proc, unreported, pc, locals, masked, handlerVars, forks>>

Child(p) ==
  /\ Alive
  /\ ChildStep(p)
  /\ UNCHANGED <<jobVars, pc, locals, masked, handlerVars, bounds>>

ChildStops(p) ==
  /\ Alive /\ signals < MaxSignals
  /\ proc[p] = "running"
  /\ Stop(p, pending)
  /\ signals' = signals + 1
  /\ UNCHANGED <<jobVars, pc, locals, masked, handlerVars, forks>>

-----------------------------------------------------------------------------
Main ==
  \/ \E p \in Pids : EvalFork(p)
  \/ EvalAdd
  \/ Announce
  \/ WaitfgReturn
  \/ Quit
  \/ NothingToDo
  \/ \E i \in Slots, c \in {"fg", "bg"} : BgfgCont(c, i)
  \/ BgfgSet
  \/ \E k \in JidArgs : KillByJid(k)
  \/ \E p \in Pids : KillByPid(p)
  \/ KillSend
  \/ KillClear
  \/ KillNext

Sigchld ==
  \/ \E p \in Pids : SigchldWait(p)
  \/ SigchldAct
  \/ SigchldReturn

Handlers ==
  \/ SigintHandler
  \/ SigtstpHandler
  \/ SigquitHandler
  \/ SigchldEnter
  \/ Sigchld

Environment ==
  \/ \E s \in {"INT", "TSTP"} : Key(s)
  \/ \E p \in Pids : Child(p) \/ ChildStops(p)

Next == Main \/ Handlers \/ Environment

(***************************************************************************)
(* The kernel delivers a pending signal as soon as it is not masked, a      *)
(* running handler goes on, and main goes on in between: signals cannot     *)
(* keep it from ever being scheduled.  Nothing makes the user type or a     *)
(* child move; but children stop finitely often (MaxSignals), so they do    *)
(* not keep sigchld_handler in its loop for ever.                           *)
(***************************************************************************)
Fairness ==
  /\ SF_vars(SigchldEnter)
  /\ WF_vars(Sigchld)
  /\ SF_vars(pc # "prompt" /\ Main)

Spec == Init /\ [][Next]_vars

FairSpec == Spec /\ Fairness

-----------------------------------------------------------------------------
(***************************************************************************)
(* Type correctness of the state that main, the handlers and the kernel     *)
(* share.                                                                   *)
(***************************************************************************)
TypeOK ==
  /\ JobsTypeOK
  /\ KernelTypeOK
  /\ pc \in MainPoints
  /\ cmd \in {"fg", "bg"} /\ piped \in BOOLEAN /\ isBGtask \in BOOLEAN
  /\ pid \in Pids \cup {NoPid} /\ job \in Slots /\ max \in Nat
  /\ masked \in BOOLEAN
  /\ chld \in {"idle", "wait", "act"}
  /\ got \in Pids \cup {NoPid} /\ status \in {"dead", "stopped"}
  /\ forks \in 0 .. MaxForks /\ signals \in 0 .. MaxSignals

\* A child that died or stopped is never forgotten, however its signal merged
\* with others or arrived while the handler ran: a SIGCHLD is still pending,
\* or sigchld_handler will call waitpid again (the while loop).
NoLostChild ==
  Alive /\ Waitable # {} => "CHLD" \in pending \/ chld # "idle"

\* The list never names a child that is gone: main masks the signals from
\* fork to addjob, so no child is reaped before it is listed.
TableFaithful ==
  \A i \in Slots :
    jobs[i].pid # NoPid =>
      \/ proc[jobs[i].pid] # "free"
      \/ chld = "act" /\ status = "dead" /\ got = jobs[i].pid

\* Every live foreground entry is the job main is waiting for in waitfg; so
\* the shell never prompts, and never runs a command, with one in the list.
FgIsAwaited ==
  \A i \in Slots :
    Alive /\ jobs[i].state = "FG" /\ jobs[i].pid # NoPid =>
      pc = "waitfg" /\ pid = jobs[i].pid

\* Job IDs name one job each until the counter has wrapped around, although
\* kill_job's deletejob may be interrupted by the handler's.
JidsUnique ==
  forks <= MAXJOBS =>
    \A i, k \in Slots : jobs[i].jid = jobs[k].jid /\ jobs[i].jid # 0 => i = k

(***************************************************************************)
(* The inductive invariant behind the safety properties: what masking the   *)
(* signals gives eval, and what sigchld_handler holds between waitpid and   *)
(* the update of the list.                                                  *)
(***************************************************************************)
\* While the signals are masked sigchld_handler does not run.
MaskInv ==
  /\ pc = "add" => masked
  /\ masked => chld = "idle"

\* Between fork and addjob the new child cannot be reaped, and is not listed.
NewChildInv ==
  pc = "add" =>
    /\ pid \in Pids /\ proc[pid] # "free"
    /\ \A i \in Slots : jobs[i].pid # pid

\* A child that waitpid has reported dead is gone.
ReapedInv ==
  chld = "act" => got \in Pids /\ (status = "dead" => proc[got] = "free")

\* What the safety of the list and of the processes rests on.
ListInv ==
  /\ TypeOK
  /\ MaskInv
  /\ NewChildInv
  /\ ReapedInv
  /\ TableFaithful
  /\ PidsUnique
  /\ NoLostChild
  /\ FgIsAwaited

\* Until addjob has been called MAXJOBS times, nextjid is above every job ID and
\* not above the next; so is what kill_job's deletejob is about to set it to,
\* although the handler's deletejob may have lowered it in between.
Added == IF pc = "add" THEN forks - 1 ELSE forks
NextIsFresh ==
  forks <= MAXJOBS =>
    /\ Added < MAXJOBS =>
         nextjid <= Added + 1 /\ \A i \in Slots : jobs[i].jid < nextjid
    /\ pc = "knext" =>
         /\ Added < MAXJOBS => max <= Added
         /\ \A i \in Slots : jobs[i].jid <= max

\* The conjunction TLC checks and the theorems are derived from.
IInv == ListInv /\ NextIsFresh /\ JidsUnique

\* Every dead child is reaped while the shell is there.
ZombieReaped ==
  \A p \in Pids : proc[p] = "zombie" ~> proc[p] # "zombie" \/ ~Alive

\* waitfg returns once the process it waits for has ended.
ForegroundReturns ==
  pc = "waitfg" /\ pid \notin Live ~> pc # "waitfg" \/ pid \in Live

\* sigint_handler: "Catch it and send it along to the foreground job."  A
\* child that has not called setpgid and execvp does not get it: the code does
\* not keep what its comment says.
CtrlCReachesJob ==
  [][\A p \in Pids : SigintHandler /\ fgpid(p) => proc[p] # "forked"]_vars

==============================================================================
