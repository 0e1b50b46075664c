----------------------------- MODULE ShellProofs -----------------------------
(***************************************************************************)
(* Proofs about the shell, for any number of processes, any size of the job *)
(* list and any bounds.  The lemmas say what the kernel does, that each     *)
(* step keeps the list true to the children (ListInv), and that each keeps  *)
(* the job IDs apart until nextjid wraps around (IInv); the theorems derive *)
(* the safety properties of Shell from these.                               *)
(***************************************************************************)
EXTENDS Shell, JobListUse, Integers, TLAPS

-----------------------------------------------------------------------------
(***************************************************************************)
(* What the helper routines of the job list find and what they change, for  *)
(* any list.                                                                *)
(***************************************************************************)

\* getjobpid finds the entry that has a pid, when only one has it.
LEMMA GetjobpidFinds ==
  ASSUME PidsUnique, NEW k \in Slots, jobs[k].pid # NoPid
  PROVE  getjobpid(jobs[k].pid) = {k}
<1>1. {i \in Slots : jobs[i].pid = jobs[k].pid /\ jobs[k].pid # NoPid} = {k}
  BY DEF PidsUnique
<1>2. k <= k
  BY MaxJobsAssumption DEF Slots
<1> QED  BY <1>1, <1>2 DEF getjobpid, First

\* getjobpid only finds entries of that pid.
LEMMA GetjobpidSound ==
  ASSUME NEW p, NEW i \in getjobpid(p)
  PROVE  i \in Slots /\ jobs[i].pid = p /\ p # NoPid
BY DEF getjobpid, First

\* The entry that NoJob leaves, and one that addjob writes, are well typed.
LEMMA JobTyped ==
  /\ NoJob \in Job
  /\ \A p \in Pids, j \in Nat, st \in JobStates :
       [pid |-> p, jid |-> j, state |-> st] \in Job
BY DEF NoJob, Job, JobStates

\* addjob fills an unused entry, or leaves a full list alone.
LEMMA AddjobEffect ==
  ASSUME JobsTypeOK, NEW p \in Pids, NEW st \in JobStates, addjob(p, st)
  PROVE  /\ JobsTypeOK'
         /\ \/ jobs' = jobs
            \/ \E i \in Slots :
                 /\ jobs[i].pid = NoPid
                 /\ jobs' = [jobs EXCEPT ![i] = [pid |-> p, jid |-> nextjid, state |-> st]]
<1>1. CASE UNCHANGED <<jobs, nextjid>>
  BY <1>1 DEF JobsTypeOK
<1>2. ASSUME NEW i \in First({k \in Slots : jobs[k].pid = NoPid}),
             jobs' = [jobs EXCEPT ![i] = [pid |-> p, jid |-> nextjid, state |-> st]],
             nextjid' = IF nextjid + 1 > MAXJOBS THEN 1 ELSE nextjid + 1
      PROVE  /\ JobsTypeOK'
             /\ i \in Slots /\ jobs[i].pid = NoPid
  <2>1. i \in Slots /\ jobs[i].pid = NoPid
    BY DEF First
  <2>2. [pid |-> p, jid |-> nextjid, state |-> st] \in Job
    BY JobTyped DEF JobsTypeOK
  <2>3. jobs' \in [Slots -> Job]
    BY <1>2, <2>2 DEF JobsTypeOK
  <2>4. nextjid' \in Nat \ {0}
    BY <1>2 DEF JobsTypeOK
  <2> QED  BY <2>1, <2>3, <2>4 DEF JobsTypeOK
<1> QED  BY <1>1, <1>2 DEF addjob

\* deletejob empties the entry of a process and touches no other.
LEMMA DeletejobEffect ==
  ASSUME JobsTypeOK, PidsUnique, NEW p \in Pids, deletejob(p)
  PROVE  /\ JobsTypeOK'
         /\ \A i \in Slots : jobs'[i] = IF jobs[i].pid = p THEN NoJob ELSE jobs[i]
<1>0. p # NoPid
  BY NoPidAssumption
<1>1. CASE getjobpid(p) = {} /\ UNCHANGED <<jobs, nextjid>>
  <2>1. \A i \in Slots : jobs[i].pid # p
    BY <1>0, <1>1, GetjobpidFinds
  <2> QED  BY <1>1, <2>1 DEF JobsTypeOK
<1>2. ASSUME NEW i \in getjobpid(p), clearjob(i),
             NEW m \in maxjid(jobs'), nextjid' = m + 1
      PROVE  /\ JobsTypeOK'
             /\ \A k \in Slots : jobs'[k] = IF jobs[k].pid = p THEN NoJob ELSE jobs[k]
  <2>1. i \in Slots /\ jobs[i].pid = p
    BY GetjobpidSound
  <2>2. jobs' = [jobs EXCEPT ![i] = NoJob]
    BY <1>2 DEF clearjob
  <2>3. jobs' \in [Slots -> Job]
    BY <2>1, <2>2, JobTyped DEF JobsTypeOK
  <2>4. m \in Nat
    BY <2>3 DEF maxjid, Job
  <2>5. \A k \in Slots : jobs[k].pid = p => k = i
    BY <1>0, <2>1 DEF PidsUnique
  <2>6. \A k \in Slots : jobs'[k] = IF jobs[k].pid = p THEN NoJob ELSE jobs[k]
    BY <2>1, <2>2, <2>5 DEF JobsTypeOK
  <2> QED  BY <1>2, <2>3, <2>4, <2>6 DEF JobsTypeOK
<1> QED  BY <1>1, <1>2 DEF deletejob

-----------------------------------------------------------------------------
(***************************************************************************)
(* The kernel.  What the steps of children and the kill calls have in       *)
(* common: no child appears or goes, and one that waitpid could not return  *)
(* before but can now has sent a SIGCHLD.                                   *)
(***************************************************************************)
KernelSafe(q) ==
  /\ KernelTypeOK'
  /\ \A p \in Pids : proc'[p] = "free" <=> proc[p] = "free"
  /\ Waitable' \subseteq Waitable \/ "CHLD" \in pending'
  /\ q \subseteq pending'

LEMMA DieSafe ==
  ASSUME KernelTypeOK, NEW p, NEW q \in SUBSET Signals, Die(p, q),
         p \in Pids => proc[p] # "free"
  PROVE  KernelSafe(q)
BY DEF KernelSafe, KernelTypeOK, Die, Signals

LEMMA StopSafe ==
  ASSUME KernelTypeOK, NEW p \in Pids, NEW q \in SUBSET Signals, Stop(p, q),
         proc[p] # "free"
  PROVE  KernelSafe(q)
BY DEF KernelSafe, KernelTypeOK, Stop, Signals

LEMMA ContinueSafe ==
  ASSUME KernelTypeOK, NEW p, NEW q \in SUBSET Signals, Continue(p, q),
         p \in Pids => proc[p] # "free"
  PROVE  KernelSafe(q)
BY DEF KernelSafe, KernelTypeOK, Continue, Signals

LEMMA LostSafe ==
  ASSUME KernelTypeOK, NEW q \in SUBSET Signals, Lost(q)
  PROVE  KernelSafe(q)
BY DEF KernelSafe, KernelTypeOK, Lost, Waitable

LEMMA SendIntSafe ==
  ASSUME KernelTypeOK, NEW p \in Pids \cup {NoPid}, NEW q \in SUBSET Signals,
         SendInt(p, q)
  PROVE  KernelSafe(q)
<1>1. CASE proc[p] = "running" /\ Die(p, q)
  BY <1>1, DieSafe
<1>2. CASE /\ proc[p] = "stopped"
           /\ proc' = [proc EXCEPT ![p] = "doomed"]
           /\ pending' = q
           /\ UNCHANGED unreported
  BY <1>2 DEF KernelSafe, KernelTypeOK, Waitable
<1>3. CASE Lost(q)
  BY <1>3, LostSafe
<1> QED  BY <1>1, <1>2, <1>3 DEF SendInt

LEMMA SendTstpSafe ==
  ASSUME KernelTypeOK, NEW p \in Pids, NEW q \in SUBSET Signals, SendTstp(p, q)
  PROVE  KernelSafe(q)
<1>1. CASE proc[p] = "running" /\ Stop(p, q)
  BY <1>1, StopSafe
<1>2. CASE Lost(q)
  BY <1>2, LostSafe
<1> QED  BY <1>1, <1>2 DEF SendTstp

LEMMA SendContSafe ==
  ASSUME KernelTypeOK, NEW p \in Pids \cup {NoPid}, NEW q \in SUBSET Signals,
         SendCont(p, q)
  PROVE  KernelSafe(q)
<1>1. CASE proc[p] \in {"stopped", "doomed"} /\ Continue(p, q)
  BY <1>1, ContinueSafe
<1>2. CASE proc[p] = "doomed" /\ Die(p, q)
  BY <1>2, DieSafe
<1>3. CASE Lost(q)
  BY <1>3, LostSafe
<1> QED  BY <1>1, <1>2, <1>3 DEF SendCont

LEMMA ChildStepSafe ==
  ASSUME KernelTypeOK, NEW p \in Pids, ChildStep(p)
  PROVE  KernelSafe(pending)
<1>0. pending \in SUBSET Signals
  BY DEF KernelTypeOK
<1>1. CASE Exec(p)
  BY <1>1 DEF Exec, KernelSafe, KernelTypeOK, Waitable
<1>2. CASE p \in Live /\ Die(p, pending)
  BY <1>0, <1>2, DieSafe DEF Live
<1>3. CASE SendCont(p, pending)
  BY <1>0, <1>3, SendContSafe
<1> QED  BY <1>1, <1>2, <1>3 DEF ChildStep

-----------------------------------------------------------------------------
(***************************************************************************)
(* The inductive invariant.                                                 *)
(***************************************************************************)
\* A step of the kernel alone, on behalf of a child or of a keyboard handler.
LEMMA KernelFrame ==
  ASSUME ListInv, NEW q \in SUBSET Signals, KernelSafe(q),
         "CHLD" \in pending => "CHLD" \in q,
         UNCHANGED <<jobVars, pc, locals, masked, handlerVars>>,
         forks' \in 0 .. MaxForks, signals' \in 0 .. MaxSignals
  PROVE  ListInv'
<1> USE DEF jobVars, locals, handlerVars
<1>1. TypeOK'
  BY DEF ListInv, TypeOK, JobsTypeOK, KernelSafe, KernelTypeOK
<1>2. MaskInv' /\ PidsUnique' /\ FgIsAwaited'
  BY DEF ListInv, MaskInv, PidsUnique, FgIsAwaited, Alive
<1>3. NewChildInv'
  BY DEF ListInv, NewChildInv, KernelSafe
<1>4. ReapedInv'
  BY DEF ListInv, ReapedInv, KernelSafe
<1>5. TableFaithful'
  BY DEF ListInv, TableFaithful, KernelSafe, TypeOK, JobsTypeOK, Job
<1>6. NoLostChild'
  BY DEF ListInv, NoLostChild, KernelSafe, Alive
<1> QED  BY <1>1, <1>2, <1>3, <1>4, <1>5, <1>6 DEF ListInv

\* A step that moves main to a point where no job is in the foreground, and
\* changes its locals only.
LEMMA MainFrame ==
  ASSUME ListInv,
         UNCHANGED <<jobVars, kernelVars, masked, handlerVars, bounds>>,
         TypeOK', pc' # "add",
         \A i \in Slots :
           jobs[i].state = "FG" /\ jobs[i].pid # NoPid /\ pc' \notin Stopped =>
             pc' = "waitfg" /\ pid' = jobs[i].pid,
         Alive
  PROVE  ListInv'
<1> USE DEF jobVars, kernelVars, handlerVars
<1>1. MaskInv' /\ NewChildInv' /\ ReapedInv' /\ PidsUnique'
  BY DEF ListInv, MaskInv, NewChildInv, ReapedInv, PidsUnique
<1>2. TableFaithful' /\ NoLostChild'
  BY DEF ListInv, TableFaithful, NoLostChild, Waitable, Alive
<1>3. FgIsAwaited'
  BY DEF FgIsAwaited, Alive
<1> QED  BY <1>1, <1>2, <1>3 DEF ListInv

\* The initial state.
LEMMA InitListInv == Init => ListInv
<1> SUFFICES ASSUME Init PROVE ListInv
  OBVIOUS
<1> USE DEF Init, initjobs, KernelInit
<1>1. jobs \in [Slots -> Job]
  BY JobTyped
<1>2. TypeOK
  <2>1. JobsTypeOK
    BY <1>1 DEF JobsTypeOK
  <2>2. KernelTypeOK
    BY DEF KernelTypeOK
  <2>3. 1 \in Slots /\ 0 \in 0 .. MaxForks /\ 0 \in 0 .. MaxSignals /\ 0 \in Nat
    BY BoundsAssumption, MaxJobsAssumption DEF Slots
  <2> QED  BY <2>1, <2>2, <2>3 DEF TypeOK, MainPoints
<1>3. MaskInv /\ NewChildInv /\ ReapedInv
  BY DEF MaskInv, NewChildInv, ReapedInv
<1>4. TableFaithful /\ PidsUnique /\ FgIsAwaited
  BY DEF TableFaithful, PidsUnique, FgIsAwaited, NoJob
<1>5. NoLostChild
  BY DEF NoLostChild, Waitable
<1> QED  BY <1>2, <1>3, <1>4, <1>5 DEF ListInv

\* main's steps in eval and waitfg.
LEMMA EvalForkStep ==
  ASSUME ListInv, NEW p \in Pids, EvalFork(p)
  PROVE  ListInv'
<1> USE DEF EvalFork, Command, MainRuns, Fork, jobVars, handlerVars
<1>1. TypeOK'
  <2>1. forks' \in 0 .. MaxForks
    BY BoundsAssumption DEF ListInv, TypeOK
  <2>2. JobsTypeOK' /\ KernelTypeOK'
    BY DEF ListInv, TypeOK, JobsTypeOK, KernelTypeOK
  <2> QED  BY <2>1, <2>2 DEF ListInv, TypeOK, MainPoints
<1>2. MaskInv' /\ ReapedInv' /\ PidsUnique'
  BY DEF ListInv, MaskInv, ReapedInv, PidsUnique
<1>3. \A i \in Slots : jobs[i].pid # p
  BY NoPidAssumption DEF ListInv, TableFaithful
<1>4. NewChildInv'
  BY <1>3 DEF NewChildInv, ListInv, TypeOK, KernelTypeOK
<1>5. TableFaithful'
  BY <1>3 DEF ListInv, TableFaithful, TypeOK, KernelTypeOK
<1>6. NoLostChild'
  BY DEF ListInv, NoLostChild, Waitable, TypeOK, KernelTypeOK, Alive
<1>7. FgIsAwaited'
  BY DEF ListInv, FgIsAwaited, Alive
<1> QED  BY <1>1, <1>2, <1>4, <1>5, <1>6, <1>7 DEF ListInv

LEMMA EvalAddStep ==
  ASSUME ListInv, EvalAdd
  PROVE  ListInv'
<1> USE DEF EvalAdd, MainRuns, kernelVars, locals, handlerVars, bounds
<1> DEFINE st == IF isBGtask THEN "BG" ELSE "FG"
<1>1. pid \in Pids /\ st \in JobStates
  BY DEF ListInv, NewChildInv, JobStates
<1>2. /\ JobsTypeOK'
      /\ \/ jobs' = jobs
         \/ \E i \in Slots :
              /\ jobs[i].pid = NoPid
              /\ jobs' = [jobs EXCEPT ![i] = [pid |-> pid, jid |-> nextjid, state |-> st]]
  BY <1>1, AddjobEffect DEF ListInv, TypeOK
<1>3. \A i \in Slots :
        \/ jobs'[i] = jobs[i]
        \/ jobs'[i].pid = pid /\ jobs'[i].state = st
  BY <1>2 DEF ListInv, TypeOK, JobsTypeOK
<1>4. TypeOK'
  BY <1>2 DEF ListInv, TypeOK, KernelTypeOK, MainPoints
<1>5. MaskInv' /\ NewChildInv' /\ ReapedInv'
  BY DEF ListInv, MaskInv, NewChildInv, ReapedInv
<1>6. TableFaithful'
  BY <1>3 DEF ListInv, TableFaithful, NewChildInv
<1>7. PidsUnique'
  BY <1>1, <1>2 DEF ListInv, PidsUnique, NewChildInv, TypeOK, JobsTypeOK
<1>8. NoLostChild'
  BY DEF ListInv, NoLostChild, Waitable, Alive
<1>9. FgIsAwaited'
  BY <1>3 DEF ListInv, FgIsAwaited, Alive, Stopped
<1> QED  BY <1>4, <1>5, <1>6, <1>7, <1>8, <1>9 DEF ListInv

\* A command that is done, or whose right side is next, leaves typed locals.
LEMMA ReturnTyped ==
  ASSUME ListInv, Return \/ Finish,
         UNCHANGED <<masked, handlerVars, bounds>>, JobsTypeOK', KernelTypeOK'
  PROVE  TypeOK' /\ pc' \in {"prompt", "rhs"}
<1> USE DEF handlerVars, bounds
<1>0. 1 \in Slots
  BY MaxJobsAssumption DEF Slots
<1>1. CASE Return
  BY <1>0, <1>1 DEF ListInv, TypeOK, Return, MainPoints
<1>2. CASE pc' = "rhs" /\ UNCHANGED locals
  BY <1>2 DEF ListInv, TypeOK, MainPoints, locals
<1> QED  BY <1>1, <1>2 DEF Finish

LEMMA AnnounceStep ==
  ASSUME ListInv, Announce
  PROVE  ListInv'
<1> USE DEF Announce, MainRuns, jobVars, kernelVars
<1>0. JobsTypeOK' /\ KernelTypeOK'
  BY DEF ListInv, TypeOK, JobsTypeOK, KernelTypeOK
<1>1. CASE pc' = "segv_announce" /\ UNCHANGED locals
  <2>1. TypeOK'
    BY <1>0, <1>1 DEF ListInv, TypeOK, MainPoints, Stopped, locals, handlerVars, bounds
  <2> QED  BY <1>1, <2>1, MainFrame DEF Stopped
<1>2. CASE Finish
  <2>1. TypeOK' /\ pc' \in {"prompt", "rhs"}
    BY <1>0, <1>2, ReturnTyped
  <2> QED  BY <2>1, MainFrame DEF ListInv, FgIsAwaited
<1> QED  BY <1>1, <1>2

\* No foreground job is left when waitfg's loop ends.
LEMMA WaitfgReturnStep ==
  ASSUME ListInv, WaitfgReturn
  PROVE  ListInv'
<1> USE DEF WaitfgReturn, MainRuns, jobVars, kernelVars
<1>1. TypeOK' /\ pc' \in {"prompt", "rhs"}
  BY ReturnTyped DEF ListInv, TypeOK, JobsTypeOK, KernelTypeOK
<1>2. ASSUME NEW i \in Slots, jobs[i].state = "FG", jobs[i].pid # NoPid
      PROVE  FALSE
  <2>1. pid = jobs[i].pid
    BY <1>2 DEF ListInv, FgIsAwaited
  <2>2. getjobpid(pid) = {i}
    BY <1>2, <2>1, GetjobpidFinds DEF ListInv
  <2> QED  BY <1>2, <2>2
<1> QED  BY <1>1, <1>2, MainFrame

LEMMA QuitStep ==
  ASSUME ListInv, Quit \/ SigquitHandler
  PROVE  ListInv'
<1> USE DEF Quit, SigquitHandler, Command, MainRuns, jobVars, kernelVars, locals, handlerVars, bounds
<1>1. pc' = "exited" /\ Alive
  OBVIOUS
<1>2. TypeOK'
  BY DEF ListInv, TypeOK, JobsTypeOK, KernelTypeOK, MainPoints, Stopped
<1> QED  BY <1>1, <1>2, MainFrame DEF Stopped

LEMMA NothingToDoStep ==
  ASSUME ListInv, NothingToDo
  PROVE  ListInv'
<1> USE DEF NothingToDo, MainRuns, jobVars, kernelVars
<1>1. TypeOK' /\ pc' \in {"prompt", "rhs"}
  BY ReturnTyped DEF ListInv, TypeOK, JobsTypeOK, KernelTypeOK
<1> QED  BY <1>1, MainFrame DEF ListInv, FgIsAwaited

\* main's steps in the builtins.
LEMMA BgfgContStep ==
  ASSUME ListInv, NEW c \in {"fg", "bg"}, NEW i \in Slots, BgfgCont(c, i)
  PROVE  ListInv'
<1> USE DEF BgfgCont, Command, MainRuns, jobVars, handlerVars, bounds
<1>1. KernelSafe(pending)
  <2>1. jobs[i].pid \in Pids \cup {NoPid}
    BY DEF ListInv, TypeOK, JobsTypeOK, Job
  <2>2. pending \in SUBSET Signals /\ KernelTypeOK
    BY DEF ListInv, TypeOK, KernelTypeOK
  <2> QED  BY <2>1, <2>2, SendContSafe
<1>2. TypeOK'
  BY <1>1 DEF ListInv, TypeOK, JobsTypeOK, KernelSafe, MainPoints
<1>3. MaskInv' /\ NewChildInv' /\ PidsUnique'
  BY DEF ListInv, MaskInv, NewChildInv, PidsUnique
<1>4. ReapedInv' /\ TableFaithful'
  BY <1>1 DEF ListInv, ReapedInv, TableFaithful, KernelSafe, TypeOK, JobsTypeOK, Job
<1>5. NoLostChild'
  BY <1>1 DEF ListInv, NoLostChild, KernelSafe, Alive
<1>6. FgIsAwaited'
  BY DEF ListInv, FgIsAwaited, Alive
<1> QED  BY <1>2, <1>3, <1>4, <1>5, <1>6 DEF ListInv

LEMMA BgfgSetStep ==
  ASSUME ListInv, BgfgSet
  PROVE  ListInv'
<1> USE DEF BgfgSet, MainRuns, kernelVars, handlerVars, bounds
<1> DEFINE st == IF cmd = "fg" THEN "FG" ELSE "BG"
<1>1. job \in Slots /\ st \in JobStates
  BY DEF ListInv, TypeOK, JobStates
<1>2. \A i \in Slots :
        /\ jobs'[i].pid = jobs[i].pid
        /\ jobs'[i].jid = jobs[i].jid
        /\ jobs'[i].state = IF i = job THEN st ELSE jobs[i].state
  BY <1>1 DEF ListInv, TypeOK, JobsTypeOK, Job
<1>3. JobsTypeOK' /\ KernelTypeOK'
  BY <1>1 DEF ListInv, TypeOK, JobsTypeOK, KernelTypeOK, Job
<1>4. TypeOK' /\ pc' \in {"prompt", "rhs", "waitfg"}
  <2>1. CASE cmd = "fg"
    BY <1>1, <1>3, <2>1 DEF ListInv, TypeOK, MainPoints, JobsTypeOK, Job
  <2>2. CASE Return
    BY <1>3, <2>2, ReturnTyped
  <2> QED  BY <2>1, <2>2
<1>5. MaskInv' /\ NewChildInv' /\ ReapedInv'
  BY <1>4 DEF ListInv, MaskInv, NewChildInv, ReapedInv
<1>6. TableFaithful' /\ PidsUnique'
  BY <1>2 DEF ListInv, TableFaithful, PidsUnique
<1>7. NoLostChild'
  BY DEF ListInv, NoLostChild, Waitable, Alive
<1>8. FgIsAwaited'
  <2>1. \A i \in Slots : jobs[i].state = "FG" => jobs[i].pid = NoPid
    BY DEF ListInv, FgIsAwaited
  <2> QED  BY <1>2, <2>1 DEF FgIsAwaited
<1> QED  BY <1>4, <1>5, <1>6, <1>7, <1>8 DEF ListInv

LEMMA KillLookupStep ==
  ASSUME ListInv,
         \/ \E k \in JidArgs : KillByJid(k)
         \/ \E p \in Pids : KillByPid(p)
  PROVE  ListInv'
<1> USE DEF Command, MainRuns, jobVars, kernelVars, handlerVars, bounds
<1>0. UNCHANGED <<jobVars, kernelVars, masked, handlerVars, bounds>> /\ Alive
  BY DEF KillByJid, KillByPid
<1>1. \/ \E i \in Slots : KillFound(i)
      \/ pc' = "segv_kill" /\ UNCHANGED locals
  BY DEF KillByJid, KillByPid, getjobjid, getjobpid, First
<1>2. TypeOK' /\ pc' \in {"ksend", "segv_kill"}
  <2>1. JobsTypeOK' /\ KernelTypeOK'
    BY <1>0 DEF ListInv, TypeOK, JobsTypeOK, KernelTypeOK
  <2>2. CASE \E i \in Slots : KillFound(i)
    BY <1>0, <2>1, <2>2 DEF ListInv, TypeOK, JobsTypeOK, Job, KillFound, MainPoints
  <2>3. CASE pc' = "segv_kill" /\ UNCHANGED locals
    BY <1>0, <2>1, <2>3 DEF ListInv, TypeOK, locals, MainPoints, Stopped
  <2> QED  BY <1>1, <2>2, <2>3
<1>3. \A i \in Slots : jobs[i].state = "FG" => jobs[i].pid = NoPid
  BY DEF ListInv, FgIsAwaited, KillByJid, KillByPid
<1> QED  BY <1>0, <1>2, <1>3, MainFrame

LEMMA KillSendStep ==
  ASSUME ListInv, KillSend
  PROVE  ListInv'
<1> USE DEF KillSend, MainRuns, jobVars, locals, handlerVars, bounds
<1>1. KernelSafe(pending)
  <2>1. pending \in SUBSET Signals /\ pending \cup {"INT"} \in SUBSET Signals
    BY DEF ListInv, TypeOK, KernelTypeOK, Signals
  <2>2. CASE KillOwnGroup("INT")
    BY <2>1, <2>2, LostSafe DEF KillOwnGroup, KernelSafe, ListInv, TypeOK
  <2>3. CASE SendInt(jobs[job].pid, pending)
    BY <2>1, <2>3, SendIntSafe DEF ListInv, TypeOK, JobsTypeOK, Job
  <2> QED  BY <2>2, <2>3
<1>2. TypeOK'
  BY <1>1 DEF ListInv, TypeOK, JobsTypeOK, KernelSafe, MainPoints
<1>3. MaskInv' /\ NewChildInv' /\ PidsUnique'
  BY DEF ListInv, MaskInv, NewChildInv, PidsUnique
<1>4. ReapedInv' /\ TableFaithful'
  BY <1>1 DEF ListInv, ReapedInv, TableFaithful, KernelSafe, TypeOK, JobsTypeOK, Job
<1>5. NoLostChild'
  BY <1>1 DEF ListInv, NoLostChild, KernelSafe, Alive
<1>6. FgIsAwaited'
  BY DEF ListInv, FgIsAwaited, Alive
<1> QED  BY <1>2, <1>3, <1>4, <1>5, <1>6 DEF ListInv

\* An entry that is emptied names no process.
LEMMA ClearedInv ==
  ASSUME ListInv, NEW i \in Slots, jobs' = [jobs EXCEPT ![i] = NoJob],
         UNCHANGED <<kernelVars, masked, handlerVars>>,
         Alive, pc # "add", pc' \notin {"add"} \cup Stopped, pc # "waitfg"
  PROVE  /\ MaskInv' /\ NewChildInv' /\ ReapedInv' /\ TableFaithful'
         /\ PidsUnique' /\ NoLostChild' /\ FgIsAwaited'
<1> USE DEF kernelVars, handlerVars
<1>1. \A k \in Slots : jobs'[k].pid = NoPid \/ jobs'[k] = jobs[k]
  BY DEF ListInv, TypeOK, JobsTypeOK, NoJob
<1>2. MaskInv' /\ NewChildInv' /\ ReapedInv'
  BY DEF ListInv, MaskInv, NewChildInv, ReapedInv
<1>3. TableFaithful' /\ PidsUnique'
  BY <1>1 DEF ListInv, TableFaithful, PidsUnique
<1>4. NoLostChild' /\ FgIsAwaited'
  BY <1>1 DEF ListInv, NoLostChild, FgIsAwaited, Waitable, Alive
<1> QED  BY <1>2, <1>3, <1>4

LEMMA KillClearStep ==
  ASSUME ListInv, KillClear
  PROVE  ListInv'
<1> USE DEF KillClear, MainRuns, kernelVars
<1>1. ASSUME NEW i \in getjobpid(pid), clearjob(i), max' \in maxjid(jobs'),
             pc' = "knext", UNCHANGED <<cmd, piped, isBGtask, pid, job>>
      PROVE  ListInv'
  <2>1. i \in Slots /\ jobs' = [jobs EXCEPT ![i] = NoJob]
    BY <1>1, GetjobpidSound DEF clearjob
  <2>2. JobsTypeOK' /\ max' \in Nat
    <3>1. jobs' \in [Slots -> Job]
      BY <2>1, JobTyped DEF ListInv, TypeOK, JobsTypeOK
    <3> QED  BY <1>1, <3>1 DEF ListInv, TypeOK, JobsTypeOK, maxjid, Job
  <2>3. TypeOK'
    BY <1>1, <2>2 DEF ListInv, TypeOK, KernelTypeOK, MainPoints, handlerVars, bounds
  <2> QED  BY <1>1, <2>1, <2>3, ClearedInv DEF ListInv, Stopped
<1>2. CASE UNCHANGED jobs /\ Return
  <2>1. TypeOK' /\ pc' \in {"prompt", "rhs"}
    BY <1>2, ReturnTyped DEF ListInv, TypeOK, JobsTypeOK, KernelTypeOK
  <2> QED  BY <1>2, <2>1, MainFrame DEF ListInv, FgIsAwaited, jobVars
<1> QED  BY <1>1, <1>2

LEMMA KillNextStep ==
  ASSUME ListInv, KillNext
  PROVE  ListInv'
<1> USE DEF KillNext, MainRuns, kernelVars, handlerVars
<1>1. TypeOK' /\ pc' \in {"prompt", "rhs"}
  BY ReturnTyped DEF ListInv, TypeOK, JobsTypeOK, KernelTypeOK
<1>2. MaskInv' /\ NewChildInv' /\ ReapedInv' /\ TableFaithful' /\ PidsUnique'
  BY <1>1 DEF ListInv, MaskInv, NewChildInv, ReapedInv, TableFaithful, PidsUnique
<1>3. NoLostChild' /\ FgIsAwaited'
  BY DEF ListInv, NoLostChild, FgIsAwaited, Waitable, Alive
<1> QED  BY <1>1, <1>2, <1>3 DEF ListInv

\* The handlers, the user and the children.
LEMMA KeyboardHandlerStep ==
  ASSUME ListInv, SigintHandler \/ SigtstpHandler
  PROVE  ListInv'
<1> USE DEF SigintHandler, SigtstpHandler
<1>0. KernelTypeOK
  BY DEF ListInv, TypeOK
<1> DEFINE Left(s) == pending \ {s}
<1>1. \A s \in Signals : Left(s) \in SUBSET Signals
  BY <1>0 DEF KernelTypeOK
<1>2. CASE SigintHandler
  <2>1. KernelSafe(Left("INT"))
    BY <1>0, <1>1, <1>2, LostSafe, SendIntSafe DEF Signals
  <2> QED  BY <1>1, <1>2, <2>1, KernelFrame DEF Signals, ListInv, TypeOK, bounds
<1>3. CASE SigtstpHandler
  <2>1. KernelSafe(Left("TSTP"))
    BY <1>0, <1>1, <1>3, LostSafe, SendTstpSafe DEF Signals
  <2> QED  BY <1>1, <1>3, <2>1, KernelFrame DEF Signals, ListInv, TypeOK, bounds
<1> QED  BY <1>2, <1>3

LEMMA SigchldEnterStep ==
  ASSUME ListInv, SigchldEnter
  PROVE  ListInv'
<1> USE DEF SigchldEnter, Deliverable, jobVars, locals, bounds
<1>1. TypeOK'
  BY DEF ListInv, TypeOK, JobsTypeOK, KernelTypeOK
<1>2. MaskInv' /\ NewChildInv' /\ ReapedInv' /\ TableFaithful' /\ PidsUnique'
  BY DEF ListInv, MaskInv, NewChildInv, ReapedInv, TableFaithful, PidsUnique
<1>3. NoLostChild' /\ FgIsAwaited'
  BY DEF ListInv, NoLostChild, FgIsAwaited, Alive
<1> QED  BY <1>1, <1>2, <1>3 DEF ListInv

LEMMA SigchldWaitStep ==
  ASSUME ListInv, NEW p \in Pids, SigchldWait(p)
  PROVE  ListInv'
<1> USE DEF SigchldWait, Reap, jobVars, locals, bounds
<1>1. TypeOK'
  BY DEF ListInv, TypeOK, JobsTypeOK, KernelTypeOK
<1>2. pc # "add"
  BY DEF ListInv, MaskInv
<1>3. MaskInv' /\ NewChildInv' /\ PidsUnique'
  BY <1>2 DEF ListInv, MaskInv, NewChildInv, PidsUnique
<1>4. ReapedInv'
  BY DEF ListInv, TypeOK, KernelTypeOK, ReapedInv
<1>5. TableFaithful'
  <2>1. \A i \in Slots : jobs[i].pid # NoPid => proc[jobs[i].pid] # "free"
    BY DEF ListInv, TableFaithful
  <2>2. \A r \in Pids : proc'[r] = proc[r] \/ (r = p /\ proc[p] = "zombie")
    BY DEF ListInv, TypeOK, KernelTypeOK
  <2> QED  BY <2>1, <2>2 DEF TableFaithful, ListInv, TypeOK, JobsTypeOK, Job
<1>6. NoLostChild' /\ FgIsAwaited'
  BY DEF ListInv, NoLostChild, FgIsAwaited, Alive
<1> QED  BY <1>1, <1>3, <1>4, <1>5, <1>6 DEF ListInv

\* The handler deletes the entry of a dead child: with it goes the exception
\* that TableFaithful makes for the child in the handler's hands.
LEMMA SigchldActStep ==
  ASSUME ListInv, SigchldAct
  PROVE  ListInv'
<1> USE DEF SigchldAct, kernelVars, locals, bounds
<1>0. pc # "add" /\ ~masked /\ got \in Pids /\ JobsTypeOK /\ PidsUnique
  BY DEF ListInv, MaskInv, ReapedInv, TypeOK
<1>1. CASE status = "dead" /\ deletejob(got) /\ UNCHANGED pc
  <2>1. /\ JobsTypeOK'
        /\ \A i \in Slots : jobs'[i] = IF jobs[i].pid = got THEN NoJob ELSE jobs[i]
    BY <1>0, <1>1, DeletejobEffect
  <2>2. TypeOK'
    BY <1>1, <2>1 DEF ListInv, TypeOK, KernelTypeOK
  <2>3. MaskInv' /\ NewChildInv' /\ ReapedInv'
    BY <1>0, <1>1 DEF MaskInv, NewChildInv, ReapedInv
  <2>4. TableFaithful' /\ PidsUnique' /\ FgIsAwaited'
    BY <1>1, <2>1 DEF ListInv, TableFaithful, PidsUnique, FgIsAwaited, NoJob, Alive
  <2>5. NoLostChild'
    BY DEF NoLostChild
  <2> QED  BY <2>2, <2>3, <2>4, <2>5 DEF ListInv
<1>2. CASE status = "stopped" /\ MarkStopped
  <2>1. /\ JobsTypeOK'
        /\ \A i \in Slots :
             /\ jobs'[i].pid = jobs[i].pid
             /\ jobs'[i].state = jobs[i].state \/ jobs'[i].state = "ST"
    <3>1. nextjid' = nextjid /\ "ST" \in JobStates
      BY <1>2 DEF MarkStopped, JobStates
    <3>2. CASE jobs' = jobs
      BY <1>0, <3>1, <3>2 DEF JobsTypeOK
    <3>3. ASSUME NEW i \in getjobpid(got), jobs' = [jobs EXCEPT ![i].state = "ST"]
          PROVE  /\ jobs' \in [Slots -> Job]
                 /\ \A k \in Slots :
                      /\ jobs'[k].pid = jobs[k].pid
                      /\ jobs'[k].state = jobs[k].state \/ jobs'[k].state = "ST"
      <4>1. i \in Slots
        BY GetjobpidSound
      <4> QED  BY <1>0, <3>1, <3>3, <4>1 DEF JobsTypeOK, Job
    <3>4. jobs' = jobs \/ \E i \in getjobpid(got) : jobs' = [jobs EXCEPT ![i].state = "ST"]
      BY <1>2 DEF MarkStopped
    <3>5. JobsTypeOK' <=> jobs' \in [Slots -> Job] /\ nextjid \in Nat \ {0}
      BY <3>1 DEF JobsTypeOK
    <3> QED  BY <1>0, <3>2, <3>3, <3>4, <3>5 DEF JobsTypeOK
  <2>2. pc' = pc \/ pc' = "segv_chld"
    BY <1>2 DEF MarkStopped
  <2>3. TypeOK'
    BY <2>1, <2>2 DEF ListInv, TypeOK, KernelTypeOK, MainPoints, Stopped
  <2>4. MaskInv' /\ NewChildInv' /\ ReapedInv'
    BY <1>0, <2>2 DEF MaskInv, NewChildInv, ReapedInv
  <2>5. TableFaithful' /\ PidsUnique' /\ FgIsAwaited'
    BY <1>2, <2>1, <2>2
    DEF ListInv, TableFaithful, PidsUnique, FgIsAwaited, Alive, Stopped
  <2>6. NoLostChild'
    BY DEF NoLostChild
  <2> QED  BY <2>3, <2>4, <2>5, <2>6 DEF ListInv
<1> QED  BY <1>1, <1>2

LEMMA SigchldReturnStep ==
  ASSUME ListInv, SigchldReturn
  PROVE  ListInv'
<1> USE DEF SigchldReturn, jobVars, kernelVars, locals, bounds
<1>1. TypeOK'
  BY DEF ListInv, TypeOK, JobsTypeOK, KernelTypeOK
<1>2. MaskInv' /\ NewChildInv' /\ ReapedInv' /\ TableFaithful' /\ PidsUnique'
  BY DEF ListInv, MaskInv, NewChildInv, ReapedInv, TableFaithful, PidsUnique
<1>3. NoLostChild' /\ FgIsAwaited'
  BY DEF ListInv, NoLostChild, Waitable, FgIsAwaited, Alive
<1> QED  BY <1>1, <1>2, <1>3 DEF ListInv

LEMMA EnvironmentStep ==
  ASSUME ListInv, Environment
  PROVE  ListInv'
<1>0. KernelTypeOK /\ pending \in SUBSET Signals
  BY DEF ListInv, TypeOK, KernelTypeOK
<1>1. ASSUME NEW s \in {"INT", "TSTP"}, Key(s)
      PROVE  ListInv'
  <2>1. pending \cup {s} \in SUBSET Signals
    BY <1>0 DEF Signals
  <2>2. KernelSafe(pending \cup {s})
    BY <1>0, <1>1, <2>1, LostSafe DEF Key, Lost
  <2>3. forks' \in 0 .. MaxForks /\ signals' \in 0 .. MaxSignals
    BY <1>1, BoundsAssumption DEF Key, ListInv, TypeOK
  <2> QED  BY <1>1, <2>1, <2>2, <2>3, KernelFrame DEF Key
<1>2. ASSUME NEW p \in Pids, Child(p)
      PROVE  ListInv'
  <2>1. KernelSafe(pending)
    BY <1>0, <1>2, ChildStepSafe DEF Child
  <2> QED  BY <1>0, <1>2, <2>1, KernelFrame DEF Child, ListInv, TypeOK, bounds
<1>3. ASSUME NEW p \in Pids, ChildStops(p)
      PROVE  ListInv'
  <2>1. KernelSafe(pending)
    BY <1>0, <1>3, StopSafe DEF ChildStops
  <2>2. forks' \in 0 .. MaxForks /\ signals' \in 0 .. MaxSignals
    BY <1>3, BoundsAssumption DEF ChildStops, ListInv, TypeOK
  <2> QED  BY <1>0, <1>3, <2>1, <2>2, KernelFrame DEF ChildStops
<1> QED  BY <1>1, <1>2, <1>3 DEF Environment

LEMMA StutterStep ==
  ASSUME ListInv, UNCHANGED vars
  PROVE  ListInv'
<1> USE DEF vars, jobVars, kernelVars, locals, handlerVars, bounds
<1>1. TypeOK'
  BY DEF ListInv, TypeOK, JobsTypeOK, KernelTypeOK
<1>2. MaskInv' /\ NewChildInv' /\ ReapedInv' /\ TableFaithful' /\ PidsUnique'
  BY DEF ListInv, MaskInv, NewChildInv, ReapedInv, TableFaithful, PidsUnique
<1>3. NoLostChild' /\ FgIsAwaited'
  BY DEF ListInv, NoLostChild, Waitable, FgIsAwaited, Alive
<1> QED  BY <1>1, <1>2, <1>3 DEF ListInv

LEMMA NextListInv == ListInv /\ [Next]_vars => ListInv'
<1> SUFFICES ASSUME ListInv, [Next]_vars PROVE ListInv'
  OBVIOUS
<1>1. CASE Main
  <2>1. CASE \E p \in Pids : EvalFork(p)
    BY <2>1, EvalForkStep
  <2>2. CASE EvalAdd
    BY <2>2, EvalAddStep
  <2>3. CASE Announce
    BY <2>3, AnnounceStep
  <2>4. CASE WaitfgReturn
    BY <2>4, WaitfgReturnStep
  <2>5. CASE Quit
    BY <2>5, QuitStep
  <2>6. CASE NothingToDo
    BY <2>6, NothingToDoStep
  <2>7. CASE \E i \in Slots, c \in {"fg", "bg"} : BgfgCont(c, i)
    BY <2>7, BgfgContStep
  <2>8. CASE BgfgSet
    BY <2>8, BgfgSetStep
  <2>9. CASE \/ \E k \in JidArgs : KillByJid(k)
             \/ \E p \in Pids : KillByPid(p)
    BY <2>9, KillLookupStep
  <2>10. CASE KillSend
    BY <2>10, KillSendStep
  <2>11. CASE KillClear
    BY <2>11, KillClearStep
  <2>12. CASE KillNext
    BY <2>12, KillNextStep
  <2> QED  BY <1>1, <2>1, <2>2, <2>3, <2>4, <2>5, <2>6, <2>7, <2>8, <2>9,
              <2>10, <2>11, <2>12 DEF Main
<1>2. CASE Handlers
  <2>1. CASE SigintHandler \/ SigtstpHandler
    BY <2>1, KeyboardHandlerStep
  <2>2. CASE SigquitHandler
    BY <2>2, QuitStep
  <2>3. CASE SigchldEnter
    BY <2>3, SigchldEnterStep
  <2>4. CASE \E p \in Pids : SigchldWait(p)
    BY <2>4, SigchldWaitStep
  <2>5. CASE SigchldAct
    BY <2>5, SigchldActStep
  <2>6. CASE SigchldReturn
    BY <2>6, SigchldReturnStep
  <2> QED  BY <1>2, <2>1, <2>2, <2>3, <2>4, <2>5, <2>6 DEF Handlers, Sigchld
<1>3. CASE Environment
  BY <1>3, EnvironmentStep
<1>4. CASE UNCHANGED vars
  BY <1>4, StutterStep
<1> QED  BY <1>1, <1>2, <1>3, <1>4 DEF Next

-----------------------------------------------------------------------------
(***************************************************************************)
(* Job IDs: nextjid stays fresh until addjob has been called MAXJOBS times. *)
(***************************************************************************)
Jids == NextIsFresh /\ JidsUnique

\* A step that gives out no job ID and leaves nextjid alone.
LEMMA JidsFrame ==
  ASSUME ListInv, Jids, UNCHANGED <<nextjid, forks>>,
         \A i \in Slots : jobs'[i].jid \in {jobs[i].jid, 0},
         pc' = "add" => pc = "add",
         pc' = "knext" => pc = "knext" /\ max' = max
  PROVE  Jids'
<1>1. /\ nextjid \in Nat \ {0} /\ max \in Nat /\ forks \in Nat
      /\ \A i \in Slots : jobs[i].jid \in Nat
  BY BoundsAssumption DEF ListInv, TypeOK, JobsTypeOK, Job
<1>2. MAXJOBS \in Nat
  BY MaxJobsAssumption
<1>3. ASSUME forks <= MAXJOBS, Added' < MAXJOBS
      PROVE  nextjid <= Added' + 1 /\ \A i \in Slots : jobs'[i].jid < nextjid
  <2>1. Added <= Added' /\ Added \in Int /\ Added' \in Int /\ Added < MAXJOBS
    BY <1>1, <1>2, <1>3 DEF Added
  <2>2. nextjid <= Added + 1 /\ \A i \in Slots : jobs[i].jid < nextjid
    BY <1>3, <2>1 DEF Jids, NextIsFresh
  <2>3. \A i \in Slots : jobs'[i].jid < nextjid
    BY <1>1, <2>2
  <2> QED  BY <1>1, <2>1, <2>2, <2>3
<1>4. ASSUME forks <= MAXJOBS, pc' = "knext"
      PROVE  (Added' < MAXJOBS => max' <= Added') /\ \A i \in Slots : jobs'[i].jid <= max'
  <2>1. Added' = Added /\ max' = max /\ pc = "knext"
    BY <1>4 DEF Added
  <2>2. (Added < MAXJOBS => max <= Added) /\ \A i \in Slots : jobs[i].jid <= max
    BY <1>4, <2>1 DEF Jids, NextIsFresh
  <2> QED  BY <1>1, <2>1, <2>2
<1>5. NextIsFresh'
  BY <1>3, <1>4 DEF NextIsFresh
<1>6. JidsUnique'
  BY DEF Jids, JidsUnique
<1> QED  BY <1>5, <1>6 DEF Jids

\* eval has forked a child that addjob has not seen yet.
LEMMA EvalForkJids ==
  ASSUME ListInv, Jids, NEW p \in Pids, EvalFork(p)
  PROVE  Jids'
<1>1. /\ UNCHANGED <<jobs, nextjid>> /\ forks' = forks + 1
      /\ pc' = "add" /\ pc # "add" /\ forks \in Nat
  BY BoundsAssumption DEF EvalFork, Command, jobVars, ListInv, TypeOK
<1>2. Added' = Added /\ (forks' <= MAXJOBS => forks <= MAXJOBS)
  BY <1>1, MaxJobsAssumption DEF Added
<1> QED  BY <1>1, <1>2 DEF Jids, NextIsFresh, JidsUnique

\* addjob gives out nextjid, which no job has; it sets it back to 1 only when
\* it is called for the last time.
LEMMA EvalAddJids ==
  ASSUME ListInv, Jids, EvalAdd
  PROVE  Jids'
<1> DEFINE st == IF isBGtask THEN "BG" ELSE "FG"
<1> SUFFICES ASSUME forks <= MAXJOBS
             PROVE  /\ Added' < MAXJOBS =>
                         nextjid' <= Added' + 1 /\ \A i \in Slots : jobs'[i].jid < nextjid'
                    /\ pc' # "knext"
                    /\ \A i, k \in Slots :
                         jobs'[i].jid = jobs'[k].jid /\ jobs'[i].jid # 0 => i = k
  BY DEF EvalAdd, bounds, Jids, NextIsFresh, JidsUnique
<1>1. /\ addjob(pid, st) /\ pc = "add" /\ pc' \in {"announce", "waitfg"} /\ forks' = forks
  BY DEF EvalAdd, bounds
<1>2. /\ nextjid \in Nat \ {0} /\ forks \in Nat /\ MAXJOBS \in Nat
      /\ jobs \in [Slots -> Job] /\ \A i \in Slots : jobs[i].jid \in Nat
  BY BoundsAssumption, MaxJobsAssumption DEF ListInv, TypeOK, JobsTypeOK, Job
<1>3. Added = forks - 1 /\ Added' = forks
  BY <1>1 DEF Added
<1>4. /\ nextjid <= forks /\ \A i \in Slots : jobs[i].jid < nextjid
      /\ \A i, k \in Slots : jobs[i].jid = jobs[k].jid /\ jobs[i].jid # 0 => i = k
  BY <1>2, <1>3 DEF Jids, NextIsFresh, JidsUnique
<1>5. CASE UNCHANGED <<jobs, nextjid>>
  BY <1>1, <1>2, <1>3, <1>4, <1>5
<1>6. ASSUME NEW i \in First({k \in Slots : jobs[k].pid = NoPid}),
             jobs' = [jobs EXCEPT ![i] = [pid |-> pid, jid |-> nextjid, state |-> st]],
             nextjid' = IF nextjid + 1 > MAXJOBS THEN 1 ELSE nextjid + 1
      PROVE  /\ forks < MAXJOBS =>
                   nextjid' <= forks + 1 /\ \A k \in Slots : jobs'[k].jid < nextjid'
             /\ \A k, l \in Slots :
                   jobs'[k].jid = jobs'[l].jid /\ jobs'[k].jid # 0 => k = l
  <2>1. i \in Slots
    BY DEF First
  <2>2. \A k \in Slots : jobs'[k].jid = IF k = i THEN nextjid ELSE jobs[k].jid
    BY <1>2, <1>6, <2>1
  <2>3. ASSUME forks < MAXJOBS
        PROVE  nextjid' <= forks + 1 /\ \A k \in Slots : jobs'[k].jid < nextjid'
    <3>1. nextjid' = nextjid + 1
      BY <1>2, <1>4, <1>6, <2>3
    <3> QED  BY <1>2, <1>4, <2>2, <3>1
  <2>4. \A k, l \in Slots : jobs'[k].jid = jobs'[l].jid /\ jobs'[k].jid # 0 => k = l
    BY <1>2, <1>4, <2>2
  <2> QED  BY <2>3, <2>4
<1> QED  BY <1>1, <1>3, <1>5, <1>6 DEF addjob

\* The largest job ID of a list that has lost jobs.
LEMMA MaxjidBounds ==
  ASSUME NEW js \in [Slots -> Job], NEW m \in maxjid(js)
  PROVE  /\ m \in Nat /\ \A i \in Slots : js[i].jid \in Nat /\ js[i].jid <= m
         /\ \E i \in Slots : m = js[i].jid
BY DEF maxjid, Job

\* The handler's deletejob lowers nextjid to one above the largest job ID that
\* is left, and leaves what kill_job has found above them all.
LEMMA DeleteJids ==
  ASSUME ListInv, Jids, SigchldAct, status = "dead"
  PROVE  Jids'
<1>1. /\ deletejob(got) /\ got \in Pids /\ UNCHANGED <<pc, forks, max>>
      /\ JobsTypeOK /\ PidsUnique /\ pc # "add"
  BY DEF SigchldAct, locals, bounds, ListInv, TypeOK, ReapedInv, MaskInv
<1>2. CASE UNCHANGED <<jobs, nextjid>>
  BY <1>1, <1>2, JidsFrame
<1>3. ASSUME NEW m \in maxjid(jobs'), nextjid' = m + 1
      PROVE  Jids'
  <2>1. /\ jobs' \in [Slots -> Job]
        /\ \A i \in Slots : jobs'[i].jid \in {jobs[i].jid, 0}
    BY <1>1, DeletejobEffect DEF JobsTypeOK, NoJob
  <2>2. /\ m \in Nat /\ \A i \in Slots : jobs'[i].jid \in Nat /\ jobs'[i].jid <= m
        /\ \E i \in Slots : m = jobs'[i].jid
    BY <2>1, MaxjidBounds
  <2>3. /\ nextjid \in Nat \ {0} /\ max \in Nat /\ forks \in Nat /\ MAXJOBS \in Nat
        /\ \A i \in Slots : jobs[i].jid \in Nat
    BY BoundsAssumption, MaxJobsAssumption DEF ListInv, TypeOK, JobsTypeOK, Job
  <2>4. Added' = Added /\ Added = forks
    BY <1>1 DEF Added
  <2>5. ASSUME forks <= MAXJOBS, Added < MAXJOBS
        PROVE  nextjid' <= Added + 1 /\ \A i \in Slots : jobs'[i].jid < nextjid'
    <3>1. nextjid <= Added + 1 /\ \A i \in Slots : jobs[i].jid < nextjid
      BY <2>5 DEF Jids, NextIsFresh
    <3>2. m < nextjid
      BY <2>1, <2>2, <2>3, <3>1
    <3> QED  BY <1>3, <2>2, <2>3, <2>4, <3>1, <3>2
  <2>6. ASSUME forks <= MAXJOBS, pc = "knext"
        PROVE  (Added < MAXJOBS => max <= Added) /\ \A i \in Slots : jobs'[i].jid <= max
    BY <2>1, <2>3, <2>6 DEF Jids, NextIsFresh
  <2>7. NextIsFresh'
    BY <1>1, <2>4, <2>5, <2>6 DEF NextIsFresh
  <2>8. JidsUnique'
    BY <1>1, <2>1 DEF Jids, JidsUnique
  <2> QED  BY <2>7, <2>8 DEF Jids
<1> QED  BY <1>1, <1>2, <1>3 DEF deletejob

\* kill_job's deletejob, in its two steps.
LEMMA KillJids ==
  ASSUME ListInv, Jids, KillClear \/ KillNext
  PROVE  Jids'
<1>1. /\ nextjid \in Nat \ {0} /\ max \in Nat /\ forks \in Nat /\ MAXJOBS \in Nat
      /\ jobs \in [Slots -> Job] /\ \A i \in Slots : jobs[i].jid \in Nat
  BY BoundsAssumption, MaxJobsAssumption DEF ListInv, TypeOK, JobsTypeOK, Job
<1>2. forks' = forks
  BY DEF KillClear, KillNext, bounds
<1>3. CASE KillClear /\ UNCHANGED jobs /\ Return
  BY <1>2, <1>3, JidsFrame DEF KillClear, Return
<1>4. ASSUME KillClear, NEW i \in getjobpid(pid), clearjob(i), max' \in maxjid(jobs'),
             pc' = "knext"
      PROVE  Jids'
  <2>1. i \in Slots /\ jobs' = [jobs EXCEPT ![i] = NoJob]
    BY <1>4, GetjobpidSound DEF clearjob
  <2>2. jobs' \in [Slots -> Job] /\ \A k \in Slots : jobs'[k].jid \in {jobs[k].jid, 0}
    BY <1>1, <2>1, JobTyped DEF NoJob
  <2>3. /\ max' \in Nat /\ \A k \in Slots : jobs'[k].jid \in Nat /\ jobs'[k].jid <= max'
        /\ \E k \in Slots : max' = jobs'[k].jid
    BY <1>4, <2>2, MaxjidBounds
  <2>4. /\ Added = forks /\ Added' = forks /\ nextjid' = nextjid
    BY <1>2, <1>4 DEF KillClear, Added
  <2>5. ASSUME forks <= MAXJOBS, forks < MAXJOBS
        PROVE  /\ nextjid <= forks + 1 /\ \A k \in Slots : jobs'[k].jid < nextjid
               /\ max' <= forks
    <3>1. nextjid <= forks + 1 /\ \A k \in Slots : jobs[k].jid < nextjid
      BY <2>4, <2>5 DEF Jids, NextIsFresh
    <3>2. \A k \in Slots : jobs'[k].jid < nextjid
      BY <1>1, <2>2, <3>1
    <3> QED  BY <1>1, <2>3, <3>1, <3>2
  <2>6. NextIsFresh'
    BY <1>2, <2>3, <2>4, <2>5 DEF NextIsFresh
  <2>7. JidsUnique'
    BY <1>2, <2>2 DEF Jids, JidsUnique
  <2> QED  BY <2>6, <2>7 DEF Jids
<1>5. CASE KillNext
  <2>1. /\ pc = "knext" /\ pc' = "prompt" /\ nextjid' = max + 1 /\ jobs' = jobs
    BY <1>5 DEF KillNext, Return
  <2>2. Added = forks /\ Added' = forks
    BY <1>2, <2>1 DEF Added
  <2>3. NextIsFresh'
    BY <1>1, <1>2, <2>1, <2>2 DEF Jids, NextIsFresh
  <2>4. JidsUnique'
    BY <1>2, <2>1 DEF Jids, JidsUnique
  <2> QED  BY <2>3, <2>4 DEF Jids
<1> QED  BY <1>3, <1>4, <1>5 DEF KillClear

\* fg, bg and a stopped child change the state of a job and not its ID.
LEMMA StateJids ==
  ASSUME ListInv, Jids, NEW i \in Slots, NEW st \in JobStates,
         jobs' = [jobs EXCEPT ![i].state = st]
  PROVE  \A k \in Slots : jobs'[k].jid = jobs[k].jid
BY DEF ListInv, TypeOK, JobsTypeOK, Job

\* The other steps give out no job ID and leave nextjid alone.
LEMMA OtherJids ==
  ASSUME ListInv, Jids, [Next]_vars,
         ~(\E p \in Pids : EvalFork(p)), ~EvalAdd, ~KillClear, ~KillNext,
         ~(SigchldAct /\ status = "dead")
  PROVE  Jids'
<1> USE DEF jobVars, bounds
<1>1. UNCHANGED <<nextjid, forks>> /\ \A i \in Slots : jobs'[i].jid \in {jobs[i].jid, 0}
  <2>1. CASE BgfgSet
    <3>1. job \in Slots /\ {"FG", "BG"} \subseteq JobStates
      BY DEF ListInv, TypeOK, JobStates
    <3> QED  BY <2>1, <3>1, StateJids DEF BgfgSet
  <2>2. CASE SigchldAct
    <3>1. MarkStopped /\ forks' = forks
      BY <2>2 DEF SigchldAct
    <3>2. "ST" \in JobStates /\ \A i \in getjobpid(got) : i \in Slots
      BY GetjobpidSound DEF JobStates
    <3> QED  BY <3>1, <3>2, StateJids DEF MarkStopped
  <2>3. CASE ~BgfgSet /\ ~SigchldAct
    <3>1. UNCHANGED <<nextjid, forks, jobs>>
      BY <2>3 DEF Next, Main, Handlers, Sigchld, Environment, vars, Announce, WaitfgReturn, Quit,
                  NothingToDo, BgfgCont, KillByJid, KillByPid, KillSend, SigintHandler,
                  SigtstpHandler, SigquitHandler, SigchldEnter, SigchldWait, SigchldReturn, Key,
                  Child, ChildStops
    <3> QED  BY <3>1
  <2> QED  BY <2>1, <2>2, <2>3
<1>2. /\ pc' = "add" => pc = "add"
      /\ pc' = "knext" => pc = "knext" /\ max' = max
  BY DEF Next, Main, Handlers, Sigchld, Environment, vars, locals, Announce, WaitfgReturn, Quit,
         NothingToDo, BgfgCont, KillByJid, KillByPid, KillSend, SigintHandler, SigtstpHandler,
         SigquitHandler, SigchldEnter, SigchldWait, SigchldAct, SigchldReturn, Key, Child,
         ChildStops, BgfgSet, MarkStopped, KillFound, Finish, Return
<1> QED  BY <1>1, <1>2, JidsFrame

LEMMA InitIInv == Init => IInv
<1> SUFFICES ASSUME Init PROVE NextIsFresh /\ JidsUnique
  BY InitListInv DEF IInv
<1>1. /\ \A i \in Slots : jobs[i].jid = 0
      /\ nextjid = 1 /\ forks = 0 /\ pc = "prompt"
  BY DEF Init, initjobs, NoJob
<1> QED  BY <1>1 DEF NextIsFresh, JidsUnique, Added

LEMMA NextIInv == IInv /\ [Next]_vars => IInv'
<1> SUFFICES ASSUME IInv, [Next]_vars PROVE IInv'
  OBVIOUS
<1>1. ListInv'
  BY NextListInv DEF IInv
<1>2. Jids'
  BY EvalForkJids, EvalAddJids, KillJids, DeleteJids, OtherJids DEF IInv, Jids
<1> QED  BY <1>1, <1>2 DEF IInv, Jids

-----------------------------------------------------------------------------
\* The invariant holds in every behaviour of the shell.
THEOREM Invariance == Spec => []IInv
BY InitIInv, NextIInv, PTL DEF Spec

\* The state of main, the handlers and the kernel is well typed.
THEOREM TypeCorrect == Spec => []TypeOK
<1>1. IInv => TypeOK
  BY DEF IInv, ListInv
<1> QED  BY <1>1, Invariance, PTL

\* No child that died or stopped is forgotten by sigchld_handler.
THEOREM NoChildIsLost == Spec => []NoLostChild
<1>1. IInv => NoLostChild
  BY DEF IInv, ListInv
<1> QED  BY <1>1, Invariance, PTL

\* The job list names no child that is gone: eval and sigchld_handler do not
\* race between fork and addjob.
THEOREM ListIsFaithful == Spec => []TableFaithful
<1>1. IInv => TableFaithful
  BY DEF IInv, ListInv
<1> QED  BY <1>1, Invariance, PTL

\* A process ID names one job, reused or not.
THEOREM OneEntryPerProcess == Spec => []PidsUnique
<1>1. IInv => PidsUnique
  BY DEF IInv, ListInv
<1> QED  BY <1>1, Invariance, PTL

\* main is in waitfg for every live foreground job.
THEOREM ForegroundIsAwaited == Spec => []FgIsAwaited
<1>1. IInv => FgIsAwaited
  BY DEF IInv, ListInv
<1> QED  BY <1>1, Invariance, PTL

\* Job IDs name one job each until addjob has been called MAXJOBS times, although
\* the handler's deletejob may run in the middle of kill_job's.
THEOREM JidsNameOneJob == Spec => []JidsUnique
<1>1. IInv => JidsUnique
  BY DEF IInv
<1> QED  BY <1>1, Invariance, PTL

-----------------------------------------------------------------------------
(***************************************************************************)
(* The list alone, as JobListUse has its callers use it, until nextjid      *)
(* wraps around: no signal handler, but lists that are filled and emptied   *)
(* any number of times.                                                     *)
(***************************************************************************)

\* JidsFresh is inductive once the entries and the counter are typed.
UseInv == UseTypeOK /\ JidsFresh

LEMMA UseInitInv == UseInit => UseInv
<1> SUFFICES ASSUME UseInit PROVE UseInv
  OBVIOUS
<1> USE DEF UseInit, initjobs
<1>1. jobs \in [Slots -> Job]
  BY JobTyped
<1>2. UseTypeOK
  <2>1. JobsTypeOK
    BY <1>1 DEF JobsTypeOK
  <2> QED  BY <2>1 DEF UseTypeOK
<1>3. \A i \in Slots : jobs[i].jid = 0
  BY DEF NoJob
<1> QED  BY <1>2, <1>3 DEF UseInv, JidsFresh

\* addjob gives out nextjid, which no job has, and raises it.
LEMMA AddFresh ==
  ASSUME UseInv, NEW p \in Pids, NEW st \in JobStates, AddJob(p, st)
  PROVE  UseInv'
<1> USE DEF UseInv, UseTypeOK
<1>1. CASE UNCHANGED <<jobs, nextjid>>
  BY <1>1 DEF AddJob, JobsTypeOK, JidsFresh
<1>2. ASSUME NEW i \in First({k \in Slots : jobs[k].pid = NoPid}),
             jobs' = [jobs EXCEPT ![i] = [pid |-> p, jid |-> nextjid, state |-> st]],
             nextjid' = IF nextjid + 1 > MAXJOBS THEN 1 ELSE nextjid + 1
      PROVE  UseInv'
  <2>1. i \in Slots /\ jobs[i].pid = NoPid
    BY DEF First
  <2>2. JobsTypeOK'
    <3>1. [pid |-> p, jid |-> nextjid, state |-> st] \in Job
      BY JobTyped DEF JobsTypeOK
    <3>2. jobs' \in [Slots -> Job]
      BY <1>2, <3>1 DEF JobsTypeOK
    <3>3. nextjid' \in Nat \ {0}
      BY <1>2 DEF JobsTypeOK
    <3> QED  BY <3>2, <3>3 DEF JobsTypeOK
  <2>3. /\ jobs'[i].jid = nextjid /\ jobs'[i].pid = p
        /\ \A k \in Slots \ {i} : jobs'[k] = jobs[k]
    BY <1>2, <2>1 DEF JobsTypeOK
  <2>4. wrapped' \in BOOLEAN /\ (~wrapped' => ~wrapped /\ nextjid' > nextjid)
    <3>1. jobs' # jobs
      BY <2>1, <2>3, NoPidAssumption
    <3>2. nextjid \in Nat /\ nextjid' \in Nat
      BY <2>2 DEF JobsTypeOK
    <3>3. wrapped' = (wrapped \/ nextjid' <= nextjid)
      BY <3>1 DEF AddJob
    <3>4. nextjid' <= nextjid \/ nextjid' > nextjid
      BY <3>2
    <3>5. ~(nextjid' <= nextjid /\ nextjid' > nextjid)
      BY <3>2
    <3>6. wrapped \in BOOLEAN /\ wrapped' \in BOOLEAN
      BY <3>3 DEF UseInv, UseTypeOK
    <3> QED  BY <3>3, <3>4, <3>5, <3>6, Zenon
  <2>5. ASSUME ~wrapped'
        PROVE  /\ \A k \in Slots : jobs'[k].jid < nextjid'
               /\ \A k, l \in Slots :
                    jobs'[k].jid = jobs'[l].jid /\ jobs'[k].jid # 0 => k = l
    <3>1. \A k \in Slots : jobs[k].jid \in Nat /\ jobs[k].jid < nextjid
      BY <2>4, <2>5 DEF JidsFresh, JobsTypeOK, Job
    <3>2. \A k, l \in Slots : jobs[k].jid = jobs[l].jid /\ jobs[k].jid # 0 => k = l
      BY <2>4, <2>5 DEF JidsFresh
    <3>3. nextjid \in Nat /\ nextjid' \in Nat /\ nextjid' > nextjid
      BY <2>2, <2>4, <2>5 DEF JobsTypeOK
    <3>4. \A k \in Slots : jobs'[k].jid < nextjid'
      BY <2>3, <3>1, <3>3
    <3> QED  BY <2>3, <3>1, <3>2, <3>3, <3>4
  <2> QED  BY <2>2, <2>4, <2>5 DEF JidsFresh
<1> QED  BY <1>1, <1>2 DEF AddJob, addjob

\* deletejob lowers nextjid only to one above the largest ID that is left.
LEMMA DeleteFresh ==
  ASSUME UseInv, NEW p \in Pids, DeleteJob(p)
  PROVE  UseInv'
<1> USE DEF UseInv, UseTypeOK
<1>1. CASE UNCHANGED <<jobs, nextjid>>
  BY <1>1 DEF DeleteJob, JobsTypeOK, JidsFresh
<1>2. ASSUME NEW i \in getjobpid(p), clearjob(i),
             NEW m \in maxjid(jobs'), nextjid' = m + 1
      PROVE  UseInv'
  <2>1. i \in Slots /\ jobs' = [jobs EXCEPT ![i] = NoJob]
    BY <1>2, GetjobpidSound DEF clearjob
  <2>2. jobs' \in [Slots -> Job]
    BY <2>1, JobTyped DEF JobsTypeOK
  <2>3. m \in Nat /\ \A k \in Slots : jobs'[k].jid \in Nat /\ jobs'[k].jid <= m
    BY <2>2 DEF maxjid, Job
  <2>4. \A k \in Slots : jobs'[k].jid < nextjid'
    BY <1>2, <2>3
  <2>5. \A k \in Slots : jobs'[k].jid = 0 \/ (k # i /\ jobs'[k].jid = jobs[k].jid)
    BY <2>1 DEF NoJob, JobsTypeOK
  <2>6. JidsFresh'
    BY <2>4, <2>5 DEF JidsFresh, DeleteJob
  <2> QED  BY <1>2, <2>2, <2>3, <2>6 DEF JobsTypeOK, DeleteJob
<1> QED  BY <1>1, <1>2 DEF DeleteJob, deletejob

LEMMA UseNextInv == UseInv /\ [UseNext]_useVars => UseInv'
<1> SUFFICES ASSUME UseInv, [UseNext]_useVars PROVE UseInv'
  OBVIOUS
<1>1. CASE UseNext
  BY <1>1, AddFresh, DeleteFresh DEF UseNext, JobStates
<1>2. CASE UNCHANGED useVars
  BY <1>2 DEF useVars, UseInv, UseTypeOK, JobsTypeOK, JidsFresh
<1> QED  BY <1>1, <1>2

\* No job ID is given out twice until addjob has set nextjid back to 1.
THEOREM JidsStayFresh == UseSpec => []JidsFresh
<1>1. UseInv => JidsFresh
  BY DEF UseInv
<1> QED  BY <1>1, UseInitInv, UseNextInv, PTL DEF UseSpec

==============================================================================
