----------------------------- MODULE JobListUse ------------------------------
(***************************************************************************)
(* The job list of the shell as its callers use it, one call at a time: a   *)
(* process that is not listed is added, a listed one is deleted.  The races *)
(* of main and the handlers are in Shell; here the list is long enough for  *)
(* the job IDs to wrap around.                                              *)
(***************************************************************************)
EXTENDS JobList

CONSTANT MaxJid   \* bound: the largest value nextjid takes

ASSUME MaxJidAssumption == MaxJid \in Nat

VARIABLE wrapped   \* addjob has set nextjid back to 1 once

useVars == <<jobs, nextjid, wrapped>>

Listed(p) == \E i \in Slots : jobs[i].pid = p

UseInit == initjobs /\ wrapped = FALSE

\* eval adds a new child.
AddJob(p, st) ==
  /\ ~Listed(p) /\ nextjid < MaxJid
  /\ addjob(p, st)
  /\ wrapped' = (wrapped \/ (jobs' # jobs /\ nextjid' <= nextjid))

\* sigchld_handler or kill_job deletes a job.
DeleteJob(p) ==
  /\ Listed(p)
  /\ deletejob(p)
  /\ UNCHANGED wrapped

UseNext ==
  \E p \in Pids :
    \/ \E st \in {"FG", "BG"} : AddJob(p, st)
    \/ DeleteJob(p)

UseSpec == UseInit /\ [][UseNext]_useVars

-----------------------------------------------------------------------------
\* Type correctness of the list and the history variable.
UseTypeOK == JobsTypeOK /\ wrapped \in BOOLEAN

\* Before nextjid is set back, every listed job has an ID of its own, below
\* the next one: deletejob may lower nextjid, but never onto an ID in use.
JidsFresh ==
  ~wrapped =>
    /\ \A i \in Slots : jobs[i].jid < nextjid
    /\ \A i, k \in Slots : jobs[i].jid = jobs[k].jid /\ jobs[i].jid # 0 => i = k

==============================================================================
