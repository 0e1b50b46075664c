\* Liveness of waitfg and of sigchld_handler, with a list of one entry, which
\* addjob may find full; no symmetry.
SPECIFICATION FairSpec
CONSTANTS
  MAXJOBS = 1
  Pids = {p1, p2}
  NoPid = NoPid
  MaxForks = 2
  MaxSignals = 1
PROPERTIES
  ZombieReaped
  ForegroundReturns
\* The shell ends with quit, an error or a NULL dereference.
CHECK_DEADLOCK FALSE
