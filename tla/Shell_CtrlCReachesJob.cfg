\* A comment of shell.c that the code does not keep.
SPECIFICATION Spec
CONSTANTS
  MAXJOBS = 2
  Pids = {p1, p2}
  NoPid = NoPid
  MaxForks = 2
  MaxSignals = 1
PROPERTY CtrlCReachesJob
\* The shell ends with quit, an error or a NULL dereference.
CHECK_DEADLOCK FALSE
