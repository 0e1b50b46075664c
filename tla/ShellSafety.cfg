\* The shell's safety: the list never fills, process IDs are reused.
SPECIFICATION Spec
CONSTANTS
  MAXJOBS = 3
  Pids = {p1, p2}
  NoPid = NoPid
  MaxForks = 3
  MaxSignals = 2
SYMMETRY ShellSymmetry
INVARIANTS
  IInv
  NoLostChild
  TableFaithful
  FgIsAwaited
  JidsUnique
\* The shell ends with quit, an error or a NULL dereference.
CHECK_DEADLOCK FALSE
