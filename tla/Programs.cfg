\* Each of the small programs on its own small instance.
SPECIFICATION Spec
CONSTANTS
  Threads = {t1, t2}
  Times = 2
  Workers = {t1, t2}
  Scripts <- MCScripts
  MaxNodes = 5
  Trees <- MCTrees
  Block = 2
  Disks <- MCDisks
  Pattern = "p"
  Replacement = "r"
  NULL = NULL
  BUFSIZE = 3
  EINTR = EINTR
  EIO = EIO
  Fault = Fault
  Calls <- MCCalls
  MAXJOBS = 3
  Pids = {p1, p2, p3, p4}
  NoPid = NoPid
  MaxJid = 5
INVARIANTS
  Synchronised
  Replaced
  KeysWork
  NodesAccounted
  ResultsRight
  JidsFresh
PROPERTIES
  NoIncrementLost
  ListAsSequence
  VersionsAdvance
  OnlyNamesChange
\* Every program returns, or is stopped by an error.
CHECK_DEADLOCK FALSE
