\* Threads that come back, and a main that does not join them.
SPECIFICATION Spec
CONSTANTS
  Threads = {t1, t2, t3, t4}
  Main = main
  Nobody = nobody
  Threshold = 2
  MaxCalls = 2
  Spurious = FALSE
  JoinFirst = FALSE
INVARIANTS
  CounterCounts
  RoundsComplete
PROPERTIES
  RendezvousSpec
\* A thread that finds no others to complete its round waits for ever.
CHECK_DEADLOCK FALSE
