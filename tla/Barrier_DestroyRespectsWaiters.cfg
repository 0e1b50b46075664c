\* Threads that come to the barrier while main destroys it.
SPECIFICATION Spec
CONSTANTS
  Threads = {t1, t2, t3, t4}
  Main = main
  Nobody = nobody
  Threshold = 2
  MaxCalls = 2
  Spurious = FALSE
  JoinFirst = FALSE
INVARIANTS
  DestroyRespectsWaiters
CHECK_DEADLOCK FALSE
