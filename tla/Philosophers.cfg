\* Four philosophers.
SPECIFICATION FairSpec
CONSTANT N = 4
INVARIANTS
  IInv
  Exclusion
  StuckOnlyInCircle
PROPERTIES
  SomebodyEats
  StopsOrStuck
\* The philosophers may get stuck in a circle; main may return.
CHECK_DEADLOCK FALSE
