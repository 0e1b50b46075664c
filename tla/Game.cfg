SPECIFICATION FairSpec
CONSTANTS
  Dimension = 4
  RandomColumns = {0, 3}
  Children = 2
INVARIANTS
  Inv
  ParentPiecesAgree
  FinishedHasLine
  StuckForAReason
PROPERTIES
  ComesToAnEnd
CHECK_DEADLOCK FALSE
