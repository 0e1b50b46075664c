SPECIFICATION FairSpec
CONSTANTS
  N = 2
  Width = 5
  NULL = NULL
  Garbage = Garbage
  Requests <- MCRequests
INVARIANTS
  Inv
  AsPromised
  
PROPERTIES
  Answered
CHECK_DEADLOCK FALSE
