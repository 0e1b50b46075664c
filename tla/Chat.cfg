SPECIFICATION FairSpec
CONSTANTS
  N = 3
  Typists = {2}
  Texts = 1
  MaxQueue = 5
  MaxHeard = 1
  Leavers = {2}
INVARIANTS
  Inv
  UpWhileNobodyLeaves
  NothingLost
PROPERTIES
  BuddiesGetToChat
CHECK_DEADLOCK FALSE
