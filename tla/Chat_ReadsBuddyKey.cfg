SPECIFICATION Spec
CONSTANTS
  N = 2
  Typists = {1}
  Texts = 1
  MaxQueue = 5
  MaxHeard = 1
  Leavers = {}
INVARIANTS ReadsBuddyKey
CHECK_DEADLOCK FALSE
