SPECIFICATION Spec
CONSTANTS
  Start = 1
  HeapMax = 6
  Sizes = {1, 2, 3}
  FreeNodes = 2
  MaxLive = 3
INVARIANT AllocationsDisjoint
CHECK_DEADLOCK FALSE
