SPECIFICATION Spec
CONSTANTS
  CodePages = 1
  HeapPages = 1
  StackPages = 2
  MaxWS = 3
  Frames = 4
  DiskFrames = 3
  StampBits = 1
  MaxStream = 4
  Algorithms = {"CLOCK", "LRU", "MODCLOCK", "OPTIMAL"}
CHECK_DEADLOCK FALSE
INVARIANTS
  NothingLost
  WorkingSetIsMapped
  FullListHasHand
  HandFollowsAge
  OptimalIsFewest
PROPERTIES
  EvictsUnusedFirst
  EvictsLowestClass
