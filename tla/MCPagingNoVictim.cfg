SPECIFICATION Spec
CONSTANTS
  CodePages = 2
  HeapPages = 2
  StackPages = 1
  MaxWS = 3
  Frames = 5
  DiskFrames = 4
  StampBits = 3
  MaxStream = 5
  Algorithms = {"LRU"}
INVARIANT LRUFindsVictim
CHECK_DEADLOCK FALSE
