SPECIFICATION Spec
CONSTANTS
  CodePages = 2
  HeapPages = 2
  StackPages = 1
  MaxWS = 3
  Frames = 5
  DiskFrames = 4
  StampBits = 2
  MaxStream = 5
  Algorithms = {"CLOCK"}
INVARIANT PanicsOnlyUnhandled
CHECK_DEADLOCK FALSE
