SPECIFICATION Spec
CONSTANTS
  Env = {e1, e2}
  Kernel = Kernel
  NumFrames = 4
  NumPages = 3
  BlockPages = 1
  Name = {n1}
  MallocSizes = {1}
  ShareSizes = {1, 2}
  DiskFrame = {1}
  Rights = {FALSE}
  MaxWS = 1
  MaxCalls = 3
CHECK_DEADLOCK FALSE
SYMMETRY Symmetry
INVARIANT TableFound
