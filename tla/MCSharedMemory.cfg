SPECIFICATION Spec
CONSTANTS
  Env = {e1, e2}
  Kernel = Kernel
  NumFrames = 3
  NumPages = 3
  BlockPages = 1
  Name = {n1}
  MallocSizes = {1}
  ShareSizes = {1, 2}
  DiskFrame = {1}
  Rights = {TRUE, FALSE}
  MaxWS = 1
  MaxCalls = 4
CHECK_DEADLOCK FALSE
SYMMETRY Symmetry
INVARIANTS FreeFramesUnused ReferencesCountEntries SharersSeeSameFrames TlbAgrees DiskFramesAccounted
