SPECIFICATION HeapsSpec
CONSTANTS
  Start = 1
  HeapMax = 8
  Sizes = {1, 2, 3}
  NULL = NULL
  UStart = 1
  UHeapMax = 5
  USizes = {1, 2, 3}
  FreeNodes = 2
  MaxLive = 3
  NumPages = 2
  Classes = 3
  Requests = {1, 2, 3}
INVARIANTS
  WorstFitAtHead
  PartitionInv
  BlocksUsable
  BlocksAccounted
PROPERTIES
  NullOnlyWhenFull
  ImplementsPageAllocator
  OverlapNeedsBulkAboveBreak
CHECK_DEADLOCK FALSE
