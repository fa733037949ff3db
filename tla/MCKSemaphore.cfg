SPECIFICATION FairSpec
CONSTANTS
  Env = {e1, e2, e3}
  NULL = NULL
  InitCount = 1
  MaxCount = 2
INVARIANTS
  NoPanic
  WaitersCounted
  IInv
  PlaceMatchesStatus
  InterruptStatePerThread
PROPERTIES
  ImplementsSemaphore
  WokenReturns
