SPECIFICATION MCSpec
CONSTANTS
  Scenarios <- MCScenarios
  Sizes = {0, 2, 4}
  FixedSize = 4
  MaxRepeat = 1
  Rows = 2
  Cols = 8
  ConsBufSize = 6
  BufLen = 12
  WireMax = 16
  HistoryMax = 1
INVARIANTS
  ScenariosSound
  NoLeakage
  AlgorithmsCorrect
  CallsReachHandlers
  LinesFaithful
PROPERTY ScenariosFinish
CHECK_DEADLOCK FALSE
