SPECIFICATION Spec
CONSTANTS
  Env = {e1, e2, e3}
  NULL = NULL
  QueueCounts = {2, 3}
  Thresholds = {1, 2}
SYMMETRY Symmetry
INVARIANTS
  QueueMatchesPriority
  BoundedWaiting
PROPERTIES
  PromptWhenIdle
  ExitIsFinal
