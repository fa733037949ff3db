SPECIFICATION FairSpec
CONSTANTS
  Env = {e1, e2, e3}
  NULL = NULL
INVARIANTS
  NoPanic
  MutualExclusion
  NoLostWakeup
PROPERTIES
  SomeoneEnters
