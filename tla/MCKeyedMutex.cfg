SPECIFICATION FairSpec
CONSTANTS
  Calls = {c1, c2, c3, c4}
  Keys = {k1, k2}
  EndingKeys = {k1}
  None = None
INVARIANTS
  MutualExclusion
PROPERTIES
  ImplementsFifoLock
  KeysServedIndependently
CHECK_DEADLOCK FALSE
