SPECIFICATION FairSpec
CONSTANTS
  QSZ = 3
  Kinds <- WakingKinds
  Vals = {"a"}
  DstCap = 2
  Limit = 1
  SEM_VALUE_MAX = 2
  Consumer = "engine"
  Faults = {"crash", "exit"}
INVARIANTS AsleepForAReason
PROPERTIES EnqueueReturns
CHECK_DEADLOCK FALSE
