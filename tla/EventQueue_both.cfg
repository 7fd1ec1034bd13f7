SPECIFICATION FairSpec
CONSTANTS
  N = 3
  MaxEv = 5
  Configs <- Both
INVARIANTS RingIsQueued NotFreedInUse
PROPERTIES EventuallyHandled EventuallyFreed
CHECK_DEADLOCK FALSE
