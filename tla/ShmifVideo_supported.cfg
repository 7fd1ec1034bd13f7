SPECIFICATION FairSpec
CONSTANTS
  Configs <- Supported
  MaxFrame = 6
  SEM_VALUE_MAX = 2
INVARIANTS NoTearBlocking
PROPERTIES SignalReturns FrameArrives NoOlderFrame
CHECK_DEADLOCK FALSE
