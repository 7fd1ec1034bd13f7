SPECIFICATION Spec
CONSTANTS
  WND = 4
  WIDTH = 16
  MaxBlobs = 3
  Configs <- Workloads
INVARIANTS Intact WindowExact
PROPERTIES EndsOnce FramesFlow
CHECK_DEADLOCK FALSE
