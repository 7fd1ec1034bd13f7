SPECIFICATION Spec
CONSTANTS
  SockLim = 9
  MaxSent = 4
  Configs <- Supported
INVARIANTS FdPairedUndisturbed HintsAppliedUnpaused
PROPERTIES EventsHandled
CHECK_DEADLOCK FALSE
