SPECIFICATION Spec
CONSTANTS
  QSZ = 3
  Kinds <- MixedKinds
  Vals = {"a"}
  DstCap = 2
  Limit = 1
  SEM_VALUE_MAX = 2
  Consumer = "shmifsrv"
  Faults = {"crash", "exit", "keepdms", "destroy"}
PROPERTIES ImplementsChannel
CHECK_DEADLOCK FALSE
