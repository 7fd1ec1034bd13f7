SPECIFICATION Spec
CONSTANTS
  MaxServers = 2
  MaxPages = 2
  MaxEvents = 2
  Configs <- Clients
INVARIANTS OneHome OwnSwitch
PROPERTIES ResetFirst Recovers
CHECK_DEADLOCK FALSE
