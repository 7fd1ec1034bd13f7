SPECIFICATION FairSpec
CONSTANTS
  MaxMsgs = 4
  Configs <- AllConfigs
INVARIANTS BrokenForAReason InOrder KeysAgree
PROPERTIES Delivered
CHECK_DEADLOCK FALSE
