SPECIFICATION FairSpec
CONSTANTS
  Configs <- Supported
  SEM_VALUE_MAX = 2
  PP_SHMPAGE_MAXW = 8
  VBUFC_LIM = 3
  ABUFC_LIM = 3
  default_abuf_sz = 1
  MAX_SZ = 20
INVARIANTS LayoutAgreesAsGranted MappedEnough FailureReportedOnce
PROPERTIES ResizeReturns
CHECK_DEADLOCK FALSE
