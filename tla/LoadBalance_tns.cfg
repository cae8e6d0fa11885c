SPECIFICATION FairSpec
CONSTANTS
  k1 = k1
  k2 = k2
  k3 = k3
  Threads = {t1}
  Keys = {k1, k2}
  Lists <- TwoLists
  Configs <- TnsConfigs
  CONNECT_CNT_INIT = 2
  UsPerMs = 1
  UINT_RANGE = 4
  WordBytes = 4
  ByteRange = 2
  MallocFails = TRUE
  MaxTime = 2
  MaxCalls = 1
CHECK_DEADLOCK FALSE
INVARIANTS
  ConnectListInBounds
PROPERTIES
  CallReturns
