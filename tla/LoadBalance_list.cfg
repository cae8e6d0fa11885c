SPECIFICATION Spec
CONSTANTS
  k1 = k1
  k2 = k2
  k3 = k3
  Threads = {t1, t2}
  Keys = {k1, k2}
  Lists <- OneList
  Configs <- ListConfigs
  CONNECT_CNT_INIT = 2
  UsPerMs = 1
  UINT_RANGE = 1024
  WordBytes = 8
  ByteRange = 256
  MallocFails = FALSE
  MaxTime = 1
  MaxCalls = 2
SYMMETRY ThreadSymmetry
CHECK_DEADLOCK FALSE
INVARIANTS
  BudgetRespected
  BarredUntilTimeout
