SPECIFICATION FairSpec
CONSTANTS
  Threads = {t1, t2}
  Keys = {k1, k2}
  Times = {1, 2}
  Ops = {"append", "remove", "find"}
  NoKey = NoKey
  CONNECT_CNT_INIT = 2
  MallocFails = TRUE
  Cold = FALSE
INVARIANTS
  MutualExclusion
  ArrayOK
PROPERTIES
  Refines
  LockReleased
