SPECIFICATION FairSpec
CONSTANTS
  Threads = {t1, t2}
  KeyOf <- SameKey
  TooLong = TooLong
  Names = {"a", "b"}
  Descriptions <- Nested
  Ops = {"get", "local"}
  MallocFails = {"global", "entry", "type", "child"}
  NoThread = NoThread
  MaxCalls = 2
CHECK_DEADLOCK FALSE
INVARIANTS
  TypesSound
PROPERTIES
  CallReturns
