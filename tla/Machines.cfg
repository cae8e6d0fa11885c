CONSTANTS
  SpanCount = 2
  TagCount = 3
  LogRecords = 2
  RequestRoom = 5
  InitCommands = 0
  MaxTraced = 3
  Threads = {"t1", "t2"}
  Builtins = {"native"}
  Files = {"tracer", "badtracer", "connector", "text"}
  PluginType <- MCPluginType
  FileKind <- MCFileKind
  StoresInOrder = TRUE
  MaxCalls = 2
  WinThreads = {"w1", "w2", "w3"}
  Instances = {1, 2, 3}
  MaxOpened = 4
  MaxLines = 4
  MaxIssued = 2
  DummyRounds = 2
  MaxAsked = 2
  PeSqls = {"select", "exact", "returning", "plain", "block"}
  PeMaxCommands = 4
  PeMaxRows = 3
  PePrefetch = 2
  PeAltered = FALSE
  PeReuse = FALSE
  PePolite = TRUE
  ColdThreads = {t1, t2, t3}
  ColdKeys = {k1}
  ColdNoKey = ColdNoKey
  CxServers <- MCCxServers
  CxEnvs <- MCCxEnvs
  CxSince <- MCCxSince
  CxInits <- MCCxInits
  CxWithheld = {{}, {"ob20", "flt"}}
  MaxNested = 2
  StItems <- MCStItems
  StCharsets <- MCStCharsets
  StFirst <- MCStFirst
  MaxItems = 2
  MaxChanges = 3
  LdPieces = 2
INIT Init
NEXT Next
CHECK_DEADLOCK FALSE
INVARIANTS
  SpansAccounted
  SharedOnce
  AsPosix
  
  
  StatementInStep
  
  SessionTracked
  LocalSettles
PROPERTIES
  RaceConfined
