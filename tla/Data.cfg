CONSTANTS
  MaxFields = 3
  GroupMax = 3
  MaxValue = 70
  DynYears = {0, 127, 128, 9999}
  DynMonths = {7, 8, 12}
  DynHours = {0, 15, 16, 256, 838}
  DynSixties = {0, 3, 59}
  DynParts = {0, 1, 999999}
  DynInts = {0, 1, 127, 128, 255, 256, 16384, 65535, 65536}
  NumKeys <- MCNumKeys
  NameKeys <- MCNameKeys
  DynValues <- MCDynValues
  NumLimits <- MCNumLimits
  MaxNumKey = 65535
  Radix = 8
  TextNumbers <- MCTextNumbers
  TextYears = {99, 2069, 0}
  TextHours = {0, 23, 100, 838}
  TextParts = {0, 5, 500000, 999999}
  LenLimit = 20
  OracleTimeSize = 3
  LobHeader = 4
  DoubleBits = 20
  MaxWide = 8
  RowPairs <- MCRowPairs
  Prealloc = 40
  ParamChoices <- MCParams
  SecondAfter = {"tiny", "zoned"}
  ParamQuery <- MCQuery
  SizeObject = 5
  SizeString = 3
  SizeBasic = 2
  SizeTime = 4
  ComplexPairs <- MCComplex
  ComplexCaps <- MCComplexCaps
  TnsBases <- MCTnsBases
  TnsJunk <- MCTnsJunk
  TnsBuffers = {1, 2, 64}
  TnsKeySize = 4
  CalYears = {1, 99, 399, 1599, 1899, 1969, 1999, 2003, 2019, 9997}
  CalDays = 740
  DfmTimes <- MCDfmTimes
  DfmFormats <- MCDfmFormats
  RowColumns <- MCRowColumns
  RowFormats <- MCRowFormats
  MaxColumns = 3
  SqlChars = {"q", "d", "-", "/", "*", "?", "n"}
  SqlLength = 5
  HashKeys <- MCHashKeys
  HashRecords <- MCHashRecords
  OptValues = {0, 1, 2}
  OptCalls = 2
  AttrKeys <- MCAttrKeys
  AttrLens = {0, 1, 251}
  AttrLimit = 600
  AttrMost = 4
  FuNames <- MCFuNames
  FuVersions = {0, 250, 251, 65536}
  FuAttrs = {0, 1, 2}
  FuFlags = {0, 1, 32769}
  LobMax = 3
  LobContents <- MCLobContents
  LobLengths = {0, 1, 2, 3, 5, 6, 7, 10}
  LobBits = {0, 1, 8191}
  CfFiles <- MCCfFiles
  CfGiven = {"/etc", "headless", "absent"}
  CfGroup = "mine"
  CfHomes = {"unset", "/etc", "extra", "/etc/mysql"}
  CfLimit = 4
  CfDirLimit = 6
  CfChars <- MCCfChars
  CfMaxText = 4
  BlEvents <- MCBlEvents
  BlFiles <- MCBlFiles
  BlFlags = {131074}
  BlStarts = {65540}
  BlMaxWire = 3
INIT Init
NEXT Next
CHECK_DEADLOCK FALSE
INVARIANTS
  EncodedIsDecoded
  
  
  ParsedAsMeant
  ContainersExact

  
