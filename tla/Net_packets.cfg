SPECIFICATION FairSpec
CONSTANTS
  Modes <- MCModes
  MaxPacket = 7
  Numbers = 4
  Requests = 2
  BufferLength = 4
  MaxSizes = {5, 40}
  IoSize = 2
  Head20 = 1
  ExtraLength = 1
  Lengths = {0, 3, 6, 7, 13, 14}
  TraceLengths = {0, 1}
  CloseLength = 1
  Replies <- RepliesPlain
  FrameSizes = {1, 5, 7}
  ExtraSizes = {1}
  Faults = {"write", "read"}
  MaxWrites = 3
CHECK_DEADLOCK FALSE
INVARIANTS
  SentExactly
  ReadExactly
PROPERTIES
  ReadReturns
