SPECIFICATION FairSpec
CONSTANTS
  Addresses = 2
  Options <- MCOptions
  MessageSize = 2
  PacketSizes = {2}
  CacheSize = 3
  CacheMin = 2
  Room = 1
  Styles = {"async", "block"}
  MaxCalls = 3
CHECK_DEADLOCK FALSE
INVARIANTS
  OwnAnswer
  
  ConnectionHeld
PROPERTIES
  CallReturns
