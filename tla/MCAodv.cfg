SPECIFICATION Spec
CONSTANTS
  a = a
  b = b
  c = c
  p1 = p1
  Node = {a, b, c}
  Packet = {p1}
  Src <- MCSrc
  Dst <- MCDst
  Topologies <- MCTopologies
  Null = Null
  All = All
  TtlStart = 1
  TtlIncrement = 1
  TtlThreshold = 1
  NetDiameter = 2
  RreqRetries = 1
  RreqRateLimit = 1
  RerrRateLimit = 1
  DestinationOnly = FALSE
  GratuitousReply = TRUE
  EnableHello = TRUE
  MaxEvents = 1
  MaxLate = 1
INVARIANTS TypeOK NoPacketStranded SeqNoOwned ValidRouteComplete
 
CHECK_DEADLOCK FALSE
