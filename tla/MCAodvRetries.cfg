SPECIFICATION MCSpec
CONSTANTS
  a = a
  x = x
  y = y
  z = z
  w = w
  px = px
  pz = pz
  pw = pw
  y1 = y1
  y2 = y2
  y3 = y3
  Node = {a, x, y, z, w}
  Packet = {px, pz, pw, y1, y2, y3}
  Src <- MCSrc
  Dst <- MCDst
  Topologies <- MCTopologies
  Null = Null
  All = All
  TtlStart = 1
  TtlIncrement = 1
  TtlThreshold = 1
  NetDiameter = 2
  RreqRetries = 1
  RreqRateLimit = 3
  RerrRateLimit = 1
  DestinationOnly = TRUE
  GratuitousReply = FALSE
  EnableHello = FALSE
  MaxEvents = 0
  MaxLate = 0
INVARIANTS RetriesBounded
CHECK_DEADLOCK FALSE
