SPECIFICATION Spec
CONSTANTS
  flow1 = flow1
  echo1 = echo1
  Node = {1, 2, 3, 4}
  Packet = {flow1, echo1}
  Src <- MCSrc
  Dst <- MCDst
  Layouts <- MCLayouts
  Range2 = 80
  Unit = 20
  Window = 1000
  CacheSize = 6
  Buildings <- MCBuildings
  Margin = 1400
  Mbr = TRUE
  Sub1g = FALSE
  Flow <- MCFlow
  EchoFlow <- MCEchoFlow
  PacketBits = 2
  OnTime = 1
  OffTime = 0
  MaxPackets = 1
  EchoInterval = 1
  EchoCount = 1
  MaxQueueLen = 1
  Ttl = 5
  None = None
  Fresh = Fresh
  Loopback = Loopback
  Queued = Queued
  Delivered = Delivered
  Lost = Lost
  GivenUp = GivenUp
  MaxEvents = 1
INVARIANTS TypeOK WaitingIsServed NoChoiceTwice  
PROPERTIES PacketsEnd
CHECK_DEADLOCK FALSE
