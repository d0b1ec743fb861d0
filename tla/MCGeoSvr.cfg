SPECIFICATION Spec
CONSTANTS
  p = p
  q = q
  Crossing <- MCCrossing
  Point <- MCPoint
  Roads <- MCRoads
  RoadType = 20
  IntMax = 2047
  RoadPad = 3
  PadStep = 1
  NoRoad = NoRoad
  Node = {1, 2, 3, 4}
  Packet = {p, q}
  Src <- MCSrc
  Dst <- MCDst
  Layouts <- MCLayouts
  Range2 = 2000
  Reach = 40
  Goal = 39
  MaxQueueLen = 2
  Ttl = 5
  None = None
  Fresh = Fresh
  Loopback = Loopback
  Queued = Queued
  Delivered = Delivered
  Lost = Lost
  MaxEvents = 1
INVARIANTS TypeOK NoVehicleTwice RoadsReopen
PROPERTIES PacketsEnd
CHECK_DEADLOCK FALSE
