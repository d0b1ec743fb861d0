SPECIFICATION Spec
CONSTANTS
  s = s
  r = r
  d = d
  e = e
  p1 = p1
  p2 = p2
  j1 = j1
  j2 = j2
  j3 = j3
  west = west
  south = south
  Null = Null
  Node = {s, r, d, e}
  Packet = {p1, p2}
  Src <- MCSrc
  Dst <- MCDst
  NextHop <- MCNextHop
  Block <- MCBlock
  Sees <- MCSees
  Zone <- MCZone
  Vertices <- MCVertices
  Mem <- MCMem
  Listener = {s}
  TableNode = {s}
  StartAt <- MCStartAt
  MaxMoves = 1
  MaxWrites = 2
CHECK_DEADLOCK FALSE
INVARIANTS TypeOK OneCopy ReceivedAlongRoute OneEntryPerBlock
PROPERTY FreshRelayDelivers
