SPECIFICATION Spec
CONSTANTS
  s = s
  d = d
  e = e
  r = r
  p1 = p1
  west = west
  north = north
  south = south
  east = east
  far = far
  first = first
  second = second
  third = third
  main = main
  side = side
  Null = Null
  Wild = Wild
  Point <- MCPoint
  Distance <- MCDistance
  InSquare <- MCInSquare
  Node = {s, d, e, r}
  Packet = {p1}
  Src <- MCSrc
  Dst <- MCDst
  NextHop <- MCNextHop
  App = {s, d, r}
  Reader = {s}
  StartAt <- MCStartAt
  Geohash <- MCGeohash
  Row <- MCRow
  Hears <- MCHears
  Nets <- MCBlockOnly
  Maps <- MCMaps
  NetOffset <- MCNetOffset
  MaxDist = 75
  AverageDist = 50
  MaxVertices = 14
  NoOsmFile = NoOsmFile
  Interval = 1
  Expire = 2
  Delay = 1
  MinD = 7
  MaxD = 32
  DBE = 26
  Drives <- MCDrives
  Mobile = {r, d}
  MaxMoves = 2
  MaxStops = 1
INVARIANT RelayInZone
