------------------------------ MODULE MCMbrSim -------------------------------
(***************************************************************************)
(* A block of houses between two crossings: road "first" leads from west    *)
(* over the north crossing and the south crossing, and two more roads lead  *)
(* from these crossings to the junction east.  s drives in the west, d and e *)
(* in the east, r moves between the crossings and a place on the way to     *)
(* them.  The route leads from s over d to e.                               *)
(*                                                                          *)
(* The net file has more of the town, or just this block.                   *)
(***************************************************************************)
EXTENDS MbrSim, TLC

CONSTANTS s, d, e, r, p1,
  west, north, south, east, far,         \* junctions
  first, second, third,                  \* ways
  main, side                             \* the names of roads

\* x and y in metres.
atWest  == <<0, 0>>
byNorth == <<20, 0>>
atNorth == <<40, 0>>
atSouth == <<40, 20>>
atEast  == <<75, 20>>
byEast  == <<50, 20>>
MCPoint == {atWest, atNorth, atSouth, atEast, byNorth, byEast}

MCSrc == [p \in Packet |-> s]
MCDst == [p \in Packet |-> e]
MCNextHop == [n \in Node |-> [m \in Node |-> IF n \in {s, r} THEN d ELSE m]]
MCStartAt == (s :> atWest) @@ (d :> atSouth) @@ (e :> byEast) @@ (r :> atNorth)

Apart(a, b) == IF a > b THEN a - b ELSE b - a
MCDistance(p, q) == Apart(p[1], q[1]) + Apart(p[2], q[2])
MCInSquare(p, q) == FALSE

MCBlock == (atWest :> 1) @@ (byNorth :> 10) @@ (atNorth :> 20) @@ (atSouth :> 40)
           @@ (atEast :> 63) @@ (byEast :> 43)
MCGeohash(p) == IF p \in MCPoint THEN MCBlock[p] ELSE 64
MCRow == [c \in {1, 20, 40, 63} |-> [b \in {1, 10, 20, 40, 43, 63} |->
  CASE b = c              -> 2
    [] <<c, b>> = <<20, 40>> -> 3
    [] <<c, b>> = <<40, 20>> -> 1
    [] OTHER                 -> 0]]
MCDrives == [p \in Point |-> CASE p = atSouth -> {byEast, atEast}
                               [] p = atNorth -> {byNorth}
                               [] p = byNorth -> {atNorth, atWest}
                               [] OTHER       -> {}]
MCHears == [p \in Point |-> [q \in Point |-> TRUE]]

----------------------------------------------------------------------------
MCNetOffset == <<100, 100>>
InFile(p) == <<p[1] + 100, p[2] + 100>>
EdgeOf(id, from, to, shape) == [id |-> id, from |-> from, to |-> to, shape |-> shape]
Straight(way, from, to) == EdgeOf(<<way>>, from, to, <<>>)

MCNet == [
  junctions |-> <<<<west, InFile(atWest)>>, <<north, InFile(atNorth)>>,
                  <<south, InFile(atSouth)>>, <<east, InFile(atEast)>>>>,
  edges |-> <<Straight(first, west, north), Straight(first, west, south),
              Straight(second, north, east), Straight(third, south, east)>>,
  names |-> NoOsmFile]

\* More of the town in the east: a road that is divided and replaces another, a road with
\* a shape in both directions, a shape that is too short, and ways with a name and without.
Town == [
  junctions |-> Append(MCNet.junctions, <<far, <<275, 120>>>>),
  edges |-> MCNet.edges \o
            <<Straight(third, east, far), Straight(first, far, east),
              EdgeOf(<<second, third>>, north, far,
                     <<<<140, 100>>, <<180, 90>>, <<200, 90>>, <<240, 110>>, <<275, 120>>>>),
              EdgeOf(<<third>>, far, north,
                     <<<<275, 120>>, <<240, 110>>, <<200, 90>>, <<180, 90>>, <<140, 100>>>>),
              EdgeOf(<<third>>, far, south, <<<<275, 120>>, <<140, 120>>>>)>>,
  names |-> second :> main @@ third :> side]

MCNets == <<Town>>
MCBlockOnly == <<MCNet>>
MCMaps == Loaded
=============================================================================
