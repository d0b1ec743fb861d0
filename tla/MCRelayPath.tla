----------------------------- MODULE MCRelayPath -----------------------------
(***************************************************************************)
(* Two roads that meet at a corner, on a grid of geohash blocks whose bits  *)
(* are those of x and y in turn (geohash_move_x, geohash_move_y): the road  *)
(* west from (1,5) to (1,1) and the road south from (1,1) to (5,1).  Nodes  *)
(* on one road see each other, and nodes at the corner see both roads.      *)
(* The route leads from s on the west road over d to e on the south road,   *)
(* r waits at the corner.  s starts there too, where it can hear all of     *)
(* them.                                                                    *)
(***************************************************************************)
EXTENDS RelayPath, TLC

CONSTANTS s, r, d, e, p1, p2, j1, j2, j3, west, south

MCSrc == [p \in Packet |-> s]
MCDst == [p \in Packet |-> e]
MCNextHop == [n \in Node |-> [m \in Node |-> IF n \in {s, r} THEN d ELSE m]]

\* x and y of the block, and the block at x and y.
Cell == (3 :> <<1, 1>>) @@ (9 :> <<2, 1>>) @@ (18 :> <<1, 4>>)
        @@ (33 :> <<4, 1>>)
Corner(b) == Cell[b][1] \in 0 .. 2 /\ Cell[b][2] \in 0 .. 2

MCBlock == DOMAIN Cell
MCZone == [c \in MCBlock |->
  {b \in MCBlock : \A k \in 1 .. 2 : Cell[b][k] - Cell[c][k] \in -1 .. 1}]
MCSees == [a \in MCBlock |-> [b \in MCBlock |->
  Corner(a) \/ Corner(b) \/ \E k \in 1 .. 2 : Cell[a][k] = 1 /\ Cell[b][k] = 1]]

MCVertices == <<j3, j2, j1>>
MCMem ==
  (j1 :> [idStr |-> j1, geoHash |-> 19, edges |-> <<[vertex |-> j2, road_id |-> west]>>])
  @@ (j2 :> [idStr |-> j2, geoHash |-> 3, edges |-> <<[vertex |-> j3, road_id |-> south],
                                                     [vertex |-> j1, road_id |-> west]>>])
  @@ (j3 :> [idStr |-> j3, geoHash |-> 35, edges |-> <<[vertex |-> j2, road_id |-> south]>>])

MCStartAt == (s :> 9) @@ (r :> 3) @@ (d :> 33) @@ (e :> 33)
=============================================================================
