------------------------------ MODULE MCGeoSvr ------------------------------
(* Two blocks of houses, with crossings 0 1 2 in the north and 3 4 5 in the      *)
(* south.  Vehicle 1 in the west sends to vehicle 4; 2 and 3 are on road 0-1.     *)
(* In the first layout 4 is on road 1-2, in the second on road 2-5, to which the  *)
(* search for a path runs over a closed road, in the third next to vehicle 1.     *)
EXTENDS GeoSvr

CONSTANTS p, q

MCSrc == [r \in Packet |-> 1]
MCDst == [r \in Packet |-> 4]
MCCrossing == 0 .. 5
MCPoint == [v \in 0 .. 5 |-> <<60 * (v % 3), IF v < 3 THEN 60 ELSE 0>>]
MCRoads == <<<<0, 1>>, <<1, 2>>, <<3, 4>>, <<4, 5>>, <<0, 3>>, <<1, 4>>, <<2, 5>>>>

MCLayouts == {
  <<<<0, 28>>, <<10, 60>>, <<48, 60>>, <<90, 60>>>>,
  <<<<0, 28>>, <<10, 60>>, <<48, 60>>, <<120, 52>>>>,
  <<<<0, 28>>, <<10, 60>>, <<48, 60>>, <<0, 5>>>>}
=============================================================================
