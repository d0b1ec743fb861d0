------------------------------- MODULE MCGpsr -------------------------------
(* Four vehicles: 1 sends to 4 around a void, over 2 and 3, and to 2.  In the    *)
(* second layout a building is between 1 and 3, and 4 is out of reach.            *)
EXTENDS Gpsr

CONSTANTS flow1, echo1

MCSrc == [r \in Packet |-> 1]
MCDst == [r \in Packet |-> IF r = flow1 THEN 4 ELSE 2]
MCFlow     == <<flow1>>
MCEchoFlow == <<echo1>>

MCLayouts == {
  <<<<0, 0>>, <<0, 8>>, <<8, 8>>, <<16, 4>>>>,
  <<<<0, 0>>, <<0, 8>>, <<-4, 4>>, <<16, 4>>>>}

MCBuildings == <<
  [type |-> "building", shape |-> <<<<-3, -1>>, <<-1, -1>>, <<-1, 3>>, <<-3, 3>>, <<-3, -1>>>>],
  [type |-> "highway",  shape |-> <<<<2, -9>>, <<3, -9>>, <<3, 9>>, <<2, -9>>>>]>>
=============================================================================
