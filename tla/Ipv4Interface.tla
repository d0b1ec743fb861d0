--------------------------- MODULE Ipv4Interface ----------------------------
(***************************************************************************)
(* What NS3/internet/model keeps of the interface of every vehicle: the set *)
(* of the vehicles whose interface is up and of those whose interface has   *)
(* its address.  Ipv4L3Protocol changes it and then notifies the routing    *)
(* protocol, which keeps its sockets by itself.                             *)
(***************************************************************************)

IsUp(running, n)    == n \in running
SetUp(running, n)   == running \cup {n}
SetDown(running, n) == running \ {n}

AddAddress(addressed, n)    == addressed \cup {n}
RemoveAddress(addressed, n) == addressed \ {n}
=============================================================================
