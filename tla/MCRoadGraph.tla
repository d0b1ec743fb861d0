----------------------------- MODULE MCRoadGraph -----------------------------
(***************************************************************************)
(* RoadGraph with four addresses, four names and two roads.  Three NEW_EDGE*)
(* messages build lines, triangles, stars and parallel roads; a fourth     *)
(* address is reused after every deletion.                                 *)
(***************************************************************************)
EXTENDS RoadGraph, TLC

CONSTANTS h1, h2, h3, h4, n1, n2, n3, n4, r1, r2

MCPosition == [id \in Id |-> 0]

\* Names, addresses and roads are interchangeable: no name has a position of its own.
Symmetry == Permutations(Handle) \cup Permutations(Id) \cup Permutations(Road)
=============================================================================
