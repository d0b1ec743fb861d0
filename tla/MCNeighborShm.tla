--------------------------- MODULE MCNeighborShm ---------------------------
(***************************************************************************)
(* NeighborShm with three vehicles, a page of two entries (so that rcv can *)
(* run off its end), MAC addresses of two bytes and one restart of rcv.    *)
(* Block near is in the relay zone, where the direction of an entry decides *)
(* whether it ends the search at once; block far is not.                   *)
(***************************************************************************)
EXTENDS NeighborShm

CONSTANTS p1, p2, p3, near, far
=============================================================================
