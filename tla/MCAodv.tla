------------------------------- MODULE MCAodv -------------------------------
(***************************************************************************)
(* Three vehicles in a line: first b is in the middle, later c may be.       *)
(***************************************************************************)
EXTENDS Aodv, TLC

CONSTANTS a, b, c, p1

Both(L) == L \cup {<<l[2], l[1]>> : l \in L}
MCLine == Both({<<a, b>>, <<b, c>>})
MCTopologies == {MCLine, Both({<<b, c>>, <<a, c>>})}
MCSrc == p1 :> a
MCDst == p1 :> c
=============================================================================
