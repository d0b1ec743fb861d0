----------------------------- MODULE MCRelayZone -----------------------------
(***************************************************************************)
(* An 8 x 8 grid with a crossing inside it, where a step to the next block  *)
(* carries through all bits of x or y, and one at its north-east edge.      *)
(***************************************************************************)
EXTENDS RelayZone

MCCenter == {<<7, 9>>, <<15, 14>>}
MCStart == {<<7, 9>>, <<1, 14>>}
=============================================================================
