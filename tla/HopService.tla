----------------------------- MODULE HopService ------------------------------
(***************************************************************************)
(* What a node's IP layer may expect of the layers below it, whether or not *)
(* they use relays: a packet it hands down for the next hop arrives there   *)
(* or is lost, and no other node's IP layer ever holds it.                  *)
(***************************************************************************)
EXTENDS Naturals

CONSTANTS Node, Packet, Src, Dst, NextHop

VARIABLE state   \* state[p]: how far p is, and the node that has it or will have it

Init == state = [p \in Packet |-> [phase |-> "unsent", node |-> Src[p]]]

\* An application sends p.
Send(p) ==
  /\ state[p].phase = "unsent"
  /\ state' = [state EXCEPT ![p].phase = "held"]

\* The IP layer that has p hands it down.
Hop(p) ==
  /\ state[p].phase = "held"
  /\ state' = [state EXCEPT ![p] = [phase |-> "flying", node |-> NextHop[@.node][Dst[p]]]]

\* The next hop's IP layer gets p.
Arrive(p) ==
  /\ state[p].phase = "flying"
  /\ state' = [state EXCEPT ![p].phase = IF state[p].node = Dst[p] THEN "arrived" ELSE "held"]

Lose(p) ==
  /\ state[p].phase = "flying"
  /\ state' = [state EXCEPT ![p] = [phase |-> "lost", node |-> Dst[p]]]

Next == \E p \in Packet : Send(p) \/ Hop(p) \/ Arrive(p) \/ Lose(p)

\* What never happens, without what has to happen.
Safety == Init /\ [][Next]_state

\* A packet on its way arrives or is lost in the end.
Spec == Init /\ [][Next]_state /\ \A p \in Packet : WF_state(Lose(p) \/ Arrive(p))
=============================================================================
