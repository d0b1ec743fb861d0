---------------------------- MODULE MCAodvRetries ----------------------------
(***************************************************************************)
(* Vehicle a alone: packets to x, z and w use up the requests of a second, so *)
(* that the search for y is put off once for each of the packets to y.       *)
(***************************************************************************)
EXTENDS Aodv, TLC

CONSTANTS a, x, y, z, w, px, pz, pw, y1, y2, y3

MCSrc == [p \in Packet |-> a]
MCDst == (px :> x) @@ (pz :> z) @@ (pw :> w) @@ (y1 :> y) @@ (y2 :> y) @@ (y3 :> y)
MCTopologies == {{}}

\* Requests that were put off run 100 microseconds after the limiter starts over:
\* before anything else.
Due == rreqCount[a] < RreqRateLimit /\ \E d \in Node : delayed[a][d] > 0
MCNext == Next /\ (Due => delayed' # delayed)
MCSpec == Init /\ [][MCNext]_vars

\* A destination is requested at most RreqRetries times with a TTL of NetDiameter.
RetriesBounded ==
  \A n, d \in Node : rt[n][d] # Null /\ rt[n][d].flag = "IN_SEARCH" => rt[n][d].cnt <= RreqRetries
=============================================================================
