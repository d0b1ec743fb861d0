------------------------------ MODULE RelayZone ------------------------------
(***************************************************************************)
(* Vehicles drive over geohash blocks until a sender looks among them for  *)
(* the relay that stays longest in the zone around a crossing              *)
(* (neighbor_getnode_fromset_best); then they drive straight on, one block *)
(* at a time.  The sender's table holds every vehicle where it is, with    *)
(* the direction neighbors.h describes: degrees clockwise from north.      *)
(* Vehicles are at places and announce the blocks of these.                *)
(***************************************************************************)
EXTENDS GeoHash

CONSTANTS
  Vehicle, Heading,   \* the vehicles and the directions they take
  Center,             \* the places of crossings
  Start,              \* the places vehicles start from
  None,
  MaxTurns, MaxTicks  \* bounds on the turns before the choice and the moves after it

Place == (0 .. World - 1) \X (0 .. World - 1)
Side  == World \div 2 ^ Step

ASSUME ZoneAssumption ==
  /\ Heading \subseteq 0 .. 359 /\ Heading # {}
  /\ Center \cup Start \subseteq Place
  /\ 0 \notin Vehicle /\ None \notin Center

VARIABLES
  node,      \* node[v]: where a vehicle is, its geoHash, and its direction
  crossing,  \* the crossing the sender has chosen, or None
  relay,     \* its relay, or 0
  staying,   \* the vehicles that have been in the zone ever since
  turns, ticks

vars == <<node, crossing, relay, staying, turns, ticks>>

Init ==
  /\ node \in [Vehicle -> {[at |-> p, geoHash |-> SumoCartesian2Geohash(p), direction |-> d] :
                             p \in Start, d \in Heading}]
  /\ crossing = None
  /\ relay = 0
  /\ staying = {}
  /\ turns = 0 /\ ticks = 0

\* The side towards which a vehicle leaves its block.
Ahead(d) ==
  CASE 45 <= d /\ d < 135  -> "east"
    [] 135 <= d /\ d < 225 -> "south"
    [] 225 <= d /\ d < 315 -> "west"
    [] OTHER               -> "north"

\* The place one block further.
Further(v) ==
  LET step == GeoDirection[Ahead(node[v].direction)]
  IN  <<node[v].at[1] + step[1] * Side, node[v].at[2] + step[2] * Side>>

Driven(v) ==
  [node[v] EXCEPT !.at = Further(v), !.geoHash = SumoCartesian2Geohash(Further(v))]

Drive(v) ==
  /\ crossing = None
  /\ Further(v) \in Place
  /\ node' = [node EXCEPT ![v] = Driven(v)]
  /\ UNCHANGED <<crossing, relay, staying, turns, ticks>>

Turn(v, d) ==
  /\ crossing = None /\ turns < MaxTurns
  /\ d # node[v].direction
  /\ node' = [node EXCEPT ![v].direction = d]
  /\ turns' = turns + 1
  /\ UNCHANGED <<crossing, relay, staying, ticks>>

Blocks(set) == {set[c[1]][c[2]] : c \in (1 .. 3) \X (1 .. 3)}

Zone(c) == GetNeighborsInSet(SumoCartesian2Geohash(c))

\* The sender looks for a relay; the order of its table is any.
Choose(c, table) ==
  /\ crossing = None
  /\ crossing' = c
  /\ LET k == FromsetBest([i \in DOMAIN table |-> node[table[i]]], Zone(c))
     IN  relay' = IF k = 0 THEN 0 ELSE table[k]
  /\ staying' = {v \in Vehicle : node[v].geoHash \in Blocks(Zone(c))}
  /\ UNCHANGED <<node, turns, ticks>>

\* Every vehicle drives on.
Tick ==
  /\ crossing # None /\ ticks < MaxTicks
  /\ \A v \in Vehicle : Further(v) \in Place
  /\ node' = [v \in Vehicle |-> Driven(v)]
  /\ staying' = {v \in staying : Driven(v).geoHash \in Blocks(Zone(crossing))}
  /\ ticks' = ticks + 1
  /\ UNCHANGED <<crossing, relay, turns>>

Next ==
  \/ \E v \in Vehicle : Drive(v)
  \/ \E v \in Vehicle, d \in Heading : Turn(v, d)
  \/ \E c \in Center, table \in SetToSeqs(Vehicle) : Choose(c, table)
  \/ Tick

Spec == Init /\ [][Next]_vars

-----------------------------------------------------------------------------
(* Properties *)

\* The type invariant; in particular no place in the range has a number of more bits
\* than a block has.
TypeOK ==
  /\ node \in [Vehicle -> [at : Place, geoHash : 0 .. 2 ^ (2 * Step) - 1, direction : Heading]]
  /\ crossing \in Center \cup {None}
  /\ relay \in Vehicle \cup {0}
  /\ staying \subseteq Vehicle
  /\ turns \in 0 .. MaxTurns /\ ticks \in 0 .. MaxTicks

\* A vehicle that drives on gets to the block that is the neighbour of its old one in
\* this direction, whatever carries through the interleaved bits.
DrivesOneBlock ==
  [][\A v \in Vehicle :
       node'[v].at # node[v].at =>
         node'[v].geoHash = Neighbor[node[v].geoHash, Ahead(node[v].direction)]]_vars

\* The zone is the square around the crossing, laid out from north-west to
\* south-east as get_dtime counts on: a place that is a block away from the crossing is
\* in the part of the range that the zone's block on this side stands for.  At the edge
\* of the range it goes on at the other edge.  Halving the range leads to the same
\* blocks (geohash_encode, geohash_decode), but for places on the side of a block, which
\* it gives to the lower one.
ZoneLaidOut ==
  crossing # None =>
    LET zone == Zone(crossing) IN
    \A row, column \in 1 .. 3 :
      LET area == FastDecode[zone[row][column]]
          x    == (crossing[1] + (column - 2) * Side) % World
          y    == (crossing[2] + (2 - row) * Side) % World
      IN  /\ area.longitude.min <= x /\ x < area.longitude.max
          /\ area.latitude.min <= y /\ y < area.latitude.max
          /\ Decode[zone[row][column]] = area
          /\ LET block == Encode[x, y] IN
             /\ x <= FastDecode[block].longitude.max /\ y <= FastDecode[block].latitude.max
             /\ x % Side # 0 /\ y % Side # 0 => block = zone[row][column]

\* "the best node ... based on the relay zone dwelling time": as long as any vehicle
\* of the zone stays in it, the relay does.  Where the search for any vehicle of the zone
\* finds one (neighbor_getnode_fromset_random), so does the search for the best.
RelayStaysLongest ==
  /\ staying # {} => relay \in staying
  /\ crossing # None /\ ticks = 0 =>
       \A table \in SetToSeqs(Vehicle) :
         (relay = 0) <=> (FromsetRandom([i \in DOMAIN table |-> node[table[i]]], Zone(crossing)) = 0)
=============================================================================
