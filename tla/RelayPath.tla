------------------------------ MODULE RelayPath ------------------------------
(***************************************************************************)
(* A packet's way through Linux nodes that run the relay module: the        *)
(* netfilter hook that turns it to a relay (output_handler, mbr_forward),   *)
(* the kernel patch that takes it through the relay below IP, and what the  *)
(* nodes believe about positions (debugfs, beacons, the relay table).       *)
(*                                                                          *)
(* NeighborShm shows that the hook can use its neighbour table as one value *)
(* per vehicle, and RoadGraph what the map can be: here the table is a      *)
(* function and the map a constant.  A position is the number of a geohash  *)
(* block.  Relays are chosen by get_dtime, which rates any entry inside the *)
(* zone 1 to 3 by its direction, a field rcv.c never writes: any entry in   *)
(* the zone can win, and no other.  IP routes are constant, ARP answers,    *)
(* and every frame between blocks that see each other arrives.              *)
(***************************************************************************)
EXTENDS RoadMap

CONSTANTS
  Node, Packet,
  Src, Dst,    \* Src[p], Dst[p]: where p starts and ends
  NextHop,     \* NextHop[n][d]: n's route to d
  Block,       \* the geohash blocks nodes can be in
  Sees,        \* Sees[a][b]: the radio reaches from block a to block b
  Zone,        \* Zone[c]: the nine blocks around c (geohash_get_neighbors_in_set)
  Vertices,    \* the road map: its list of junctions
  Mem,         \* and the junctions
  Listener,    \* the nodes that run rcv
  TableNode,   \* the nodes built with CONFIG_MBR_TABLE
  StartAt,     \* StartAt[n]: where n is at first
  MaxMoves,    \* bound on the moves of all nodes together
  MaxWrites    \* bound on the debugfs writes other than geohash

ASSUME PathAssumption ==
  /\ Block \subseteq Nat \ {0}
  /\ Zone \in [Block -> SUBSET Nat]
  /\ StartAt \in [Node -> Block]
  /\ Src \in [Packet -> Node] /\ Dst \in [Packet -> Node]
  /\ NextHop \in [Node -> [Node -> Node]]
  /\ Vertices # <<>>
  /\ Null \notin Node \cup Nat
  /\ MaxMoves \in Nat /\ MaxWrites \in Nat

\* Every road leads to a junction of the map, as it does on those that messages build.
ASSUME MapAssumption ==
  /\ IsFiniteSet(DOMAIN Mem) /\ Vertices \in Seq(DOMAIN Mem)
  /\ \A h \in DOMAIN Mem : /\ Mem[h].geoHash \in Nat
                           /\ Mem[h].edges \in Seq(ToSet(Mem[h].edges))
                           /\ \A e \in ToSet(Mem[h].edges) : e.vertex \in DOMAIN Mem

VARIABLES
  pos,        \* where each node is
  status,     \* global_mbr_status of each node
  statis,     \* how many packet_stat records each node keeps
  neigh,      \* neigh[n][m]: the block n's neighbour table has for m, or Null
  mbrtable,   \* the relay table of each node, newest entry first
  unsent,     \* packets no application has sent yet
  out,        \* packets each node's IP layer is about to send
  air,        \* frames on the air
  received,   \* which nodes' IP layer got which packet
  lost,       \* packets whose frame nobody received
  moves, writes

vars == <<pos, status, statis, neigh, mbrtable, unsent, out, air, received, lost, moves, writes>>
radio == <<unsent, out, air, received, lost>>

Status == [geohash_this : Block \cup {0}, mbr_start : {0, 1}, relay_work : Nat,
           stat_on : {0, 1}, stat_write : {0, 1}]
TableEntry == [geoHash_this : Block \cup {0}, geoHash_dst : Block, geoHash_nexthop : Nat, isvalid : BOOLEAN]
\* fresh is a history field: what the sender believed when it chose the relay was
\* true and stays so.
Frame == [packet : Packet, type : {"IP", "MAPRELAY"}, ta : Node, ra : Node,
          real : Node \cup {Null}, fresh : BOOLEAN]

Init ==
  /\ pos = StartAt
  /\ status = [n \in Node |-> [geohash_this |-> 0, mbr_start |-> 0, relay_work |-> 0,
                               stat_on |-> 0, stat_write |-> 0]]
  /\ statis = [n \in Node |-> 0]
  /\ neigh = [n \in Node |-> [m \in Node |-> Null]]
  /\ mbrtable = [n \in Node |-> <<>>]
  /\ unsent = Packet
  /\ out = [n \in Node |-> {}]
  /\ air = {}
  /\ received = {}
  /\ lost = {}
  /\ moves = 0
  /\ writes = 0

----------------------------------------------------------------------------
(* Positions and beliefs *)

Move(n, b) ==
  /\ moves < MaxMoves
  /\ b # pos[n]
  /\ pos' = [pos EXCEPT ![n] = b]
  /\ moves' = moves + 1
  /\ UNCHANGED <<status, statis, neigh, mbrtable, radio, writes>>

\* A node broadcasts its block and one listener's add_neighbor stores it.  A host
\* receives its own broadcasts.
Beacon(n, m) ==
  /\ m \in Listener
  /\ n = m \/ Sees[pos[n]][pos[m]]
  /\ neigh' = [neigh EXCEPT ![m][n] = pos[n]]
  /\ UNCHANGED <<pos, status, statis, mbrtable, radio, moves, writes>>

\* update_mbrtable_outrange, with the position the node has just got.
UpdateMbrtableOutrange(table, updated) ==
  [k \in DOMAIN table |->
     IF table[k].geoHash_this = updated THEN [table[k] EXCEPT !.isvalid = FALSE] ELSE table[k]]

\* status_geohash_write: user space tells the module where the node is.
StatusGeohashWrite(n) ==
  /\ status' = [status EXCEPT ![n].geohash_this = pos[n]]
  /\ mbrtable' = [mbrtable EXCEPT ![n] = UpdateMbrtableOutrange(@, pos[n])]
  /\ UNCHANGED <<pos, statis, neigh, radio, moves, writes>>

\* The other debugfs files: mbr_start, relay_work, stat_on and stat_write.
StatusWrite(n, field, value) ==
  /\ writes < MaxWrites
  /\ status' = [status EXCEPT ![n][field] = value]
  /\ writes' = writes + 1
  /\ UNCHANGED <<pos, statis, neigh, mbrtable, radio, moves>>

----------------------------------------------------------------------------
(* mbr_forward *)

\* The crossing between the junctions nearest to two blocks, as a block, or Null.
Crossing(this, dst) ==
  LET x == CrossVertex(Mem, FindVertexByPosition(Vertices, Mem, this),
                            FindVertexByPosition(Vertices, Mem, dst))
  IN  IF x = Null THEN Null ELSE Mem[x].geoHash

\* mbrtable_get_nexthop_geohash: the first valid entry for the block.
CachedBlock(table, dst) ==
  LET k == SelectInSeq(table, LAMBDA e : e.geoHash_dst = dst /\ e.isvalid)
  IN  IF k = 0 THEN Null ELSE table[k].geoHash_nexthop

\* Mutant of UpdateMbrtable: an entry that was invalidated is not found again.
UpdateMbrtableValid(table, this, dst, nexthop) ==
  LET k == SelectInSeq(table, LAMBDA e : e.geoHash_dst = dst /\ e.isvalid)
  IN  IF k # 0
        THEN [table EXCEPT ![k].geoHash_nexthop = nexthop, ![k].isvalid = TRUE]
        ELSE <<[geoHash_this |-> this, geoHash_dst |-> dst,
                geoHash_nexthop |-> nexthop, isvalid |-> TRUE]>> \o table

\* update_mbrtable
UpdateMbrtable(table, this, dst, nexthop) ==
  LET k == SelectInSeq(table, LAMBDA e : e.geoHash_dst = dst)
  IN  IF k # 0
        THEN [table EXCEPT ![k].geoHash_nexthop = nexthop, ![k].isvalid = TRUE]
        ELSE <<[geoHash_this |-> this, geoHash_dst |-> dst,
                geoHash_nexthop |-> nexthop, isvalid |-> TRUE]>> \o table

\* get_geohash_this: zero until user space has said where the node is.
GetGeohashThis(n) == status[n].geohash_this

\* The block around which n looks for a relay towards a node in block dst.
RelayBlock(n, dst) ==
  LET cached == CachedBlock(mbrtable[n], dst)
  IN  IF n \in TableNode /\ cached # Null THEN cached
      ELSE Crossing(GetGeohashThis(n), dst)

\* The relay table after that: a miss that found a crossing is recorded.
TableAfter(n, dst) ==
  LET x == Crossing(GetGeohashThis(n), dst)
  IN  IF n \in TableNode /\ CachedBlock(mbrtable[n], dst) = Null /\ x # Null
        THEN UpdateMbrtable(mbrtable[n], GetGeohashThis(n), dst, x)
        ELSE mbrtable[n]

\* Mutant of Relays: any neighbour will do.
RelaysAnywhere(n, block) == {m \in Node : neigh[n][m] # Null}

\* neighbor_getnode_fromset_best: the entries that can be rated best.
Relays(n, block) == IF block = Null THEN {} ELSE {m \in Node : neigh[n][m] \in Zone[block]}

\* The sender's beliefs hold, its relay table did not answer for another place, and
\* nobody moves any more.
Fresh(n, hop, relay) ==
  /\ moves = MaxMoves
  /\ status[n].geohash_this = pos[n]
  /\ neigh[n][hop] = pos[hop]
  /\ neigh[n][relay] = pos[relay]
  /\ RelayBlock(n, pos[hop]) = Crossing(pos[n], pos[hop])

----------------------------------------------------------------------------
(* The hook and the radio *)

Send(p) ==
  /\ p \in unsent
  /\ unsent' = unsent \ {p}
  /\ out' = [out EXCEPT ![Src[p]] = @ \cup {p}]
  /\ UNCHANGED <<pos, status, statis, neigh, mbrtable, air, received, lost, moves, writes>>

\* Mutant of Flushed: the loop frees a record before it looks whether there is one.
FlushedOneMore(n) ==
  IF status[n].stat_write = 1 THEN (IF statis[n] = 0 THEN 0 - 1 ELSE 0) ELSE statis[n]

\* output_handler's first lines: the statistics are traced and freed on request.
Flushed(n) == IF status[n].stat_write = 1 THEN 0 ELSE statis[n]

\* NF_ACCEPT: the stack sends the packet to the next hop itself.
Accept(n, p, hop) ==
  /\ air' = air \cup {[packet |-> p, type |-> "IP", ta |-> n, ra |-> hop,
                       real |-> Null, fresh |-> FALSE]}
  /\ status' = [status EXCEPT ![n].stat_write = IF @ = 1 THEN 0 ELSE @]
  /\ statis' = [statis EXCEPT ![n] = Flushed(n)]

\* Mutant of Steal: the hook sends the packet and lets the stack send it too.
StealAndAccept(n, p, hop, relay) ==
  /\ air' = air \cup {[packet |-> p, type |-> "MAPRELAY", ta |-> n, ra |-> relay,
                       real |-> hop, fresh |-> Fresh(n, hop, relay)],
                      [packet |-> p, type |-> "IP", ta |-> n, ra |-> hop,
                       real |-> Null, fresh |-> FALSE]}
  /\ status' = [status EXCEPT ![n].stat_write = IF @ = 1 THEN 0 ELSE @,
                              ![n].relay_work = @ + 1]
  /\ statis' = [statis EXCEPT ![n] = Flushed(n) + status[n].stat_on]

\* eth_header_dirty and push_real_dst_mac: the Ethernet header of a frame to the relay,
\* and before it the next hop's address.
EthHeaderDirty(n, p, relay, fresh) ==
  [packet |-> p, type |-> "MAPRELAY", ta |-> n, ra |-> relay, real |-> Null, fresh |-> fresh]
PushRealDstMac(frame, hop) == [frame EXCEPT !.real = hop]

\* NF_STOLEN: the frame goes to the relay with the next hop's address behind it.
Steal(n, p, hop, relay) ==
  /\ air' = air \cup {PushRealDstMac(EthHeaderDirty(n, p, relay, Fresh(n, hop, relay)), hop)}
  /\ status' = [status EXCEPT ![n].stat_write = IF @ = 1 THEN 0 ELSE @,
                              ![n].relay_work = @ + 1]
  /\ statis' = [statis EXCEPT ![n] = Flushed(n) + status[n].stat_on]

OutputHandler(n, p) ==
  LET hop   == NextHop[n][Dst[p]]
      dst   == neigh[n][hop]
      known == status[n].mbr_start # 0 /\ dst # Null
  IN  /\ p \in out[n]
      /\ out' = [out EXCEPT ![n] = @ \ {p}]
      /\ mbrtable' = [mbrtable EXCEPT ![n] = IF known THEN TableAfter(n, dst) ELSE @]
      /\ LET relays == IF known THEN Relays(n, RelayBlock(n, dst)) ELSE {}
         IN  \/ relays = {} /\ Accept(n, p, hop)
             \/ \E relay \in relays : Steal(n, p, hop, relay)
      /\ UNCHANGED <<pos, neigh, unsent, received, lost, moves, writes>>

Heard(f) == f.ra # f.ta /\ Sees[pos[f.ta]][pos[f.ra]]

\* The patched stack hands an IP frame to IP, which keeps or forwards the packet.
ReceiveIp(f) ==
  /\ f \in air /\ Heard(f) /\ f.type = "IP"
  /\ air' = air \ {f}
  /\ received' = received \cup {<<f.packet, f.ra>>}
  /\ out' = IF Dst[f.packet] = f.ra THEN out ELSE [out EXCEPT ![f.ra] = @ \cup {f.packet}]
  /\ UNCHANGED <<pos, status, statis, neigh, mbrtable, unsent, lost, moves, writes>>

\* Mutant of ReceiveMaprelay: the relay's IP layer gets the packet as well.
ReceiveMaprelayUp(f) ==
  /\ f \in air /\ Heard(f) /\ f.type = "MAPRELAY"
  /\ air' = air \ {f}
  /\ received' = received \cup {<<f.packet, f.ra>>}
  /\ out' = [out EXCEPT ![f.ra] = @ \cup {f.packet}]
  /\ UNCHANGED <<pos, status, statis, neigh, mbrtable, unsent, lost, moves, writes>>

\* The patched ieee80211_data_to_8023 and ieee80211_deliver_skb: the frame is sent
\* on as an IP frame to the address behind the header, without the hook.
ReceiveMaprelay(f) ==
  /\ f \in air /\ Heard(f) /\ f.type = "MAPRELAY"
  /\ air' = (air \ {f}) \cup {[packet |-> f.packet, type |-> "IP", ta |-> f.ra, ra |-> f.real,
                               real |-> Null, fresh |-> FALSE]}
  /\ UNCHANGED <<pos, status, statis, neigh, mbrtable, unsent, out, received, lost, moves, writes>>

\* A frame out of reach is lost, and so is one a node addresses to itself: the
\* relay that is the next hop, or the sender that chose itself.
Lose(f) ==
  /\ f \in air /\ ~Heard(f)
  /\ air' = air \ {f}
  /\ lost' = lost \cup {f.packet}
  /\ UNCHANGED <<pos, status, statis, neigh, mbrtable, unsent, out, received, moves, writes>>

Receive(f) == ReceiveIp(f) \/ ReceiveMaprelay(f)

Next ==
  \/ \E n \in Node, b \in Block : Move(n, b)
  \/ \E n, m \in Node : Beacon(n, m)
  \/ \E n \in Listener : StatusGeohashWrite(n)
  \/ \E n \in Listener, v \in {0, 1} :
       \E field \in {"mbr_start", "relay_work", "stat_on", "stat_write"} : StatusWrite(n, field, v)
  \/ \E p \in Packet : Send(p)
  \/ \E n \in Node, p \in Packet : OutputHandler(n, p)
  \/ \E f \in air : ReceiveIp(f) \/ ReceiveMaprelay(f) \/ Lose(f)

\* A frame on the air is received or lost; nothing else has to happen.
Spec == Init /\ [][Next]_vars /\ WF_vars(\E f \in air : Receive(f) \/ Lose(f))

-----------------------------------------------------------------------------
(* Properties *)

\* The type invariant.
TypeOK ==
  /\ pos \in [Node -> Block]
  /\ status \in [Node -> Status]
  /\ statis \in [Node -> Nat]
  /\ neigh \in [Node -> [Node -> Block \cup {Null}]]
  /\ mbrtable \in [Node -> Seq(TableEntry)]
  /\ unsent \subseteq Packet /\ lost \subseteq Packet
  /\ out \in [Node -> SUBSET Packet]
  /\ air \subseteq Frame
  /\ received \subseteq Packet \X Node
  /\ moves \in 0 .. MaxMoves /\ writes \in 0 .. MaxWrites

\* A packet exists once: the hook either leaves it to the stack or takes it, and a
\* relay sends it on instead of handing it up.
Copies(p) ==
  Cardinality({f \in air : f.packet = p}) + Cardinality({n \in Node : p \in out[n]})
OneCopy ==
  \A p \in Packet :
    Copies(p) + (IF p \in unsent THEN 1 ELSE 0) + (IF p \in lost THEN 1 ELSE 0)
              + (IF <<p, Dst[p]>> \in received THEN 1 ELSE 0) = 1

\* The IP layer of a relay never sees the packets it relays: only nodes on the
\* packet's route receive it, in the order of the route.
ReceivedAlongRoute ==
  \A r \in received :
    \/ r[2] = NextHop[Src[r[1]]][Dst[r[1]]]
    \/ \E n \in Node : <<r[1], n>> \in received /\ r[2] = NextHop[n][Dst[r[1]]]

\* What a relay is for.  When a source that knew where it, the next hop and the
\* relay were sends a packet to a relay other than these two, and nobody moves any
\* more, the packet arrives at the next hop, although source and next hop may not
\* see each other.
FreshRelayDelivers ==
  \A p \in Packet :
    (\E f \in air : f.packet = p /\ f.fresh /\ f.ta = Src[p] /\ f.ra \notin {f.ta, f.real})
      ~> <<p, NextHop[Src[p]][Dst[p]]>> \in received

\* update_mbrtable keeps one entry per destination block, so that an entry made
\* valid again is the one that answers.
OneEntryPerBlock ==
  \A n \in Node : \A k, l \in DOMAIN mbrtable[n] :
    mbrtable[n][k].geoHash_dst = mbrtable[n][l].geoHash_dst => k = l

\* What the comment on update_mbrtable_outrange promises: when the node's geohash
\* changes the relay table is updated, so that no valid entry was computed for
\* another place.
TableFollowsPosition ==
  \A n \in Node : \A k \in DOMAIN mbrtable[n] :
    mbrtable[n][k].isvalid => mbrtable[n][k].geoHash_this = status[n].geohash_this
=============================================================================
