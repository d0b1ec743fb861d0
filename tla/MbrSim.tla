------------------------------- MODULE MbrSim --------------------------------
(***************************************************************************)
(* Simulated vehicles that relay: the hello application and its neighbour   *)
(* table (mbr-neighbor), the choice of a relay (mbr_forward), the place in  *)
(* the IP layer that asks for it (Ipv4Interface::Send), the packet tag that *)
(* carries the answer, and the OCB MAC that acts on it and whose header     *)
(* tells the other MACs.                                                    *)
(*                                                                          *)
(* A vehicle is at a point of the map.  Times are kept as what is left of   *)
(* them: Tick lets time pass and waits for every timer that is due.  Hellos *)
(* have a channel of their own; one that is received is received at once,   *)
(* by any of the vehicles in reach.  Routes are constant, ARP answers, a    *)
(* frame can be lost.  A node stands for its addresses, IP's and the MAC's.  *)
(* The direction of a hello is 0, so get_dtime rates by the row of the       *)
(* block alone.                                                             *)
(***************************************************************************)
EXTENDS SumoLoader, WifiMacHeader, Filter

CONSTANTS
  Point,          \* where vehicles and vertices can be
  Node, Packet,
  Src, Dst,       \* Src[p], Dst[p]: where p starts and ends
  NextHop,        \* NextHop[n][d]: n's route to d
  App,            \* the vehicles with the hello application
  Reader,         \* those of them whose packets can need the table
  StartAt,        \* StartAt[n]: where n is at first
  Row,            \* Row[c][b]: the row of block b in the zone around c, 0 outside it
  Hears,          \* Hears[p][q]: a hello from p can be received at q
  Nets,           \* the net files, in a sequence; a simulation loads one of them
  Maps,           \* the road map of each net, after Initialize
  Interval,       \* between two hellos of a vehicle
  Expire,         \* how long an entry of the table lives
  Delay,          \* of the table's timer
  MinD, MaxD, DBE,    \* m_mind, m_maxd and DBE, in metres
  Drives,         \* Drives[p]: where a vehicle can be next that is at p
  Mobile,         \* the vehicles that move
  MaxMoves,       \* bound on their moves
  MaxStops        \* bound on the applications that are stopped

Off == -1   \* a timer that does not run

\* What Initialize makes of each net.
Loaded == FoldLeft(LAMBDA maps, n : Append(maps, Initialize(n)), <<>>, Nets)

\* The vertex for a vehicle in a block at a point, and the crossings between two
\* vertices.
VertexOf == [x \in (DOMAIN Nets) \X {Geohash(p) : p \in Point} \X Point |->
               FindVertexByVehiclePosition(Handles(Maps[x[1]]), Maps[x[1]], x[2], x[3])]
Crossings == [x \in UNION {{n} \X (DOMAIN Maps[n]) \X (DOMAIN Maps[n]) : n \in DOMAIN Nets} |->
                CrossVertices(Maps[x[1]], x[2], x[3])]

ASSUME SimAssumption ==
  /\ Reader \subseteq App /\ App \subseteq Node
  /\ Src \in [Packet -> Node] /\ Dst \in [Packet -> Node]
  /\ NextHop \in [Node -> [Node -> Node]]
  /\ StartAt \in [Node -> Point]
  /\ \A p \in Point : Geohash(p) \in Nat \ {0}
  /\ {Interval, Expire, Delay} \subseteq Nat \ {0}
  /\ MaxMoves \in Nat /\ MaxStops \in Nat
  /\ Mobile \subseteq Node
  /\ Null \notin Node
  /\ IsFiniteSet(App)
  /\ Maps = Loaded /\ \A n \in DOMAIN Nets : Len(Maps[n]) <= MaxVertices
  \* Every point has a vertex near it, and crossings are vertices.
  /\ \A n \in DOMAIN Nets : \A p, q \in Point : VertexOf[<<n, Geohash(q), p>>] \in DOMAIN Maps[n]
  /\ \A n \in DOMAIN Nets : \A h, k \in DOMAIN Maps[n] :
       /\ Crossings[<<n, h, k>>] \in Seq(DOMAIN Maps[n])
       /\ Geohash(Maps[n][h].at) \in Nat
  /\ \A n \in DOMAIN Nets : \A j, k \in DOMAIN Nets[n].junctions :
       Nets[n].junctions[j][1] = Nets[n].junctions[k][1] => j = k

VARIABLES
  net,        \* the net file of the simulation
  pos,        \* where each vehicle is
  moves,
  hello,      \* until each vehicle's next hello
  stop,       \* m_stop of its application
  nb,         \* its neighbour table, with the timer
  unsent,     \* packets no application has sent yet
  out,        \* packets each vehicle's IP layer is about to send
  tag,        \* the tag on each packet: a relay, or Null
  air,        \* frames a MAC has queued
  arrived, lost

vars == <<net, pos, moves, hello, stop, nb, unsent, out, tag, air, arrived, lost>>
apps == <<hello, stop, nb>>
packets == <<unsent, out, tag, air, arrived, lost>>

\* expire counts down; geohash is the block the vehicle was in when the entry was
\* made, at the point of its last hello.
Entry == [ip : Node, geohash : Nat, at : Point, expire : Int]
\* by, crossing and at are history: who chose the relay, for which crossing, and
\* where the relay was when it was last heard.
Tag   == [relay : Node, by : Node, crossing : Nat, at : Point]
\* hdr is the header as the receiver reads it.
Frame == [packet : Packet, hdr : Header(Node \cup {Null})]

\* The scripts' InstallApplications: the application of each vehicle in App is due to start.
InstallApplications ==
  /\ hello = [n \in Node |-> IF n \in App THEN 0 ELSE Off]
  /\ stop = [n \in Node |-> FALSE]

Init ==
  /\ net \in DOMAIN Nets
  /\ pos = StartAt
  /\ moves = 0
  /\ InstallApplications
  /\ nb = [n \in Node |-> [table |-> <<>>, timer |-> Off]]
  /\ unsent = Packet
  /\ out = [n \in Node |-> {}]
  /\ tag = [p \in Packet |-> Null]
  /\ air = {}
  /\ arrived = {} /\ lost = {}

----------------------------------------------------------------------------
(* The neighbour table *)

\* The entries that have not expired.
Alive(table) == {e \in ToSet(table) : e.expire >= 0}

\* Mutant of Purge: the timer starts again only if an entry has expired.
PurgeIfExpired(b) ==
  LET alive == Filter(b.table, Alive(b.table))
  IN  [table |-> alive, timer |-> IF alive # b.table THEN Delay ELSE b.timer]

\* Purge: entries that have expired go; the timer starts again, unless there was
\* nothing to look at.
Purge(b) ==
  IF b.table = <<>> THEN b
  ELSE [table |-> Filter(b.table, Alive(b.table)), timer |-> Delay]

\* The hello of vehicle n at p, and its bytes.  The direction is not among them; a point
\* stands for longitude and latitude.
Hello(n, p) == [dst |-> n, origin |-> n, geohash |-> Geohash(p), direction |-> 0, at |-> p]

SerializeHello(h)   == <<h.dst, h.origin, h.geohash, h.at>>
DeserializeHello(b) == [dst |-> b[1], origin |-> b[2], geohash |-> b[3], direction |-> 0, at |-> b[4]]

\* A neighbour of which hello h has told.
Neighbor(h) == [ip |-> h.origin, geohash |-> h.geohash, at |-> h.at, expire |-> Expire]

\* Mutant of Update: a vehicle that is known is entered once more.
UpdateAppends(b, h) == Purge([b EXCEPT !.table = Append(@, Neighbor(h))])

\* Update: a vehicle that is known keeps its block.
Update(b, h) ==
  LET k == SelectInSeq(b.table, LAMBDA e : e.ip = h.origin)
  IN  IF k # 0
        THEN [b EXCEPT !.table[k].expire = IF @ > Expire THEN @ ELSE Expire,
                       !.table[k].at = h.at]
        ELSE Purge([b EXCEPT !.table = Append(@, Neighbor(h))])

\* ReceiveWavePacket
ReceiveWavePacket(b, bytes) == Update(b, DeserializeHello(bytes))

\* GenerateWaveTraffic, and ReceiveWavePacket of the vehicles that get the hello.
GenerateWaveTraffic(n, receivers) ==
  /\ hello[n] = 0
  /\ receivers \subseteq {m \in Reader \ {n} : Hears[pos[n]][pos[m]]}
  /\ nb' = [m \in Node |-> IF m \in receivers
                           THEN ReceiveWavePacket(nb[m], SerializeHello(Hello(n, pos[n]))) ELSE nb[m]]
  /\ hello' = [hello EXCEPT ![n] = IF stop[n] THEN Off ELSE Interval]
  /\ UNCHANGED <<net, pos, moves, stop, packets>>

StopApplication(n) ==
  /\ n \in App /\ ~stop[n]
  /\ Cardinality({m \in Node : stop[m]}) < MaxStops
  /\ stop' = [stop EXCEPT ![n] = TRUE]
  /\ UNCHANGED <<net, pos, moves, hello, nb, packets>>

\* The table's timer expires.
PurgeTimer(n) ==
  /\ nb[n].timer = 0
  /\ nb' = [nb EXCEPT ![n] = Purge([@ EXCEPT !.timer = Off])]
  /\ UNCHANGED <<net, pos, moves, hello, stop, packets>>

Left(timer) == IF timer = Off THEN Off ELSE timer - 1

Tick ==
  /\ \A n \in Node : hello[n] # 0 /\ nb[n].timer # 0
  /\ hello' = [n \in Node |-> Left(hello[n])]
  /\ nb' = [n \in Node |->
       [table |-> [k \in DOMAIN nb[n].table |-> [nb[n].table[k] EXCEPT !.expire = @ - 1]],
        timer |-> Left(nb[n].timer)]]
  /\ UNCHANGED <<net, pos, moves, stop, packets>>

Move(n, p) ==
  /\ n \in Mobile /\ moves < MaxMoves
  /\ p \in Drives[pos[n]]
  /\ pos' = [pos EXCEPT ![n] = p]
  /\ moves' = moves + 1
  /\ UNCHANGED <<net, apps, packets>>

----------------------------------------------------------------------------
(* mbr_forward *)

\* GetnbFromsetBest: the first entry with the best rating, or 0 if none is in the zone.
BestInZone(table, c) ==
  LET rating(k) == Row[c][table[k].geohash]
      best == {k \in DOMAIN table : rating(k) > 0 /\ \A l \in DOMAIN table : rating(l) <= rating(k)}
  IN  IF best = {} THEN 0 ELSE Min(best)

\* The crossing is so close to one of the two, or to both, that they see each other.
\* d3 and d4 of the code are k / d1 and k / d2.
InRange(d1, d2) ==
  \/ d1 <= MinD \/ d2 <= MinD
  \/ /\ d1 <= MaxD \/ d2 <= MaxD
     /\ LET k == d1 * d2 - MinD * d1 - MinD * d2
        IN  k * k * (d1 * d1 + d2 * d2) < DBE * DBE * d1 * d1 * d2 * d2

\* Mutant of DstInZone: the test is left out.
NeverInZone(c, dst) == FALSE

\* The destination itself is in the zone around crossing c.
DstInZone(c, dst) == Row[Maps[net][c].geoHash][dst.geohash] # 0

\* Where a neighbour is in the table, 0 if it is not.
GetGeohashFromIpInNb(table, ip) == SelectInSeq(table, LAMBDA e : e.ip = ip)

\* The tag for a packet of vehicle n at p with this table to a neighbour, or Null
\* when the code returns -1.
MbrForward(table, n, p, hop) ==
  LET k         == GetGeohashFromIpInNb(table, hop)
      dst       == table[k]
      crossings == Crossings[<<net, VertexOf[<<net, dst.geohash, dst.at>>], VertexOf[<<net, Geohash(p), p>>]>>]
      best(c)   == BestInZone(table, Maps[net][c].geoHash)
      \* where the loop over the crossings ends: a crossing without a relay is skipped
      i         == SelectInSeq(crossings, LAMBDA c : DstInZone(c, dst) \/ best(c) # 0)
      at        == Maps[net][crossings[i]].at
      relay     == table[best(crossings[i])]
  IN  IF \/ k = 0
         \/ i = 0
         \/ DstInZone(crossings[i], dst) \/ best(crossings[i]) = 0
         \/ InRange(Distance(p, at), Distance(dst.at, at))
        THEN Null
        ELSE [relay |-> relay.ip, by |-> n, crossing |-> Geohash(at), at |-> relay.at]

----------------------------------------------------------------------------
(* Packets and frames *)

Generate(p) ==
  /\ p \in unsent
  /\ unsent' = unsent \ {p}
  /\ out' = [out EXCEPT ![Src[p]] = @ \cup {p}]
  /\ UNCHANGED <<net, pos, moves, apps, tag, air, arrived, lost>>

\* Of a new header some bits are given; those that nobody sets, and addresses, are
\* modelled to be zero until they are.
NewHeader == [
  ctrl |-> [type |-> 0, subtype |-> 0, toDs |-> 0, fromDs |-> 0, moreFrag |-> 0, retry |-> 0,
            moreData |-> 0, wep |-> 0, order |-> 1],
  duration |-> 0,
  addr1 |-> Null, addr2 |-> Null, addr3 |-> Null, addr4 |-> Null,
  sequence |-> [frag |-> 0, seq |-> 0],
  qos |-> [tid |-> 0, eosp |-> 0, ackPolicy |-> 0, amsdu |-> 0, stuff |-> 0]]

\* What a MAC hears when another sends a packet with a header.
OnAir(p, hdr) == [packet |-> p, hdr |-> Deserialize(NewHeader, Serialize(hdr))]

\* OcbWifiMac::Enqueue: the tag decides how the frame is addressed.  The third address,
\* the wildcard BSSID in every frame, stays Null.
Enqueue(n, to, t) ==
  IF t # Null
    THEN [SetType(NewHeader, "MBR_DATA") EXCEPT !.addr1 = t.relay, !.addr2 = n, !.addr4 = to]
    ELSE [SetType(NewHeader, "DATA") EXCEPT !.addr1 = to, !.addr2 = n]

\* Mutant of NewTag: the tag of an earlier hop stays on a packet without a relay.
NewTagOnly(p, t) == IF t # Null THEN t ELSE tag[p]

\* The tag of an earlier hop is removed, and a new one added if there is a relay.
NewTag(p, t) == t

\* Ipv4Interface::Send
Send(n, p) ==
  LET hop == NextHop[n][Dst[p]]
      b   == Purge(nb[n])
      t   == NewTag(p, MbrForward(b.table, n, pos[n], hop))
  IN  /\ p \in out[n]
      /\ out' = [out EXCEPT ![n] = @ \ {p}]
      /\ nb' = [nb EXCEPT ![n] = b]
      /\ tag' = [tag EXCEPT ![p] = t]
      /\ air' = air \cup {OnAir(p, Enqueue(n, hop, t))}
      /\ UNCHANGED <<net, pos, moves, hello, stop, unsent, arrived, lost>>

\* A frame is heard by the vehicle it is for; none hears its own.
Addressed(f) == f \in air /\ f.hdr.addr1 # f.hdr.addr2

\* OcbWifiMac::Receive of a plain frame: the IP layer gets the packet.
ForwardUp(f) ==
  /\ Addressed(f) /\ ~IsMBRData(f.hdr)
  /\ air' = air \ {f}
  /\ IF Dst[f.packet] = f.hdr.addr1
       THEN arrived' = arrived \cup {f.packet} /\ UNCHANGED out
       ELSE out' = [out EXCEPT ![f.hdr.addr1] = @ \cup {f.packet}] /\ UNCHANGED arrived
  /\ UNCHANGED <<net, pos, moves, apps, unsent, tag, lost>>

\* OcbWifiMac::Receive of a frame to relay: the MAC queues it for the fourth address.
Relay(f) ==
  /\ Addressed(f) /\ IsMBRData(f.hdr)
  /\ air' = (air \ {f}) \cup
       {OnAir(f.packet, [SetType(f.hdr, "DATA") EXCEPT !.addr1 = f.hdr.addr4, !.addr2 = f.hdr.addr1])}
  /\ UNCHANGED <<net, pos, moves, apps, unsent, out, tag, arrived, lost>>

\* Nobody received the frame, or a queue dropped it.
Lose(f) ==
  /\ f \in air
  /\ air' = air \ {f}
  /\ lost' = lost \cup {f.packet}
  /\ UNCHANGED <<net, pos, moves, apps, unsent, out, tag, arrived>>

Next ==
  \/ \E n \in Node, receivers \in SUBSET Reader : GenerateWaveTraffic(n, receivers)
  \/ \E n \in Node : StopApplication(n) \/ PurgeTimer(n)
  \/ Tick
  \/ \E n \in Node, p \in Point : Move(n, p)
  \/ \E p \in Packet : Generate(p)
  \/ \E n \in Node, p \in Packet : Send(n, p)
  \/ \E f \in air : ForwardUp(f) \/ Relay(f) \/ Lose(f)

\* A frame in a MAC's queue is received or lost in the end.
Spec == Init /\ [][Next]_vars /\ WF_vars(\E f \in air : Lose(f) \/ ForwardUp(f) \/ Relay(f))

-----------------------------------------------------------------------------
(* Properties *)

\* The type invariant.
TypeOK ==
  /\ pos \in [Node -> Point] /\ moves \in 0 .. MaxMoves
  /\ hello \in [Node -> Off .. Interval] /\ stop \in [Node -> BOOLEAN]
  /\ \A n \in Node : /\ nb[n].timer \in Off .. Delay
                     /\ ToSet(nb[n].table) \subseteq Entry
                     /\ Len(nb[n].table) <= Cardinality(App \ {n})
  /\ unsent \subseteq Packet /\ arrived \subseteq Packet /\ lost \subseteq Packet
  /\ out \in [Node -> SUBSET Packet]
  /\ tag \in [Packet -> Tag \cup {Null}]
  /\ air \subseteq Frame

\* How far a packet is, for the layer above.
HopState(p) ==
  IF p \in unsent THEN [phase |-> "unsent", node |-> Src[p]]
  ELSE IF \E n \in Node : p \in out[n]
    THEN [phase |-> "held", node |-> CHOOSE n \in Node : p \in out[n]]
  ELSE IF \E f \in air : f.packet = p
    THEN LET f == CHOOSE f \in air : f.packet = p
         IN  [phase |-> "flying", node |-> IF IsMBRData(f.hdr) THEN f.hdr.addr4 ELSE f.hdr.addr1]
  ELSE [phase |-> IF p \in arrived THEN "arrived" ELSE "lost", node |-> Dst[p]]

hopState == [p \in Packet |-> HopState(p)]

Hops == INSTANCE HopService WITH state <- hopState

\* Relaying is invisible to IP: tables, tags and relays together behave like a
\* link layer that brings each packet to its next hop or loses it.
RelaysInvisible == Hops!Spec

\* A relay is a third vehicle.  A sender is not in its own table; the next hop is,
\* and nothing but the zone test keeps it from being rated best.
RelayIsThirdParty ==
  \A f \in air : IsMBRData(f.hdr) => f.hdr.addr1 \notin {f.hdr.addr2, f.hdr.addr4}

\* The tag stays on a packet from hop to hop, but a frame is relayed only by a
\* vehicle that its sender chose.
RelayChosenBySender ==
  \A f \in air : IsMBRData(f.hdr) =>
    tag[f.packet] # Null /\ tag[f.packet].by = f.hdr.addr2 /\ tag[f.packet].relay = f.hdr.addr1

\* An entry stays in the table at most one period of the timer longer than it
\* lives, although an update does not start the timer and a table found empty
\* does not start it again.
NoEntryOutlivesExpiry ==
  \A n \in Node : \A k \in DOMAIN nb[n].table : nb[n].table[k].expire + Delay >= 0

\* Loading a net file and dividing its roads keeps them: two junctions are joined along a
\* road, in both directions and in steps of at most MaxDist, if and only if an edge of the
\* file that was not replaced joins them (Initialize).
WellLoaded ==
  FoldLeft(LAMBDA found, n : Append(found, Follows(Initialize(n), n, LoadSumoMap(n).roads)), <<>>, Nets)
MapFollowsNet == WellLoaded[net]

\* GetnbFromsetBest's comment: the best node "which is in the range of the geohash
\* set".  The place the relay announced last is in the zone of the crossing.
RelayInZone ==
  \A p \in Packet : tag[p] # Null => Row[tag[p].crossing][Geohash(tag[p].at)] # 0
=============================================================================
