------------------------------- MODULE GeoSvr -------------------------------
(***************************************************************************)
(* Routing along roads in NS3/geoSVR/model: hellos, a path of crossings that *)
(* the source puts into the header, the choice of the next vehicle on the    *)
(* road ahead, and packets that wait for a neighbour.                        *)
(*                                                                           *)
(* A hello takes no time, a packet does.  Every vehicle has one interface    *)
(* with one address.                                                         *)
(***************************************************************************)
EXTENDS GeoSvrMap, GeoSvrPacket, Ipv4Interface, Filter

CONSTANTS
  Node, Packet, Src, Dst,
  Layouts,        \* where the vehicles may be: functions from Node to <<x, y>>
  Range2,         \* the square of the radio range
  Reach, Goal,    \* a next hop is less than Reach away, best is Goal
  MaxQueueLen, Ttl,
  None,           \* no entry
  Fresh, Loopback, Queued, Delivered, Lost,   \* where a packet is, if not on its way
  MaxEvents       \* bound: moves, lost hellos and frames, entries and packets that grow too
                  \* old, interfaces that go down, addresses that are removed

ASSUME GeoSvrAssumption ==
  /\ {Src[p] : p \in Packet} \cup {Dst[p] : p \in Packet} \subseteq Node
  /\ \A p \in Packet : Src[p] # Dst[p]
  /\ Layouts \subseteq [Node -> Int \X Int]
  /\ MaxQueueLen \in Nat \ {0} /\ Ttl \in Nat \ {0} /\ MaxEvents \in Nat
  /\ {None, Fresh, Loopback, Queued, Delivered, Lost} \cap Node = {}
  /\ IsInjective(<<None, Fresh, Loopback, Queued, Delivered, Lost>>)

VARIABLES
  pos,        \* where the vehicles are
  running,    \* vehicles whose interface is up
  addressed,  \* vehicles whose interface has its address
  up,         \* vehicles that take part: m_socketAddresses is not empty
  table,      \* m_neighbors: per vehicle and neighbour None or position, road and age
  types,      \* m_map: per vehicle the types of the roads
  twice,      \* vehicles whose search for a path used a closed road
  queue,      \* m_queue
  addresses,  \* m_queuedAddresses
  timer,      \* vehicles whose CheckQueueTimer runs
  expired,    \* packets that have waited for MaxQueueTime
  pk,         \* the packets: place, headers and history
  moved,      \* has a vehicle moved?
  spent       \* how many of the events that MaxEvents bounds have happened

map   == <<types, twice>>
defer == <<queue, addresses, timer, expired>>
iface == <<running, addressed, up>>
vars  == <<pos, iface, table, map, defer, pk, moved, spent>>

Event == spent < MaxEvents /\ spent' = spent + 1

InRange(m, n) == Distance(pos[m], pos[n]) <= Range2

\* The road of every place where a vehicle may be.
RoadAt == [place \in UNION {{l[n] : n \in Node} : l \in Layouts} |-> RoadByPos(place)]

----------------------------------------------------------------------------
(* Neighbors *)

Update(t, m, position) ==
  [t EXCEPT ![m] = [pos |-> position, road |-> RoadAt[position], old |-> FALSE]]

Clear == [m \in Node |-> None]

\* The neighbours of n that Purge leaves.
Neighbors(n) == {m \in Node : table[n][m] # None /\ ~table[n][m].old}

Purge(n) ==
  table' = [table EXCEPT ![n] = [m \in Node |-> IF m \in Neighbors(n) THEN @[m] ELSE None]]

\* isNeighbor, which purges first.
IsNeighbor(n, m) == m \in Neighbors(n)

\* Of two lengths, given by their squares, the first is nearer to Goal.
NearerToGoal(a, b) ==
  LET k == 4 * Goal * Goal - a - b
  IN  \/ a < b /\ (k < 0 \/ 4 * a * b > k * k)
      \/ a > b /\ k > 0 /\ 4 * a * b < k * k

\* Mutant of FindNextHop: a vehicle behind will do.
FindNextHopAnywhere(n, roads, ahead) ==
  LET len(m)     == Distance(pos[n], table[n][m].pos)
      candidates == {m \in Neighbors(n) :
                       /\ table[n][m].road \in roads
                       /\ len(m) < Reach * Reach}
  IN  {m \in candidates : \A o \in candidates : ~NearerToGoal(len(o), len(m))}

\* find_next_hop: on one of the roads, within reach, nearer to the crossing ahead, and
\* of these the one whose distance is nearest to Goal; of equals the one first in the
\* list, which depends on who was heard first.
FindNextHop(n, roads, ahead) ==
  LET len(m)     == Distance(pos[n], table[n][m].pos)
      candidates == {m \in Neighbors(n) :
                       /\ table[n][m].road \in roads
                       /\ len(m) < Reach * Reach
                       /\ Distance(ahead, table[n][m].pos) < Distance(pos[n], ahead)}
  IN  {m \in candidates : \A o \in candidates : ~NearerToGoal(len(o), len(m))}

----------------------------------------------------------------------------
(* The next hop along a path *)

\* The first crossing goes when the vehicle is on the road that follows it.
ErasePassed(path, place) ==
  IF Len(path) > 2 /\ RoadAt[place] = RoadByNode(path[1], path[2]) THEN Tail(path) ELSE path

\* The vehicles that may be next: on the road between the first two crossings, on the
\* vehicle's own, and on the one after if these are the same.
NextHops(n, path) ==
  LET mine    == RoadAt[pos[n]]
      road    == RoadByNode(path[1], path[2])
      further == mine = road /\ Len(path) > 2
      roads   == {mine, road} \cup (IF further THEN {RoadByNode(path[2], path[3])} ELSE {})
  IN  FindNextHop(n, roads, Point[path[IF further THEN 3 ELSE 2]])

\* IpForward: one hop less to live, and the frame goes to the next hop.
IpForward(r, hop) ==
  IF r.ttl = 1 THEN [r EXCEPT !.place = Lost, !.ttl = 0]
  ELSE [r EXCEPT !.place = hop, !.ttl = @ - 1]

\* The path that the header of a packet carries.
PathIn(r) == DecodePath(DeserializeData(Tail(r.wire)).path)

\* encode_path, and the header is put before the packet again.
WithPath(r, path) ==
  LET h == DeserializeData(Tail(r.wire))
  IN  [r EXCEPT !.wire = SerializeData(DataHeader(h.src, h.dst, EncodePath(path)))]

\* History: n handled the packet.
HandledBy(r, n) == [r EXCEPT !.by = Append(@, n)]

----------------------------------------------------------------------------
(* What a vehicle sends itself *)

\* The location service knows where every vehicle is.
GetPosition(d) == pos[d]

\* The byte tag brings the path, if there is one, from RouteOutput to the header, which
\* the transport layer has AddHeaders put before the packet.
AddHeaders(r, src, dst, bytes) ==
  [r EXCEPT !.wire = SerializeData(DataHeader(src, dst, PathOfTag(SerializeTag(bytes))))]

SendTo(p, hop, bytes) ==
  [AddHeaders(HandledBy(pk[p], Src[p]), pos[Src[p]], GetPosition(Dst[p]), bytes) EXCEPT !.place = hop]

\* LoopbackRoute; no byte tag was put on the packet.
LoopbackRoute(p) ==
  [pk[p] EXCEPT !.place = Loopback,
                !.wire = SerializeData(DataHeader(pos[Src[p]], GetPosition(Dst[p]), NoPath))]

\* The path found stays in the header only if there is a next hop; a packet that has to
\* wait gets none.
RouteOutput(p) ==
  LET n == Src[p]
  IN  /\ pk[p].place = Fresh
      /\ n \in up
      /\ Purge(n)
      /\ IF IsNeighbor(n, Dst[p])
         THEN pk' = [pk EXCEPT ![p] = SendTo(p, Dst[p], NoPath)] /\ UNCHANGED map
         ELSE \E r \in GetPaths(types[n], pos[n], GetPosition(Dst[p])) :
                LET path == ErasePassed(r.path, pos[n])
                    hops == NextHops(n, path)
                IN  /\ types' = [types EXCEPT ![n] = r.types]
                    /\ twice' = IF r.twice THEN twice \cup {n} ELSE twice
                    /\ \/ \E m \in hops : pk' = [pk EXCEPT ![p] = SendTo(p, m, EncodePath(path))]
                       \/ hops = {} /\ pk' = [pk EXCEPT ![p] = LoopbackRoute(p)]
      /\ UNCHANGED <<pos, iface, defer, moved, spent>>

\* Without an interface there is no route: RouteOutput, and RouteInput on the loopback.
NoInterface(p) ==
  /\ pk[p].place \in {Fresh, Loopback}
  /\ Src[p] \notin up
  /\ pk' = [pk EXCEPT ![p].place = Lost]
  /\ UNCHANGED <<pos, iface, table, map, defer, moved, spent>>

\* RequestQueue::Purge: the packets of a queue that are not too old.
Unexpired(q) == Filter(q, Packet \ expired)

\* A full queue drops its oldest packet, with an error to the application.
Enqueue(q, p) == Append(IF Len(q) = MaxQueueLen THEN Tail(q) ELSE q, p)

Displaced(q) == IF Len(q) = MaxQueueLen THEN {Head(q)} ELSE {}

\* At the front; std::list::unique drops only a neighbour of its kind.
InsertAddress(n, d) ==
  IF addresses[n] # <<>> /\ Head(addresses[n]) = d THEN addresses[n]
  ELSE <<d>> \o addresses[n]

IsMyOwnAddress(n, address) == n \in up /\ address = n

\* RouteInput on the loopback device finds the tag: the packet waits, and the timer
\* starts anew with the first one.
DeferredRouteOutput(p) ==
  LET n == Src[p]
      waiting == Unexpired(queue[n])
      dropped == Displaced(waiting) \cup (ToSet(queue[n]) \cap expired)
  IN  /\ pk[p].place = Loopback
      /\ IsMyOwnAddress(n, Src[p])
      /\ timer' = IF waiting = <<>> THEN timer \cup {n} ELSE timer
      /\ queue' = [queue EXCEPT ![n] = Enqueue(waiting, p)]
      /\ pk' = [o \in Packet |-> IF o \in dropped THEN [pk[o] EXCEPT !.place = Lost]
                                 ELSE IF o = p THEN [pk[p] EXCEPT !.place = Queued] ELSE pk[o]]
      /\ addresses' = [addresses EXCEPT ![n] = InsertAddress(n, Dst[p])]
      /\ UNCHANGED <<pos, iface, table, map, expired, moved, spent>>

For(d) == {p \in Packet : Dst[p] = d}

\* Mutant of SendPacketFromQueue: the address is done with when one packet fails.
SendPacketFromQueueOnce(s, n, d) ==
  LET mine == Filter(s.queue, For(d))
  IN  IF mine = <<>> THEN [s EXCEPT !.done = @ \cup {d}]
      ELSE IF IsNeighbor(n, d)
      THEN [s EXCEPT !.done = @ \cup {d}, !.sent = @ \cup ToSet(mine),
                     !.queue = Filter(@, Packet \ For(d))]
      ELSE [s EXCEPT !.done = @ \cup {d}, !.failed = @ \cup {Head(mine)},
                     !.queue = Filter(@, Packet \ {Head(mine)})]

\* The packets that wait have no path, so that Forwarding sends them only to a
\* destination that is a neighbour.  The first it refuses is out of the queue already and
\* lost; the address stays on the list.
SendPacketFromQueue(s, n, d) ==
  LET mine == Filter(s.queue, For(d))
  IN  IF mine = <<>> THEN [s EXCEPT !.done = @ \cup {d}]
      ELSE IF IsNeighbor(n, d)
      THEN [s EXCEPT !.done = @ \cup {d}, !.sent = @ \cup ToSet(mine),
                     !.queue = Filter(@, Packet \ For(d))]
      ELSE [s EXCEPT !.failed = @ \cup {Head(mine)},
                     !.queue = Filter(@, Packet \ {Head(mine)})]

\* Every listed address is tried; what has waited too long is dropped first.
AllTried(n) ==
  LET tried[k \in 0 .. Len(addresses[n])] ==
        IF k = 0 THEN [queue |-> Unexpired(queue[n]), sent |-> {}, failed |-> {}, done |-> {}]
        ELSE SendPacketFromQueue(tried[k - 1], n, addresses[n][k])
  IN  tried[Len(addresses[n])]

\* The timer goes on while an address is left.
CheckQueue(n) ==
  LET s == AllTried(n)
      dropped == s.failed \cup (ToSet(queue[n]) \cap expired)
  IN  /\ n \in timer
      /\ UNCHANGED <<pos, iface, map, expired, moved, spent>>
      /\ IF Unexpired(queue[n]) = <<>> THEN UNCHANGED table ELSE Purge(n)
      /\ queue' = [queue EXCEPT ![n] = s.queue]
      /\ pk' = [p \in Packet |->
                  IF p \in s.sent THEN IpForward(HandledBy(pk[p], n), Dst[p])
                  ELSE IF p \in dropped THEN [pk[p] EXCEPT !.place = Lost] ELSE pk[p]]
      /\ addresses' = [addresses EXCEPT ![n] = Filter(@, Node \ s.done)]
      /\ timer' = IF addresses'[n] = <<>> THEN timer \ {n} ELSE timer

\* A packet's time in the queue is over; Purge drops it when it is next called.
Expire(p) ==
  LET n == Src[p]
  IN  /\ Unexpired(queue[n]) # <<>> /\ p = Head(Unexpired(queue[n]))
      /\ Event
      /\ expired' = expired \cup {p}
      /\ UNCHANGED <<pos, iface, table, map, queue, addresses, timer, pk, moved>>

----------------------------------------------------------------------------
(* What a vehicle receives *)

Local(p, n) ==
  /\ n \in up /\ Dst[p] = n
  /\ pk' = [pk EXCEPT ![p].place = Delivered]
  /\ UNCHANGED table

ForwardToNeighbor(p, n) ==
  /\ IsNeighbor(n, Dst[p])
  /\ pk' = [pk EXCEPT ![p] = IpForward(HandledBy(@, n), Dst[p])]

\* The path has lost the crossing passed; hops are the vehicles that may be next.
ForwardAlongPath(p, n, path, hops) ==
  /\ ~IsNeighbor(n, Dst[p])
  /\ \E m \in hops : pk' = [pk EXCEPT ![p] = IpForward(WithPath(HandledBy(@, n), path), m)]

\* Forwarding returns false and IP drops the packet.
ForwardingFails(p, n, hops) ==
  /\ ~IsNeighbor(n, Dst[p])
  /\ hops = {}
  /\ pk' = [pk EXCEPT ![p].place = Lost]

Forwarding(p, n) ==
  /\ n \in up /\ Dst[p] # n
  /\ Purge(n)
  /\ \E path \in {ErasePassed(PathIn(pk[p]), pos[n])} :
       \E hops \in {IF Len(path) < 2 THEN {} ELSE NextHops(n, path)} :
         \/ ForwardToNeighbor(p, n)
         \/ ForwardAlongPath(p, n, path, hops)
         \/ ForwardingFails(p, n, hops)

\* Without an interface RouteInput refuses the packet.
Refuse(p, n) ==
  /\ n \notin up
  /\ pk' = [pk EXCEPT ![p].place = Lost]
  /\ UNCHANGED table

\* A frame arrives at the next hop; what range and collisions take is Lose.
RouteInput(p) ==
  \E n \in Node :
    /\ pk[p].place = n
    /\ UNCHANGED <<pos, iface, map, defer, moved, spent>>
    /\ \/ Local(p, n)
       \/ Forwarding(p, n)
       \/ Refuse(p, n)

Lose(p) ==
  /\ pk[p].place \in Node
  /\ Event
  /\ pk' = [pk EXCEPT ![p].place = Lost]
  /\ UNCHANGED <<pos, iface, table, map, defer, moved>>

----------------------------------------------------------------------------
(* Neighbours, interfaces, time *)

\* A hello is a broadcast of the transport layer: AddHeaders puts a data header without
\* positions and path before it.
HelloPacket(n) ==
  SerializeData(DataHeader(<<0, 0>>, <<0, 0>>, PathOfTag(SerializeTag(NoPath))))
    \o SerializeHello(pos[n], n)

\* RouteInput takes that header off and hands the rest up.
RecvHello(t, wire) ==
  LET received == Payload(wire)
      hello    == DeserializeHello(Tail(received))
  IN  IF ValidType(received) THEN Update(t, hello.dst, hello.pos) ELSE t

\* HelloTimerExpire sends; RecvHello at every vehicle that hears it, anyone may miss it.
SendHello(n) ==
  /\ n \in up
  /\ \E missed \in {{}} \cup {{m} : m \in Node} :
       /\ IF missed = {} THEN UNCHANGED spent ELSE Event
       /\ table' = [m \in Node |-> IF m # n /\ m \in up \ missed /\ InRange(m, n)
                                   THEN RecvHello(table[m], HelloPacket(n)) ELSE table[m]]
  /\ UNCHANGED <<pos, iface, map, defer, pk, moved>>

\* An entry reaches its life time; Purge removes it when it is next called.
Age(n, m) ==
  /\ table[n][m] # None /\ ~table[n][m].old
  /\ Event
  /\ table' = [table EXCEPT ![n][m].old = TRUE]
  /\ UNCHANGED <<pos, iface, map, defer, pk, moved>>

\* The socket of the interface's address is closed, and without one the neighbours and
\* the location service forget everything.
NotifyInterfaceDown(n) ==
  /\ n \in running \cap addressed
  /\ Event
  /\ running' = SetDown(running, n)
  /\ up' = up \ {n}
  /\ table' = [table EXCEPT ![n] = Clear]
  /\ UNCHANGED <<pos, addressed, map, defer, pk, moved>>

\* A socket for the interface's only address.
NotifyInterfaceUp(n) ==
  /\ n \in addressed \ running
  /\ running' = SetUp(running, n)
  /\ up' = up \cup {n}
  /\ UNCHANGED <<pos, addressed, table, map, defer, pk, moved, spent>>

\* There is a socket to forget only if the interface is up.
FindSocketWithInterfaceAddress(n) == n \in up

NotifyRemoveAddress(n) ==
  /\ n \in addressed
  /\ Event
  /\ addressed' = RemoveAddress(addressed, n)
  /\ up' = up \ {n}
  /\ table' = IF FindSocketWithInterfaceAddress(n) THEN [table EXCEPT ![n] = Clear] ELSE table
  /\ UNCHANGED <<pos, running, map, defer, pk, moved>>

NotifyAddAddress(n) ==
  /\ n \notin addressed
  /\ addressed' = AddAddress(addressed, n)
  /\ up' = IF IsUp(running, n) THEN up \cup {n} ELSE up
  /\ UNCHANGED <<pos, running, table, map, defer, pk, moved, spent>>

Move ==
  /\ Event
  /\ \E l \in Layouts \ {pos} : pos' = l
  /\ moved' = TRUE
  /\ UNCHANGED <<iface, table, map, defer, pk>>

----------------------------------------------------------------------------
\* SetIpv4 schedules the first hello; who n hears.
FirstHellos(n) ==
  [m \in Node |-> IF m # n /\ InRange(m, n)
                  THEN [pos |-> pos[m], road |-> RoadAt[pos[m]], old |-> FALSE] ELSE None]

\* The applications start when every vehicle has sent its first hello.
Init ==
  /\ pos \in Layouts
  /\ running = Node /\ addressed = Node /\ up = Node
  /\ table = [n \in Node |-> FirstHellos(n)]
  /\ types = [n \in Node |-> Open]
  /\ twice = {}
  /\ queue = [n \in Node |-> <<>>]
  /\ addresses = [n \in Node |-> <<>>]
  /\ timer = {} /\ expired = {}
  /\ pk = [p \in Packet |-> [place |-> Fresh, wire |-> <<>>, ttl |-> Ttl, by |-> <<>>]]
  /\ moved = FALSE
  /\ spent = 0

\* What the simulator's scheduler or the channel brings about.
Scheduled ==
  \/ \E p \in Packet : DeferredRouteOutput(p) \/ RouteInput(p)
  \/ \E p \in Packet : pk[p].place = Loopback /\ NoInterface(p)
  \/ \E n \in Node : CheckQueue(n)

Next ==
  \/ Scheduled
  \/ \E p \in Packet : RouteOutput(p) \/ NoInterface(p) \/ Lose(p) \/ Expire(p)
  \/ \E n \in Node : SendHello(n) \/ NotifyInterfaceDown(n) \/ NotifyInterfaceUp(n)
  \/ \E n \in Node : NotifyRemoveAddress(n) \/ NotifyAddAddress(n)
  \/ \E n, m \in Node : Age(n, m)
  \/ Move

Spec == Init /\ [][Next]_vars /\ WF_vars(Scheduled)

----------------------------------------------------------------------------
(* Properties *)

\* The types of the variables: a path in a header is one of crossings, a queue never
\* holds more than it may, a road has its type or is closed, and a vehicle takes part
\* while its interface is up and has an address.
TypeOK ==
  /\ pos \in Layouts
  /\ running \subseteq Node /\ addressed \subseteq Node /\ up = running \cap addressed
  /\ timer \subseteq Node /\ twice \subseteq Node /\ expired \subseteq Packet
  /\ \A n \in Node : /\ n \in DOMAIN table /\ DOMAIN table[n] = Node
                     /\ table[n][n] = None
                     /\ types[n] \in [DOMAIN Roads -> {RoadType, IntMax}]
                     /\ Len(queue[n]) <= MaxQueueLen
                     /\ ToSet(queue[n]) \subseteq Packet
                     /\ ToSet(addresses[n]) \subseteq Node \ {n}
  /\ \A p \in Packet : /\ pk[p].place \in Node \cup {Fresh, Loopback, Queued, Delivered, Lost}
                       /\ pk[p].ttl \in 0 .. Ttl
                       /\ pk[p].place # Fresh /\ pk[p].wire # <<>> =>
                            ToSet(PathIn(pk[p])) \subseteq Crossing
                       /\ ToSet(pk[p].by) \subseteq Node
  /\ moved \in BOOLEAN /\ spent \in 0 .. MaxEvents

\* While no vehicle moves, crossings go from the front of the path only, and between two
\* that go every hop is nearer to the crossing ahead: no vehicle handles a packet twice
\* (Forwarding, find_next_hop).  Excepted is a packet for a vehicle on the source's own road
\* if an earlier search left roads closed: its path may lead around a block and back.
NoVehicleTwice ==
  ~moved => \A p \in Packet : \/ /\ RoadAt[pos[Src[p]]] = RoadAt[pos[Dst[p]]]
                                 /\ Src[p] \in twice
                              \/ IsInjective(pk[p].by)

\* A search for a path leaves the roads of the map as open as they were (getPaths), unless
\* one of the paths it found ran over a road that an earlier one had closed.
RoadsReopen == \A n \in Node \ twice : types[n] = Open

\* Every packet an application sends is delivered or dropped in the end: none waits for
\* ever, not even behind one that was refused, and none circles for ever.
PacketsEnd == \A p \in Packet : pk[p].place # Fresh ~> pk[p].place \in {Delivered, Lost}
=============================================================================
