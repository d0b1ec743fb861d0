-------------------------------- MODULE Gpsr --------------------------------
(***************************************************************************)
(* Greedy perimeter routing in NS3/gpsr/model with the location service of  *)
(* NS3/location-service: hellos and the position table, packets that wait   *)
(* for a neighbour, greedy forwarding and the recovery mode around a void.  *)
(* The packets are those of the traffic applications; what is heard of a    *)
(* signal depends on the obstacles.                                         *)
(*                                                                          *)
(* Positions are integer, distances are compared by their squares.  A hello *)
(* takes no time, a packet does.  Every vehicle has one interface for data  *)
(* and, for the map-based relay, one for beacons on a channel of its own.   *)
(***************************************************************************)
EXTENDS Topology, GpsrPacket, Applications, Ipv4Interface, Filter

CONSTANTS
  Node,           \* the vehicles' addresses, which order every std::map
  Packet, Src, Dst,
  Layouts,        \* where the vehicles may be: functions from Node to <<x, y>>
  Range2,         \* the square of the radio range where there are no obstacles
  Buildings,      \* the file of buildings: polygons with type and shape
  Margin,         \* what a signal within the range may lose and is heard
  Mbr, Sub1g,     \* are there beacons, and are they on a band below 1 GHz?
  Flow,           \* the packets that the OnOffApplication sends, in order
  EchoFlow,       \* and those of the UdpEchoClient
  MaxQueueLen,
  Ttl,            \* the time to live IP starts with
  None,           \* no entry, no next hop
  Fresh, Loopback, Queued, Delivered, Lost, GivenUp,   \* where a packet is, if not on its way
  MaxEvents       \* bound: moves, lost hellos and frames, aged entries, interfaces that go down

ASSUME GpsrAssumption ==
  /\ Node \subseteq Nat \ {0} /\ IsFiniteSet(Node)
  /\ \A p \in Packet : Src[p] \in Node /\ Dst[p] \in Node /\ Src[p] # Dst[p]
  /\ Layouts \subseteq [Node -> Int \X Int]
  /\ Mbr \in BOOLEAN /\ Sub1g \in BOOLEAN /\ Margin \in Nat
  /\ Flow \in Seq(Packet) \ {<<>>} /\ MaxPackets = Len(Flow)
  /\ EchoFlow \in Seq(Packet) /\ EchoCount = Len(EchoFlow)
  /\ IsInjective(Flow \o EchoFlow) /\ Range(Flow \o EchoFlow) = Packet
  /\ MaxQueueLen \in Nat \ {0} /\ Ttl \in Nat \ {0} /\ MaxEvents \in Nat
  /\ IsInjective(<<None, Fresh, Loopback, Queued, Delivered, Lost, GivenUp>>)
  /\ {None, Fresh, Loopback, Queued, Delivered, Lost, GivenUp} \cap Node = {}

VARIABLES
  pos,        \* where the vehicles are
  running,    \* vehicles whose interface is up
  addressed,  \* vehicles whose interface has its address
  up,         \* vehicles that take part: m_socketAddresses is not empty
  table,      \* m_neighbors: per vehicle and neighbour None or position and age
  queue,      \* m_queue
  addresses,  \* m_queuedAddresses
  timer,      \* vehicles whose CheckQueueTimer runs
  pk,         \* the packets: place, headers and history
  losses,     \* Topology's cache of losses
  onoff, echo,    \* the applications
  moved,      \* has a vehicle moved?
  spent       \* how many of the events that MaxEvents bounds have happened

apps == <<onoff, echo>>
iface == <<running, addressed, up>>
vars == <<pos, iface, table, queue, addresses, timer, pk, losses, apps, moved, spent>>

Event == spent < MaxEvents /\ spent' = spent + 1

\* The socket of a vehicle's address, and whether the address is one of its own.
FindSocketWithInterfaceAddress(n) == n \in up
IsMyOwnAddress(n) == n \in up

----------------------------------------------------------------------------
(* Channels *)

Obstacles == LoadBuildings(Buildings)

\* Mutant of BeaconChannel: beacons are always on the lower band.
BeaconChannelSub1g == [forBeacon |-> TRUE, maxDistance |-> 270]

\* CreateDevices: the losses of the two channels.
DataChannel   == [forBeacon |-> FALSE, maxDistance |-> 200]
BeaconChannel == [forBeacon |-> Sub1g, maxDistance |-> IF Sub1g THEN 270 ELSE 200]

\* What a channel takes between any two places where vehicles may be; @@ makes TLC
\* tabulate it.
Places == UNION {Range(l) : l \in Layouts}
Losses(channel) ==
  NoLosses @@ [pair \in Places \X Places |-> Loss(Obstacles, pair[1], pair[2], channel)]

DataLoss   == Losses(DataChannel)
BeaconLoss == Losses(BeaconChannel)

\* The highest address.
Highest == Max(Node)

\* A signal of n reaches the others in turn; without obstacles nothing is looked up.
Signal(cache, n, loss) ==
  LET after[k \in 0 .. Highest] ==
        IF k = 0 THEN cache
        ELSE IF k \in Node \ {n} THEN Remember(after[k - 1], loss, pos[n], pos[k])
        ELSE after[k - 1]
  IN  IF HasObstacles(Obstacles) THEN after[Highest] ELSE cache

\* Who hears it.
HeardBy(n, loss) ==
  {m \in Node \ {n} : /\ Distance(pos[n], pos[m]) <= Range2
                      /\ HasObstacles(Obstacles) => GetLoss(losses, loss, pos[n], pos[m]) <= Margin}

----------------------------------------------------------------------------
(* Angles *)

\* GetAngle is not zero and is a number: seen from the centre the node is neither in
\* the direction of the reference nor is one of the two at the centre.
HasAngle(centre, ref, node) ==
  LET r == Minus(ref, centre)
      v == Minus(node, centre)
  IN  Cross(v, r) # 0 \/ Dot(v, r) < 0

\* GetAngle(centre, ref, m) < GetAngle(centre, ref, n), both angles measured
\* clockwise from the reference.
SmallerAngle(centre, ref, m, n) ==
  LET r == Minus(ref, centre)
      v == Minus(m, centre)
      w == Minus(n, centre)
      FirstHalf(u) == Cross(u, r) > 0 \/ (Cross(u, r) = 0 /\ Dot(u, r) < 0)
  IN  \/ FirstHalf(v) /\ ~FirstHalf(w)
      \/ (FirstHalf(v) <=> FirstHalf(w)) /\ Cross(w, v) > 0

----------------------------------------------------------------------------
(* PositionTable *)

Neighbors(t) == {m \in Node : t[m] # None}

IsNeighbour(t, m) == t[m] # None

AddEntry(t, m, position) == [t EXCEPT ![m] = [pos |-> position, old |-> FALSE]]

Purge(t) == [m \in Node |-> IF t[m] # None /\ t[m].old THEN None ELSE t[m]]

\* The nearest neighbour to a position, if it is nearer than the vehicle itself;
\* among equals the lowest address.  The caller has purged the table.
BestNeighbor(t, position, nodePos) ==
  LET d(m)    == Distance(t[m].pos, position)
      nearest == {m \in Neighbors(t) : \A o \in Neighbors(t) : d(m) <= d(o)}
  IN  IF nearest = {} THEN None
      ELSE IF d(Min(nearest)) < Distance(nodePos, position) THEN Min(nearest) ELSE None

\* Without a socket nobody is a neighbour.
Clear == [m \in Node |-> None]

\* To the destination if it is a neighbour, else to the best one.
NextHop(n, t, d, position) ==
  IF IsNeighbour(t, d) THEN d ELSE BestNeighbor(t, position, pos[n])

\* Relative neighbourhood graph: a neighbour stays unless one of a higher address is
\* nearer to both ends.
RngPlanarize(t, myPos) ==
  {m \in Neighbors(t) :
     \A o \in Neighbors(t) : o > m =>
       LET mdis == Distance(myPos, t[m].pos)
       IN  Distance(myPos, t[o].pos) >= mdis \/ Distance(t[m].pos, t[o].pos) >= mdis}

\* The neighbours that the turn from the previous hop may go to.
Turns(t, previousHop, nodePos) ==
  {m \in RngPlanarize(t, nodePos) : HasAngle(nodePos, previousHop, t[m].pos)}

\* The one of them at the smallest angle; among equals the lowest address.
FirstTurn(t, turns, previousHop, nodePos) ==
  CHOOSE m \in turns : \A o \in turns \ {m} :
    LET smaller(a, b) == SmallerAngle(nodePos, previousHop, t[a].pos, t[b].pos)
    IN  smaller(m, o) \/ (m < o /\ ~smaller(o, m))

\* The neighbour at the smallest angle; without one the first of the table.  Of an
\* empty table the code reads the first entry too, the build gives the zero address.
BestAngle(t, previousHop, nodePos) ==
  LET turns == Turns(t, previousHop, nodePos)
  IN  CASE turns # {}                       -> FirstTurn(t, turns, previousHop, nodePos)
        [] turns = {} /\ Neighbors(t) # {}  -> Min(Neighbors(t))
        [] Neighbors(t) = {}                -> None

----------------------------------------------------------------------------
(* Headers and what becomes of a packet *)

Origin == <<0, 0>>

\* The time of the current second, and of any before it.
ThisSecond == 1
Earlier    == 0

\* The location service knows where every vehicle is.
GetPosition(d) == pos[d]

\* What AddHeaders puts before a packet its source sends.
AddHeaders(p) ==
  PositionHeader(pos[Src[p]], GetPosition(Dst[p]), ThisSecond, Origin, FALSE, pos[Src[p]])

\* IpForward: one hop less to live, and the frame goes to the next hop.
IpForward(r, hop) ==
  IF r.ttl = 1 THEN [r EXCEPT !.place = Lost, !.ttl = 0]
  ELSE [r EXCEPT !.place = hop, !.ttl = @ - 1]

\* A packet as the next hop reads it.
Received(r) == [r EXCEPT !.hdr = DeserializePosition(Tail(SerializePosition(@)))]

\* n is done with its packets, which are now as in new: its radio sends those that have
\* got a next hop, and they are lost unless it hears them.
Send(n, new) ==
  LET out == {p \in Packet : new[p].place \in Node /\ new[p] # pk[p]}
  IN  /\ pk' = [p \in Packet |-> IF p \in out /\ new[p].place \notin HeardBy(n, DataLoss)
                                 THEN [new[p] EXCEPT !.place = Lost] ELSE new[p]]
      /\ losses' = IF out = {} THEN losses ELSE Signal(losses, n, DataLoss)

SendOne(n, p, r) == \E x \in {r} : Send(n, [pk EXCEPT ![p] = x])

\* The next hop by the right-hand rule among the entries that Purge has left; a vehicle
\* without neighbours gives the packet up.
RecoveryMode(r, n, t) ==
  LET s    == [r EXCEPT !.hdr = [@ EXCEPT !.inRec = TRUE, !.last = pos[n]]]
      best == BestAngle(t, r.hdr.last, pos[n])
  IN  IF best = None THEN [s EXCEPT !.place = GivenUp] ELSE IpForward(s, best)

\* History: n chose a next hop or began a recovery for the packet.
Chosen(r, n) == [r EXCEPT !.chose = Append(@, n)]

----------------------------------------------------------------------------
(* What a vehicle sends itself *)

\* An application sends: to a neighbour, by greedy choice, or over the loopback device
\* until there is a neighbour.
RouteOutput(p) ==
  LET n == Src[p]
      t == IF IsNeighbour(table[n], Dst[p]) THEN table[n] ELSE Purge(table[n])
      r == [pk[p] EXCEPT !.hdr = AddHeaders(p)]
  IN  /\ pk[p].place = Fresh
      /\ n \in up
      /\ table' = [table EXCEPT ![n] = t]
      /\ \E hop \in {NextHop(n, t, Dst[p], GetPosition(Dst[p]))} :
           SendOne(n, p, IF hop # None THEN [Chosen(r, n) EXCEPT !.place = hop]
                         ELSE [r EXCEPT !.place = Loopback])
      /\ UNCHANGED <<pos, iface, queue, addresses, timer, moved, spent>>

\* Without an interface there is no route and the application gets an error.
RouteOutputFails(p) ==
  /\ pk[p].place = Fresh
  /\ Src[p] \notin up
  /\ pk' = [pk EXCEPT ![p].place = Lost]
  /\ UNCHANGED <<pos, iface, table, queue, addresses, timer, losses, moved, spent>>

\* Mutant of Enqueue: the length is not looked at.
EnqueueUnbounded(q, p) == Append(q, p)

\* A full queue drops its oldest packet, with an error to the application.
Enqueue(q, p) == Append(IF Len(q) = MaxQueueLen THEN Tail(q) ELSE q, p)

Displaced(q) == IF Len(q) = MaxQueueLen THEN {Head(q)} ELSE {}

\* Mutant of InsertAddress: an address is not listed while packets wait.
InsertAddressIfFirst(n, d) == IF queue[n] = <<>> THEN <<d>> ELSE addresses[n]

\* At the front; std::list::unique drops only a neighbour of its kind.
InsertAddress(n, d) ==
  IF addresses[n] # <<>> /\ Head(addresses[n]) = d THEN addresses[n]
  ELSE <<d>> \o addresses[n]

\* Mutant of TimerStarted: the timer is cancelled for every packet.
TimerCancelled(n) == IF queue[n] = <<>> THEN timer \cup {n} ELSE timer \ {n}

TimerStarted(n) == IF queue[n] = <<>> THEN timer \cup {n} ELSE timer

\* RouteInput on the loopback device finds the tag: the packet waits, and the timer
\* starts anew with the first one.
DeferredRouteOutput(p) ==
  LET n == Src[p]
  IN  /\ pk[p].place = Loopback
      /\ IsMyOwnAddress(n)
      /\ timer' = TimerStarted(n)
      /\ queue' = [queue EXCEPT ![n] = Enqueue(@, p)]
      /\ pk' = [q \in Packet |-> IF q \in Displaced(queue[n]) THEN [pk[q] EXCEPT !.place = Lost]
                                 ELSE IF q = p THEN [pk[p] EXCEPT !.place = Queued] ELSE pk[q]]
      /\ addresses' = [addresses EXCEPT ![n] = InsertAddress(n, Dst[p])]
      /\ UNCHANGED <<pos, iface, table, losses, apps, moved, spent>>

\* A packet leaves the queue for the hop that was found for its destination.
SendOn(r, n, hop) == IpForward(Chosen(r, n), hop)

\* No neighbour is nearer: recovery begins here, with the last edge the header names.
SendInRecovery(r, n, t) ==
  RecoveryMode([Chosen(r, n) EXCEPT !.hdr.rec = pos[n], !.hdr.inRec = TRUE], n, t)

\* The table as the k-th listed address finds it: it is purged for the first of them that
\* is no neighbour's.
TableFor(n, k) ==
  IF \E i \in 1 .. k : ~IsNeighbour(table[n], addresses[n][i]) THEN Purge(table[n]) ELSE table[n]

\* A packet that is dequeued for the k-th listed address.
SendPacketFromQueue(n, k, r) ==
  LET d   == addresses[n][k]
      t   == TableFor(n, k)
      hop == NextHop(n, t, d, GetPosition(d))
  IN  IF hop # None THEN SendOn(r, n, hop) ELSE SendInRecovery(r, n, t)

\* The listed addresses are served in turn, an address that is listed twice the first time;
\* Dequeue finds what waits for it.
ServedAt(n, d) == Min({k \in DOMAIN addresses[n] : addresses[n][k] = d})
Dequeued(n)    == {p \in ToSet(queue[n]) : Dst[p] \in ToSet(addresses[n])}

\* The location service knows every position and never searches, so that
\* SendPacketFromQueue succeeds, the list empties and the timer rests.
CheckQueue(n) ==
  /\ n \in timer
  /\ timer' = timer \ {n}
  /\ addresses' = [addresses EXCEPT ![n] = <<>>]
  /\ UNCHANGED <<pos, iface, apps, moved, spent>>
  /\ table' = [table EXCEPT ![n] = TableFor(n, Len(addresses[n]))]
  /\ queue' = [queue EXCEPT ![n] = Filter(@, Packet \ Dequeued(n))]
  /\ \E new \in {[p \in Packet |->
                    IF p \in Dequeued(n)
                      THEN SendPacketFromQueue(n, ServedAt(n, Dst[p]), pk[p]) ELSE pk[p]]} : Send(n, new)

----------------------------------------------------------------------------
(* What a vehicle receives *)

Local(p, n) ==
  /\ n \in up /\ Dst[p] = n
  /\ pk' = [pk EXCEPT ![p].place = Delivered]
  /\ UNCHANGED <<table, losses>>

\* Mutant of LeavesRecovery: as far away as recovery began is near enough.
LeavesRecoveryEarly(hdr, n) ==
  hdr.inRec /\ Distance(pos[n], hdr.dst) <= Distance(hdr.rec, hdr.dst)

\* Recovery ends at a vehicle nearer to the destination than where it began.
LeavesRecovery(hdr, n) ==
  hdr.inRec /\ Distance(pos[n], hdr.dst) < Distance(hdr.rec, hdr.dst)

\* The packet came in recovery mode and stays in it.
ForwardInRecovery(p, n, r, t) ==
  /\ r.hdr.inRec /\ ~LeavesRecovery(r.hdr, n)
  /\ SendOne(n, p, RecoveryMode(r, n, t))

\* Where the header, or since a second has passed the location service, says that the
\* destination is.
DestinationOf(hdr, p) == IF hdr.updated = ThisSecond THEN hdr.dst ELSE GetPosition(Dst[p])

Greedy(p, n, r, dst, hop) ==
  SendOne(n, p, IpForward([Chosen(r, n) EXCEPT
    !.hdr = PositionHeader(@.src, dst, ThisSecond, Origin, FALSE, pos[n])], hop))

\* No neighbour is nearer.  The header keeps the old position of the destination; the
\* edge to the new one is where the right-hand rule starts.
EnterRecovery(p, n, r, t, dst) ==
  SendOne(n, p, RecoveryMode([Chosen(r, n) EXCEPT
    !.hdr = [@ EXCEPT !.inRec = TRUE, !.rec = pos[n], !.last = dst]], n, t))

\* t is the purged table of n.
Forwarding(p, n, r, t) ==
  \/ ForwardInRecovery(p, n, r, t)
  \/ /\ r.hdr.inRec => LeavesRecovery(r.hdr, n)
     /\ \E dst \in {DestinationOf(r.hdr, p)} : \E hop \in {NextHop(n, t, Dst[p], dst)} :
          IF hop # None THEN Greedy(p, n, r, dst, hop) ELSE EnterRecovery(p, n, r, t, dst)

\* Without an interface RouteInput refuses the packet.
Refuse(p, n) ==
  /\ n \notin up
  /\ pk' = [pk EXCEPT ![p].place = Lost]
  /\ UNCHANGED <<table, losses>>

\* A frame arrives at the next hop; what collisions take is Lose.
RouteInput(p) ==
  \E n \in Node :
    /\ pk[p].place = n
    /\ UNCHANGED <<pos, iface, queue, addresses, timer, apps, moved, spent>>
    /\ \/ Local(p, n)
       \/ /\ n \in up /\ Dst[p] # n
          /\ \E r \in {Received(pk[p])}, t \in {Purge(table[n])} :
               Forwarding(p, n, r, t) /\ table' = [table EXCEPT ![n] = t]
       \/ Refuse(p, n)

Lose(p) ==
  /\ pk[p].place \in Node
  /\ Event
  /\ pk' = [pk EXCEPT ![p].place = Lost]
  /\ UNCHANGED <<pos, iface, table, queue, addresses, timer, losses, apps, moved>>

\* RouteInput on the loopback device, after the interface has gone down.
LoopbackRefused(p) ==
  /\ pk[p].place = Loopback
  /\ Src[p] \notin up
  /\ pk' = [pk EXCEPT ![p].place = Lost]
  /\ UNCHANGED <<pos, iface, table, queue, addresses, timer, losses, apps, moved, spent>>

----------------------------------------------------------------------------
(* Neighbours, interfaces, time *)

\* RecvGPSR at every vehicle that hears the hello.
RecvGPSR(n, heard) ==
  [m \in Node |-> IF m \in up \cap heard
                  THEN AddEntry(table[m], n, DeserializeHello(Tail(SerializeHello(pos[n]))))
                  ELSE table[m]]

\* HelloTimerExpire sends whether or not there is a neighbour; anyone may miss it.
SendHello(n) ==
  /\ n \in up
  /\ \E heard \in {HeardBy(n, DataLoss)} :
       \E missed \in {{}} \cup {{m} : m \in heard} :
         /\ IF missed = {} THEN UNCHANGED spent ELSE Event
         /\ table' = RecvGPSR(n, heard \ missed)
  /\ losses' = Signal(losses, n, DataLoss)
  /\ UNCHANGED <<pos, iface, queue, addresses, timer, pk, apps, moved>>

\* A beacon of the map-based relay: what GPSR sees of it is the cache.
Beacon(n) ==
  /\ Mbr
  /\ losses' = Signal(losses, n, BeaconLoss)
  /\ UNCHANGED <<pos, iface, table, queue, addresses, timer, pk, apps, moved, spent>>

\* An entry reaches its life time; Purge removes it when it is next called.
Age(n, m) ==
  /\ table[n][m] # None /\ ~table[n][m].old
  /\ Event
  /\ table' = [table EXCEPT ![n][m].old = TRUE]
  /\ UNCHANGED <<pos, iface, queue, addresses, timer, pk, losses, apps, moved>>

\* The socket of the interface's address is closed, and without one the neighbours and
\* the location service forget everything.
NotifyInterfaceDown(n) ==
  /\ n \in running \cap addressed
  /\ Event
  /\ running' = SetDown(running, n)
  /\ up' = up \ {n}
  /\ table' = [table EXCEPT ![n] = Clear]
  /\ UNCHANGED <<pos, addressed, queue, addresses, timer, pk, losses, apps, moved>>

\* A socket for the interface's only address.
NotifyInterfaceUp(n) ==
  /\ n \in addressed \ running
  /\ running' = SetUp(running, n)
  /\ up' = up \cup {n}
  /\ UNCHANGED <<pos, addressed, table, queue, addresses, timer, pk, losses, apps, moved, spent>>

\* There is a socket to forget only if the interface is up.
NotifyRemoveAddress(n) ==
  /\ n \in addressed
  /\ Event
  /\ addressed' = RemoveAddress(addressed, n)
  /\ up' = up \ {n}
  /\ table' = IF FindSocketWithInterfaceAddress(n) THEN [table EXCEPT ![n] = Clear] ELSE table
  /\ UNCHANGED <<pos, running, queue, addresses, timer, pk, losses, apps, moved>>

\* An address on an interface that is down is for NotifyInterfaceUp to find.
NotifyAddAddress(n) ==
  /\ n \notin addressed
  /\ addressed' = AddAddress(addressed, n)
  /\ up' = IF IsUp(running, n) THEN up \cup {n} ELSE up
  /\ UNCHANGED <<pos, running, table, queue, addresses, timer, pk, losses, apps, moved, spent>>

Move ==
  /\ Event
  /\ \E l \in Layouts \ {pos} : pos' = l
  /\ moved' = TRUE
  /\ UNCHANGED <<iface, table, queue, addresses, timer, pk, losses, apps>>

\* A new second: the location service's positions are newer than the headers'.
SecondPasses ==
  /\ \E p \in Packet : pk[p].place \in Node /\ pk[p].hdr.updated = ThisSecond
  /\ pk' = [p \in Packet |-> [pk[p] EXCEPT !.hdr.updated = Earlier]]
  /\ UNCHANGED <<pos, iface, table, queue, addresses, timer, losses, apps, moved, spent>>

----------------------------------------------------------------------------
(* The applications *)

routing == <<pos, iface, table, queue, addresses, timer, pk, losses, moved, spent>>

\* An application starts once and may be stopped.
OnOffStartsOrStops ==
  /\ \/ onoff.state = "new" /\ onoff' = StartOnOff(onoff)
     \/ onoff.state = "open" /\ onoff' = StopOnOff(onoff)
  /\ UNCHANGED <<echo, routing>>

EchoStartsOrStops ==
  /\ \/ echo.state = "new" /\ echo' = StartEcho(echo)
     \/ echo.state = "open" /\ echo' = StopEcho(echo)
  /\ UNCHANGED <<onoff, routing>>

OnOffSends ==
  /\ PacketDue(onoff)
  /\ LET p == Flow[onoff.sent + 1] IN RouteOutput(p) \/ RouteOutputFails(p)
  /\ onoff' = SendPacket(onoff)
  /\ UNCHANGED echo

OnOffChanges ==
  /\ ChangeDue(onoff)
  /\ onoff' = Change(onoff)
  /\ UNCHANGED <<echo, routing>>

EchoSends ==
  /\ EchoDue(echo)
  /\ LET p == EchoFlow[echo.sent + 1] IN RouteOutput(p) \/ RouteOutputFails(p)
  /\ echo' = SendEcho(echo)
  /\ UNCHANGED onoff

\* Time passes when nothing is due.
Tick ==
  /\ Running(onoff) \/ echo.send # Idle
  /\ ~PacketDue(onoff) /\ ~ChangeDue(onoff) /\ ~EchoDue(echo)
  /\ onoff' = TickOnOff(onoff)
  /\ echo' = TickEcho(echo)
  /\ UNCHANGED routing

----------------------------------------------------------------------------
\* SetIpv4 schedules the first hello.  What the first hellos leave in the cache, those of
\* the vehicles up to k.
FirstHellos[k \in 0 .. Highest] ==
  IF k = 0 THEN NoLosses
  ELSE IF k \in Node THEN Signal(FirstHellos[k - 1], k, DataLoss)
  ELSE FirstHellos[k - 1]

\* SetupRoutingMessages installs the applications; they are started and stopped later.
SetupRoutingMessages == onoff = OnOff /\ echo = Echo

\* The applications start when every vehicle has sent its first hello.
Init ==
  /\ pos \in Layouts
  /\ running = Node /\ addressed = Node /\ up = Node
  /\ losses = FirstHellos[Highest]
  /\ table = [n \in Node |-> [m \in Node |-> IF n \in HeardBy(m, DataLoss)
                                              THEN [pos |-> pos[m], old |-> FALSE] ELSE None]]
  /\ queue = [n \in Node |-> <<>>]
  /\ addresses = [n \in Node |-> <<>>]
  /\ timer = {}
  /\ pk = [p \in Packet |-> [place |-> Fresh, ttl |-> Ttl, chose |-> <<>>,
                             hdr |-> PositionHeader(Origin, Origin, Earlier, Origin, FALSE,
                                                    Origin)]]
  /\ SetupRoutingMessages
  /\ moved = FALSE
  /\ spent = 0

\* What the simulator's scheduler or the channel brings about.
Scheduled ==
  \/ \E p \in Packet : DeferredRouteOutput(p) \/ LoopbackRefused(p) \/ RouteInput(p)
  \/ \E n \in Node : CheckQueue(n)

Next ==
  \/ Scheduled
  \/ OnOffStartsOrStops \/ OnOffSends \/ OnOffChanges
  \/ EchoStartsOrStops \/ EchoSends
  \/ Tick
  \/ \E p \in Packet : Lose(p)
  \/ \E n \in Node : \/ SendHello(n) \/ Beacon(n)
                    \/ NotifyInterfaceDown(n) \/ NotifyInterfaceUp(n)
                    \/ NotifyRemoveAddress(n) \/ NotifyAddAddress(n)
  \/ \E n, m \in Node : Age(n, m)
  \/ Move
  \/ SecondPasses

Spec == Init /\ [][Next]_vars /\ WF_vars(Scheduled)

----------------------------------------------------------------------------
(* Properties *)

Outcomes == {Delivered, Lost, GivenUp}

\* The types of the variables; a packet's headers and history are well formed, and a
\* queue never holds more than it may.
TypeOK ==
  /\ pos \in Layouts
  /\ running \subseteq Node /\ addressed \subseteq Node /\ up = running \cap addressed
  /\ timer \subseteq Node
  /\ \A n \in Node : /\ n \in DOMAIN table /\ DOMAIN table[n] = Node
                     /\ table[n][n] = None
                     /\ Len(queue[n]) <= MaxQueueLen
                     /\ ToSet(queue[n]) \subseteq Packet
                     /\ ToSet(addresses[n]) \subseteq Node \ {n}
  /\ \A p \in Packet : /\ pk[p].place \in Node \cup Outcomes \cup {Fresh, Loopback, Queued}
                       /\ pk[p].ttl \in 0 .. Ttl
                       /\ ToSet(pk[p].chose) \subseteq Node
  /\ onoff.sent \in 0 .. Len(Flow) /\ echo.sent \in 0 .. Len(EchoFlow)
  /\ moved \in BOOLEAN /\ spent \in 0 .. MaxEvents

\* A packet that waits is in its source's queue once, its destination is listed and the
\* timer that will look at it runs (DeferredRouteOutput, CheckQueue): the queue, the
\* list and the timer are three variables that nothing else keeps together.
WaitingIsServed ==
  \A p \in Packet : pk[p].place = Queued =>
    /\ Cardinality({i \in DOMAIN queue[Src[p]] : queue[Src[p]][i] = p}) = 1
    /\ Src[p] \in timer
    /\ Dst[p] \in ToSet(addresses[Src[p]])

\* While no vehicle moves, greedy forwarding and the distance that ends recovery carry a
\* packet past every vehicle once: none chooses a next hop for it, or begins a recovery
\* of it, a second time (Forwarding, BestNeighbor).
NoChoiceTwice == ~moved => \A p \in Packet : IsInjective(pk[p].chose)

\* Every loss in the cache is what the data channel takes between the two places, although
\* the beacon channel's signals fill the same cache and the channel is no part of its key
\* (GetObstructedLossBetween, CreateDevices).
LossesAgree ==
  \A pair \in DOMAIN losses : losses[pair] = DataLoss[pair]

\* However often the OnOffApplication is on and off, and however much of a packet is due
\* when it goes off, it sends at its rate (CancelEvents, ScheduleNextTx).
RateKept == KeepsRate(onoff)

\* Every packet an application sends is delivered, reported or given up in the end: none
\* waits for ever and none circles for ever.
PacketsEnd == \A p \in Packet : pk[p].place # Fresh ~> pk[p].place \in Outcomes
=============================================================================
