-------------------------------- MODULE Aodv --------------------------------
(***************************************************************************)
(* Route discovery in NS3/aodv/model: the routing tables, the queue of      *)
(* packets that wait for a route, the expanding ring search with its        *)
(* timers, and RREQ, RREP, RREP_ACK, RERR and hello messages.               *)
(*                                                                          *)
(* Lifetimes are left out: an entry may expire at any time (Expire, a link   *)
(* Purge closes in CloseLink).  Every vehicle has one interface.            *)
(***************************************************************************)
EXTENDS Naturals, FiniteSets, FiniteSetsExt

CONSTANTS
  Node, Packet, Src, Dst,       \* vehicles, packets, their source and destination
  Topologies,                   \* the sets of links the vehicles drive through
  Null, All,                    \* no address, the broadcast address
  TtlStart, TtlIncrement, TtlThreshold, NetDiameter,
  RreqRetries, RreqRateLimit, RerrRateLimit,
  DestinationOnly, GratuitousReply, EnableHello,
  MaxEvents,    \* bound: hellos, moves, expiries, closed links and interfaces that go down
  MaxLate       \* bound: datagrams still under way when a timer or an application acts

\* The search starts within the network diameter and leaves the ring within it
\* (m_netDiameter bounds the hops between any two nodes; defaults 1, 7 and 35).
ASSUME AodvAssumption ==
  /\ IsFiniteSet(Node)
  /\ \A p \in Packet : Src[p] \in Node /\ Dst[p] \in Node /\ Src[p] # Dst[p]
  /\ Null \notin Node /\ All \notin Node
  /\ \A T \in Topologies : T \subseteq Node \X Node
  /\ {TtlStart, TtlIncrement, TtlThreshold, NetDiameter} \subseteq Nat \ {0}
  /\ TtlStart <= NetDiameter /\ TtlThreshold <= NetDiameter /\ NetDiameter > 1
  /\ {RreqRetries, RreqRateLimit, RerrRateLimit} \subseteq Nat \ {0}

VARIABLES
  links,      \* who hears whom
  up,         \* vehicles whose interface is up (m_socketAddresses is not empty)
  rt,         \* m_routingTable
  nb,         \* m_nb
  seqNo, requestId,
  seen,       \* m_rreqIdCache
  loopback,   \* packets without a route, on their way to RouteInput
  queue,      \* m_queue
  timer,      \* destinations whose m_addressReqTimer runs
  delayed,    \* SendRequest calls put off by the rate limit, per destination
  rreqCount, rerrCount,
  htimer,     \* vehicles whose hello timer runs
  bcast,      \* vehicles with m_lastBcastTime > 0
  air,        \* datagrams between two vehicles
  fresh,      \* packets the applications have not sent yet
  spent       \* how many of the events that MaxEvents bounds have happened

nodeVars == <<links, up, nb, seen, htimer, bcast>>
search   == <<seqNo, requestId, timer, delayed, rreqCount>>
vars     == <<nodeVars, search, rt, loopback, queue, rerrCount, air, fresh, spent>>

\* What happens that is not the receipt of a datagram finds the air nearly quiet.
Quiet == Cardinality(air) <= MaxLate

Event == Quiet /\ spent < MaxEvents /\ spent' = spent + 1

----------------------------------------------------------------------------
(* Routing table entries and what the table does with them *)

Route(next, hop, seq, valid) ==
  [flag |-> "VALID", next |-> next, hop |-> hop, seq |-> seq, valid |-> valid,
   cnt |-> 0, pre |-> {}]

\* What LookupRoute leaves in its result when there is no entry.
Lookup(t, d) == IF t[d] = Null THEN Route(Null, 0, 0, FALSE) ELSE t[d]

Valid(t, d) == t[d] # Null /\ t[d].flag = "VALID"

AddRoute(t, d, e) == IF t[d] = Null THEN [t EXCEPT ![d] = e] ELSE t

\* A route that is not searched for loses its count of requests.
Update(t, d, e) ==
  IF d \notin Node \/ t[d] = Null THEN t
  ELSE [t EXCEPT ![d] = IF e.flag = "IN_SEARCH" THEN e ELSE [e EXCEPT !.cnt = 0]]

InsertPrecursor(t, d, precursor) ==
  IF d \notin Node \/ t[d] = Null THEN t ELSE [t EXCEPT ![d].pre = @ \cup {precursor}]

DestinationsWithNextHop(t, next) == {d \in Node : t[d] # Null /\ t[d].next = next}

InvalidateRoutesWithDst(t, unreachable) ==
  [d \in Node |-> IF d \in unreachable /\ Valid(t, d) THEN [t[d] EXCEPT !.flag = "INVALID"] ELSE t[d]]

Precursors(t, ds) == UNION {Lookup(t, d).pre : d \in ds}

\* A vehicle that was just heard is one hop away; what was known of its sequence
\* number is forgotten unless it is known to be valid on this very route.
UpdateRouteToNeighbor(t, sender) ==
  IF t[sender] # Null /\ t[sender].valid /\ t[sender].hop = 1 THEN t
  ELSE [t EXCEPT ![sender] = Route(sender, 1, 0, FALSE)]

----------------------------------------------------------------------------
(* Sending *)

Reach(n) == {m \in Node : <<n, m>> \in links /\ n \in up}

Datagram(from, to, body) == [src |-> from, to |-> to, hop |-> Null, body |-> body]

Broadcast(n, body) == {[Datagram(n, All, body) EXCEPT !.hop = m] : m \in Reach(n)}

OnTheWay(n, d, next) == IF next \in Reach(n) THEN {[d EXCEPT !.hop = next]} ELSE {}

\* Datagrams without a route go to RouteInput over the loopback device.
LoopbackRoute(n, ds) == [loopback EXCEPT ![n] = @ \cup ds]

\* RouteOutput for datagrams of n: by a valid route of table t, or over the loopback
\* device.  gone leave the air, casts are broadcast.
RouteOutput(n, t, datagrams, gone, casts) ==
  /\ air' = (air \ gone) \cup casts
              \cup UNION {OnTheWay(n, d, t[d.to].next) : d \in {e \in datagrams : Valid(t, e.to)}}
  /\ loopback' = LoopbackRoute(n, {d \in datagrams : ~Valid(t, d.to)})

Rreq(origin, id, originSeq, dst, unknown, dstSeq, hop, ttl) ==
  [type |-> "RREQ", origin |-> origin, id |-> id, originSeq |-> originSeq, dst |-> dst,
   unknown |-> unknown, dstSeq |-> dstSeq, hop |-> hop, ttl |-> ttl]

Rrep(dst, dstSeq, origin, hop, ttl, ack) ==
  [type |-> "RREP", dst |-> dst, dstSeq |-> dstSeq, origin |-> origin, hop |-> hop,
   ttl |-> ttl, ack |-> ack]

Rerr(ds) == [type |-> "RERR", dsts |-> ds]

RrepAck == [type |-> "RREP_ACK"]

\* SendRerrMessage: to the only precursor if there is a route to it, or to all
\* vehicles around.  Only the first is counted.
RerrUnicasts(n, t, ds, precursors) ==
  IF rerrCount[n] < RerrRateLimit /\ Cardinality(precursors) = 1
    THEN {Datagram(n, p, Rerr(ds)) : p \in {q \in precursors \cap Node : Valid(t, q)}}
    ELSE {}

RerrCasts(n, t, ds, precursors) ==
  IF /\ rerrCount[n] < RerrRateLimit
     /\ Cardinality(precursors) > 1
     /\ \E p \in precursors \cap Node : Valid(t, p)
    THEN Broadcast(n, Rerr(ds)) ELSE {}

SendRerrMessage(n, t, ds, precursors, gone) ==
  LET unicasts == RerrUnicasts(n, t, ds, precursors)
  IN  /\ RouteOutput(n, t, unicasts, gone, RerrCasts(n, t, ds, precursors))
      /\ rerrCount' = [rerrCount EXCEPT ![n] = @ + Cardinality(unicasts)]

----------------------------------------------------------------------------
(* Search for a route *)

\* Mutant of Searched: the first TTL of a new search is not bounded.
SearchedUnbounded(t, dst) ==
  LET e   == Lookup(t, dst)
      ttl == IF t[dst] = Null THEN TtlStart ELSE e.hop + TtlIncrement
  IN  [e EXCEPT !.flag = "IN_SEARCH", !.hop = ttl,
                !.cnt = IF ttl >= NetDiameter THEN @ + 1 ELSE @]

\* The entry a new request leaves, its TTL in the hop field.
Searched(t, dst) ==
  LET e   == Lookup(t, dst)
      ttl == CASE t[dst] = Null -> TtlStart
               [] t[dst] # Null /\ e.flag # "IN_SEARCH" -> Min({e.hop + TtlIncrement, NetDiameter})
               [] t[dst] # Null /\ e.flag = "IN_SEARCH" ->
                    IF e.hop + TtlIncrement > TtlThreshold THEN NetDiameter ELSE e.hop + TtlIncrement
  IN  [e EXCEPT !.flag = "IN_SEARCH", !.hop = ttl,
                !.cnt = IF ttl = NetDiameter THEN @ + 1 ELSE @]

\* The timer of the destination starts, or starts again.
ScheduleRreqRetry(n, dst, running) == [timer EXCEPT ![n] = running \cup {dst}]

\* SendRequest.  later are the calls of n already put off,
\* running its timers.
SendRequest(n, dst, later, running) ==
  \/ /\ rreqCount[n] = RreqRateLimit
     /\ delayed' = [delayed EXCEPT ![n] = [later EXCEPT ![dst] = @ + 1]]
     /\ timer' = [timer EXCEPT ![n] = running]
     /\ UNCHANGED <<rt, seqNo, requestId, seen, rreqCount, air, bcast>>
  \/ /\ rreqCount[n] # RreqRateLimit
     /\ delayed' = [delayed EXCEPT ![n] = later]
     /\ timer' = ScheduleRreqRetry(n, dst, running)
     /\ rreqCount' = [rreqCount EXCEPT ![n] = @ + 1]
     /\ seqNo' = [seqNo EXCEPT ![n] = @ + 1]
     /\ requestId' = [requestId EXCEPT ![n] = @ + 1]
     /\ seen' = [seen EXCEPT ![n] = @ \cup {<<n, requestId[n] + 1>> : m \in {n} \cap up}]
     /\ bcast' = bcast \cup ({n} \cap up)
     /\ LET e == Searched(rt[n], dst)
        IN  /\ rt' = [rt EXCEPT ![n][dst] = e]
            /\ air' = air \cup Broadcast(n, Rreq(n, requestId[n] + 1, seqNo[n] + 1, dst,
                                                ~e.valid, IF e.valid THEN e.seq ELSE 0, 0, e.hop))

\* An application sends: RouteOutput.  Without an interface the socket reports an error.
SendData(p) ==
  LET n == Src[p] d == Datagram(n, Dst[p], p)
  IN  /\ p \in fresh /\ Quiet
      /\ fresh' = fresh \ {p}
      /\ IF n \in up THEN RouteOutput(n, rt[n], {d}, {}, {}) ELSE UNCHANGED <<air, loopback>>
      /\ UNCHANGED <<nodeVars, search, rt, queue, rerrCount, spent>>

\* RouteInput of a packet from the loopback device: DeferredRouteOutput.
DeferredRouteOutput(n, d) ==
  /\ d \in loopback[n] /\ Quiet
  /\ loopback' = [loopback EXCEPT ![n] = @ \ {d}]
  /\ queue' = [queue EXCEPT ![n] = IF n \in up THEN @ \cup {d} ELSE @]
  /\ IF n \in up /\ (rt[n][d.to] = Null \/ rt[n][d.to].flag # "IN_SEARCH")
       THEN SendRequest(n, d.to, delayed[n], timer[n])
       ELSE UNCHANGED <<search, rt, seen, air, bcast>>
  /\ UNCHANGED <<links, up, nb, htimer, rerrCount, fresh, spent>>

\* A request that the rate limit put off.
RunDelayed(n, dst) ==
  /\ delayed[n][dst] > 0 /\ Quiet
  /\ SendRequest(n, dst, [delayed[n] EXCEPT ![dst] = @ - 1], timer[n])
  /\ UNCHANGED <<links, up, nb, htimer, loopback, queue, rerrCount, fresh, spent>>

RateLimitTimerExpire(n) ==
  /\ Quiet
  /\ rreqCount[n] > 0 \/ rerrCount[n] > 0
  /\ rreqCount' = [rreqCount EXCEPT ![n] = 0]
  /\ rerrCount' = [rerrCount EXCEPT ![n] = 0]
  /\ UNCHANGED <<nodeVars, seqNo, requestId, timer, delayed, rt, loopback, queue, air, fresh, spent>>

\* Mutant of Waiting: packets are looked up by next hop.
WaitingForNextHop(n, dst) == {d \in queue[n] : rt[n][d.to] # Null /\ rt[n][d.to].next = dst}

Waiting(n, dst) == {d \in queue[n] : d.to = dst}

SendPacketFromQueue(n, dst, next) == UNION {OnTheWay(n, d, next) : d \in Waiting(n, dst)}

\* RouteRequestTimerExpire: a route was found meanwhile,
SearchSucceeded(n, dst) ==
  /\ dst \in timer[n] /\ Valid(rt[n], dst) /\ Quiet
  /\ timer' = [timer EXCEPT ![n] = @ \ {dst}]
  /\ queue' = [queue EXCEPT ![n] = @ \ Waiting(n, dst)]
  /\ air' = air \cup SendPacketFromQueue(n, dst, rt[n][dst].next)
  /\ UNCHANGED <<nodeVars, seqNo, requestId, delayed, rreqCount, rt, loopback, rerrCount, fresh, spent>>

\* the search goes on,
SearchAgain(n, dst) ==
  LET e == Lookup(rt[n], dst)
  IN  /\ dst \in timer[n] /\ ~Valid(rt[n], dst) /\ Quiet
      /\ e.cnt # RreqRetries /\ e.flag = "IN_SEARCH"
      /\ SendRequest(n, dst, delayed[n], timer[n] \ {dst})
      /\ UNCHANGED <<links, up, nb, htimer, loopback, queue, rerrCount, fresh, spent>>

\* Mutant of SearchFailed: the packets stay in the queue.
SearchFailedSilently(n, dst) ==
  LET e == Lookup(rt[n], dst)
  IN  /\ dst \in timer[n] /\ ~Valid(rt[n], dst) /\ Quiet
      /\ e.cnt = RreqRetries \/ e.flag # "IN_SEARCH"
      /\ timer' = [timer EXCEPT ![n] = @ \ {dst}]
      /\ rt' = [rt EXCEPT ![n][dst] = Null]
      /\ UNCHANGED <<nodeVars, seqNo, requestId, delayed, rreqCount, loopback, queue, rerrCount, air, fresh, spent>>

\* or it has come to nothing and the waiting packets are dropped.
SearchFailed(n, dst) ==
  LET e == Lookup(rt[n], dst)
  IN  /\ dst \in timer[n] /\ ~Valid(rt[n], dst) /\ Quiet
      /\ e.cnt = RreqRetries \/ e.flag # "IN_SEARCH"
      /\ timer' = [timer EXCEPT ![n] = @ \ {dst}]
      /\ rt' = [rt EXCEPT ![n][dst] = Null]
      /\ queue' = [queue EXCEPT ![n] = @ \ Waiting(n, dst)]
      /\ UNCHANGED <<nodeVars, seqNo, requestId, delayed, rreqCount, loopback, rerrCount, air, fresh, spent>>

----------------------------------------------------------------------------
(* Receiving *)

\* A datagram reaches its next hop, whose interface is up.
Arrives(n, d) == d \in air /\ d.hop = n /\ n \in up

IsMyOwnAddress(n, addr) == addr = n

\* Is there a socket for the vehicle's address?
FindSocketWithInterfaceAddress(n) == n \in up

Local(n, d) == d.to \in {n, All} /\ ~IsMyOwnAddress(n, d.src)

\* Neighbors::Update of a neighbour that is heard or used.
NbUpdate(n, addr) == nb[n] \cup {addr}

\* RouteInput's update of the neighbours before a unicast datagram is delivered.
Neighbors(n, d) ==
  IF d.to = n /\ Valid(rt[n], d.src) THEN NbUpdate(n, rt[n][d.src].next) ELSE nb[n]

Lose(d) ==
  /\ air' = air \ {d}
  /\ UNCHANGED <<nodeVars, search, rt, loopback, queue, rerrCount, fresh, spent>>

ReceiveData(n, d) ==
  /\ Arrives(n, d) /\ Local(n, d) /\ d.body \in Packet
  /\ air' = air \ {d}
  /\ nb' = [nb EXCEPT ![n] = Neighbors(n, d)]
  /\ UNCHANGED <<links, up, seen, htimer, bcast, search, rt, loopback, queue, rerrCount, fresh, spent>>

\* Forwarding.  The next hops to destination and source count as neighbours; the
\* latter is no address at all if there is no entry for the source.
Forward(n, d) ==
  /\ Arrives(n, d) /\ ~Local(n, d) /\ ~IsMyOwnAddress(n, d.src)
  /\ Valid(rt[n], d.to)
  /\ nb' = [nb EXCEPT ![n] = NbUpdate(n, rt[n][d.to].next) \cup NbUpdate(n, Lookup(rt[n], d.src).next)]
  /\ air' = (air \ {d}) \cup OnTheWay(n, d, rt[n][d.to].next)
  /\ UNCHANGED <<links, up, seen, htimer, bcast, search, rt, loopback, queue, rerrCount, fresh, spent>>

\* To the vehicle the packet came from, or to everybody; not counted.
SendRerrWhenNoRouteToForward(n, d) ==
  LET rerr == Rerr({d.to})
      back == Valid(rt[n], d.src)
      mute == rerrCount[n] = RerrRateLimit
  IN  RouteOutput(n, rt[n],
                  IF ~mute /\ back THEN {Datagram(n, rt[n][d.src].next, rerr)} ELSE {}, {d},
                  IF ~mute /\ ~back THEN Broadcast(n, rerr) ELSE {})

ForwardFails(n, d) ==
  /\ Arrives(n, d) /\ ~Local(n, d) /\ ~IsMyOwnAddress(n, d.src)
  /\ ~Valid(rt[n], d.to)
  /\ SendRerrWhenNoRouteToForward(n, d)
  /\ UNCHANGED <<nodeVars, search, rt, queue, rerrCount, fresh, spent>>

----------------------------------------------------------------------------
(* RREQ *)

\* Mutant of ReverseRoute: takes the hop count before it is incremented.
ReverseRouteShort(t, m, src) ==
  LET e == Lookup(t, m.origin)
  IN  IF t[m.origin] = Null THEN AddRoute(t, m.origin, Route(src, m.hop, m.originSeq, TRUE))
      ELSE Update(t, m.origin,
             [e EXCEPT !.seq = IF e.valid THEN Max({e.seq, m.originSeq}) ELSE m.originSeq,
                       !.valid = TRUE, !.next = src, !.hop = m.hop])

\* The reverse route: sequence number and hops of the request.  The flag of an entry
\* that exists stays as it is.
ReverseRoute(t, m, src) ==
  LET e == Lookup(t, m.origin)
  IN  IF t[m.origin] = Null
        THEN AddRoute(t, m.origin, Route(src, m.hop + 1, m.originSeq, TRUE))
        ELSE Update(t, m.origin,
               [e EXCEPT !.seq = IF e.valid THEN Max({e.seq, m.originSeq}) ELSE m.originSeq,
                         !.valid = TRUE, !.next = src, !.hop = m.hop + 1])

\* Mutant of NeighborRoute: the originator's number is taken for the neighbour's.
NeighborRouteNumbered(t, m, src) ==
  Update(t, src, [Lookup(t, src) EXCEPT !.flag = "VALID", !.valid = TRUE, !.seq = m.originSeq,
                                        !.next = src, !.hop = 1])

\* The route to the vehicle the request came from, with the originator's number.
NeighborRoute(t, m, src) ==
  Update(t, src, [Lookup(t, src) EXCEPT !.flag = "VALID", !.valid = FALSE, !.seq = m.originSeq,
                                        !.next = src, !.hop = 1])

\* The routing table after the first half of RecvRequest.
Requested(n, d) ==
  NeighborRoute(ReverseRoute(UpdateRouteToNeighbor(rt[n], d.src), d.body, d.src), d.body, d.src)

IsRequest(n, d) == Arrives(n, d) /\ Local(n, d) /\ d.body \notin Packet /\ d.body.type = "RREQ"

Known(n, d) == <<d.body.origin, d.body.id>> \in seen[n]

DropKnownRequest(n, d) ==
  /\ IsRequest(n, d) /\ Known(n, d)
  /\ rt' = [rt EXCEPT ![n] = UpdateRouteToNeighbor(@, d.src)]
  /\ air' = air \ {d}
  /\ UNCHANGED <<nodeVars, search, loopback, queue, rerrCount, fresh, spent>>

\* What every request that is seen for the first time changes.
TakeRequest(n, d) ==
  /\ IsRequest(n, d) /\ ~Known(n, d)
  /\ seen' = [seen EXCEPT ![n] = @ \cup {<<d.body.origin, d.body.id>>}]
  /\ nb' = [nb EXCEPT ![n] = NbUpdate(n, d.src)]
  /\ UNCHANGED <<links, up, htimer, requestId, timer, delayed, rreqCount, queue, rerrCount, fresh, spent>>

SendReply(n, number, back, origin) ==
  Datagram(n, back.next, Rrep(n, number, origin, 0, back.hop, FALSE))

\* RecvRequest at the destination, which takes the number the request asks for if it
\* is the next one.
AnswerRequest(n, d) ==
  LET m      == d.body
      t      == Requested(n, d)
      number == IF ~m.unknown /\ m.dstSeq = seqNo[n] + 1 THEN seqNo[n] + 1 ELSE seqNo[n]
  IN  /\ TakeRequest(n, d) /\ IsMyOwnAddress(n, m.dst)
      /\ rt' = [rt EXCEPT ![n] = t]
      /\ seqNo' = [seqNo EXCEPT ![n] = number]
      /\ RouteOutput(n, t, {SendReply(n, number, t[m.origin], m.origin)}, {d}, {})
      /\ UNCHANGED bcast

\* The route of n is as new as the requester wants it.
Suffices(e, m) == e.valid /\ (m.unknown \/ e.seq >= m.dstSeq)

\* The reply, the gratuitous one to the destination, and what the table notes of both.
SendReplyByIntermediateNode(n, t, m) ==
  LET toDst == t[m.dst]
      back  == t[m.origin]
      after == InsertPrecursor(InsertPrecursor(t, m.dst, back.next), m.origin, toDst.next)
      reply == Rrep(m.dst, toDst.seq, m.origin, toDst.hop, back.hop, toDst.hop = 1)
      grat  == Rrep(m.origin, back.seq, m.dst, back.hop, toDst.hop, FALSE)
  IN  [table |-> after,
       sent  |-> {Datagram(n, back.next, reply)}
                   \cup (IF GratuitousReply THEN {Datagram(n, toDst.next, grat)} ELSE {})]

\* RecvRequest at a vehicle with a route.
AnswerForDestination(n, d) ==
  LET m == d.body
      t == Requested(n, d)
      e == Lookup(t, m.dst)
      r == SendReplyByIntermediateNode(n, t, m)
  IN  /\ TakeRequest(n, d) /\ ~IsMyOwnAddress(n, m.dst)
      /\ Valid(t, m.dst) /\ e.next # d.src /\ Suffices(e, m) /\ ~DestinationOnly
      /\ rt' = [rt EXCEPT ![n] = r.table]
      /\ RouteOutput(n, r.table, r.sent, {d}, {})
      /\ UNCHANGED <<seqNo, bcast>>

\* RecvRequest at any other vehicle: passed on unless its TTL ends or the route of n
\* leads back to where it came from.
ForwardRequest(n, d) ==
  LET m     == d.body
      t     == Requested(n, d)
      toDst == Lookup(t, m.dst)
      newer == t[m.dst] # Null /\ Suffices(toDst, m)
      onward == [m EXCEPT !.hop = @ + 1, !.ttl = @ - 1,
                          !.dstSeq = IF newer THEN toDst.seq ELSE @,
                          !.unknown = IF newer THEN FALSE ELSE @]
      drop  == toDst.next = d.src \/ m.ttl < 2
  IN  /\ TakeRequest(n, d) /\ ~IsMyOwnAddress(n, m.dst)
      /\ toDst.next = d.src \/ DestinationOnly \/ ~Valid(t, m.dst) \/ ~Suffices(toDst, m)
      /\ rt' = [rt EXCEPT ![n] = t]
      /\ air' = (air \ {d}) \cup (IF drop THEN {} ELSE Broadcast(n, onward))
      /\ bcast' = IF drop THEN bcast ELSE bcast \cup {n}
      /\ UNCHANGED <<seqNo, loopback>>

----------------------------------------------------------------------------
(* RREP, RREP_ACK, hello *)

IsReply(n, d) == Arrives(n, d) /\ Local(n, d) /\ d.body \notin Packet /\ d.body.type = "RREP"

IsHello(m) == m.dst = m.origin

\* RecvReply takes the route over if it is newer, or as new and shorter, or if the
\* known one is down or of unknown age.
Better(e, m) ==
  \/ ~e.valid
  \/ m.dstSeq > e.seq
  \/ m.dstSeq = e.seq /\ (e.flag # "VALID" \/ m.hop + 1 < e.hop)

\* The routing table with the route of the reply.
Replied(n, d) ==
  LET m == d.body
      t == UpdateRouteToNeighbor(rt[n], d.src)
      e == Route(d.src, m.hop + 1, m.dstSeq, TRUE)
  IN  IF t[m.dst] = Null THEN AddRoute(t, m.dst, e)
      ELSE IF Better(t[m.dst], m) THEN Update(t, m.dst, e) ELSE t

\* The acknowledgement a reply may ask for.
SendReplyAck(n, d) == IF d.body.ack THEN {Datagram(n, d.src, RrepAck)} ELSE {}

\* At the vehicle that asked: the waiting packets are sent.
ReplyArrives(n, d) ==
  LET m     == d.body
      inSearch == Lookup(UpdateRouteToNeighbor(rt[n], d.src), m.dst).flag = "IN_SEARCH"
      e     == Route(d.src, m.hop + 1, m.dstSeq, TRUE)
      t     == IF inSearch THEN Update(Replied(n, d), m.dst, e) ELSE Replied(n, d)
  IN  /\ IsReply(n, d) /\ ~IsHello(m) /\ IsMyOwnAddress(n, m.origin)
      /\ rt' = [rt EXCEPT ![n] = t]
      /\ timer' = [timer EXCEPT ![n] = IF inSearch THEN @ \ {m.dst} ELSE @]
      /\ queue' = [queue EXCEPT ![n] = @ \ Waiting(n, m.dst)]
      /\ nb' = [nb EXCEPT ![n] = Neighbors(n, d)]
      /\ RouteOutput(n, Replied(n, d), SendReplyAck(n, d), {d},
                     SendPacketFromQueue(n, m.dst, t[m.dst].next))
      /\ UNCHANGED <<links, up, seen, htimer, bcast, seqNo, requestId, delayed, rreqCount,
                     rerrCount, fresh, spent>>

\* The precursors RecvReply notes on the way.
NotePrecursors(t, m) ==
  LET back  == t[m.origin]
      there == t[m.dst]
      one   == InsertPrecursor(InsertPrecursor(t, m.dst, back.next), there.next, back.next)
      two   == [one EXCEPT ![m.origin] = [back EXCEPT !.pre = @ \cup {there.next}]]
  IN  IF Valid(t, m.dst) THEN InsertPrecursor(two, back.next, there.next) ELSE t

\* At any other vehicle: the reply goes on to the one that asked.  It is dropped
\* where the way back is unknown or searched for.
ForwardReply(n, d) ==
  LET m    == d.body
      t    == Replied(n, d)
      back == Lookup(t, m.origin)
      lost == t[m.origin] = Null \/ back.flag = "IN_SEARCH"
      onward == [m EXCEPT !.hop = @ + 1, !.ttl = @ - 1, !.ack = FALSE]
  IN  /\ IsReply(n, d) /\ ~IsHello(m) /\ ~IsMyOwnAddress(n, m.origin)
      /\ rt' = [rt EXCEPT ![n] = IF lost THEN t ELSE NotePrecursors(t, m)]
      /\ nb' = [nb EXCEPT ![n] = Neighbors(n, d)]
      /\ RouteOutput(n, t, SendReplyAck(n, d)
                             \cup (IF lost \/ m.ttl < 2 THEN {} ELSE {Datagram(n, back.next, onward)}),
                     {d}, {})
      /\ UNCHANGED <<links, up, seen, htimer, bcast, search, queue, rerrCount, fresh, spent>>

\* RecvReplyAck: the route to the sender is valid, whatever it was before.
ReceiveReplyAck(n, d) ==
  LET t == UpdateRouteToNeighbor(rt[n], d.src)
  IN  /\ Arrives(n, d) /\ Local(n, d) /\ d.body = RrepAck
      /\ rt' = [rt EXCEPT ![n] = Update(t, d.src, [t[d.src] EXCEPT !.flag = "VALID"])]
      /\ nb' = [nb EXCEPT ![n] = Neighbors(n, d)]
      /\ air' = air \ {d}
      /\ UNCHANGED <<links, up, seen, htimer, bcast, search, loopback, queue, rerrCount, fresh, spent>>

\* ProcessHello.
ReceiveHello(n, d) ==
  LET m == d.body
      t == UpdateRouteToNeighbor(rt[n], d.src)
      e == [Lookup(t, m.dst) EXCEPT !.flag = "VALID", !.next = m.dst, !.hop = 1,
                                    !.seq = m.dstSeq, !.valid = TRUE]
  IN  /\ IsReply(n, d) /\ IsHello(m)
      /\ rt' = [rt EXCEPT ![n] = Update(t, m.dst, e)]
      /\ nb' = [nb EXCEPT ![n] = IF EnableHello THEN NbUpdate(n, m.dst) ELSE @]
      /\ air' = air \ {d}
      /\ UNCHANGED <<links, up, seen, htimer, bcast, search, loopback, queue, rerrCount, fresh, spent>>

SendHello(n) == Broadcast(n, Rrep(n, seqNo[n], n, 0, 1, FALSE))

\* HelloTimerExpire: no hello after another broadcast.
HelloTimerExpire(n) ==
  /\ n \in htimer
  /\ Event
  /\ bcast' = bcast \ {n}
  /\ air' = IF n \in bcast THEN air ELSE air \cup SendHello(n)
  /\ UNCHANGED <<links, up, nb, seen, htimer, search, rt, loopback, queue, rerrCount, fresh>>

----------------------------------------------------------------------------
(* RERR, broken links, expiry *)

\* RecvError: what n reached over the sender is unreachable.
ReceiveError(n, d) ==
  LET t == UpdateRouteToNeighbor(rt[n], d.src)
      unreachable == d.body.dsts \cap DestinationsWithNextHop(t, d.src)
  IN  /\ Arrives(n, d) /\ Local(n, d) /\ d.body \notin Packet /\ d.body.type = "RERR"
      /\ nb' = [nb EXCEPT ![n] = Neighbors(n, d)]
      /\ IF unreachable = {} THEN air' = air \ {d} /\ UNCHANGED <<loopback, rerrCount>>
         ELSE SendRerrMessage(n, t, unreachable, Precursors(t, unreachable), {d})
      /\ rt' = [rt EXCEPT ![n] = InvalidateRoutesWithDst(t, unreachable)]
      /\ UNCHANGED <<links, up, seen, htimer, bcast, search, queue, fresh, spent>>

\* Neighbors::Purge forgets who is closed.
NbPurge(n, m) == nb[n] \ {m}

\* Neighbors::Purge with SendRerrWhenBreaksLinkToNextHop.
CloseLink(n, m) ==
  LET t  == rt[n]
      ds == {m} \cup DestinationsWithNextHop(t, m)
  IN  /\ m \in nb[n]
      /\ Event
      /\ nb' = [nb EXCEPT ![n] = NbPurge(n, m)]
      /\ IF m \notin Node \/ t[m] = Null THEN UNCHANGED <<rt, air, loopback, rerrCount>>
         ELSE /\ SendRerrMessage(n, t, ds, Precursors(t, ds), {})
              /\ rt' = [rt EXCEPT ![n] = InvalidateRoutesWithDst(t, ds)]
      /\ UNCHANGED <<links, up, seen, htimer, bcast, search, queue, fresh>>

\* The lifetime of an entry ends: a route becomes invalid, an invalid one is deleted.
Expire(n, d) ==
  /\ rt[n][d] # Null /\ rt[n][d].flag # "IN_SEARCH"
  /\ Event
  /\ rt' = [rt EXCEPT ![n][d] = IF @.flag = "VALID" THEN [@ EXCEPT !.flag = "INVALID"] ELSE Null]
  /\ UNCHANGED <<nodeVars, search, loopback, queue, rerrCount, air, fresh>>

----------------------------------------------------------------------------
(* Interfaces and vehicles *)

\* NotifyInterfaceDown: queue, timers and put-off requests stay.
InterfaceDown(n) ==
  /\ FindSocketWithInterfaceAddress(n)
  /\ Event
  /\ up' = up \ {n}
  /\ htimer' = htimer \ {n}
  /\ nb' = [nb EXCEPT ![n] = {}]
  /\ rt' = [rt EXCEPT ![n] = [d \in Node |-> Null]]
  /\ UNCHANGED <<links, seen, bcast, search, loopback, queue, rerrCount, air, fresh>>

\* NotifyRemoveAddress of the only address forgets as much.
RemoveAddress(n) == InterfaceDown(n)

\* NotifyInterfaceUp; nobody starts the hello timer again.
InterfaceUp(n) ==
  /\ ~FindSocketWithInterfaceAddress(n) /\ Quiet
  /\ up' = up \cup {n}
  /\ UNCHANGED <<links, nb, seen, htimer, bcast, search, rt, loopback, queue, rerrCount, air, fresh, spent>>

\* NotifyAddAddress of the first address of an interface.
AddAddress(n) == InterfaceUp(n)

Move ==
  /\ Event
  /\ links' \in Topologies \ {links}
  /\ UNCHANGED <<up, nb, seen, htimer, bcast, search, rt, loopback, queue, rerrCount, air, fresh>>

----------------------------------------------------------------------------
\* DoInitialize starts the hello timers.
Hellos == IF EnableHello THEN Node ELSE {}

\* SetIpv4: the only route is the one to the loopback device, which is no vehicle.
FirstRoutes == [d \in Node |-> Null]

Init ==
  /\ links \in Topologies
  /\ up = Node
  /\ rt = [n \in Node |-> FirstRoutes]
  /\ nb = [n \in Node |-> {}]
  /\ seqNo = [n \in Node |-> 0]
  /\ requestId = [n \in Node |-> 0]
  /\ seen = [n \in Node |-> {}]
  /\ loopback = [n \in Node |-> {}]
  /\ queue = [n \in Node |-> {}]
  /\ timer = [n \in Node |-> {}]
  /\ delayed = [n \in Node |-> [d \in Node |-> 0]]
  /\ rreqCount = [n \in Node |-> 0]
  /\ rerrCount = [n \in Node |-> 0]
  /\ htimer = Hellos
  /\ bcast = {}
  /\ air = {}
  /\ fresh = Packet
  /\ spent = 0

Receive(n, d) ==
  \/ ReceiveData(n, d) \/ Forward(n, d) \/ ForwardFails(n, d)
  \/ DropKnownRequest(n, d) \/ AnswerRequest(n, d) \/ AnswerForDestination(n, d)
  \/ ForwardRequest(n, d) \/ ReplyArrives(n, d) \/ ForwardReply(n, d)
  \/ ReceiveReplyAck(n, d) \/ ReceiveHello(n, d) \/ ReceiveError(n, d)

RouteRequestTimerExpire(n, dst) ==
  SearchSucceeded(n, dst) \/ SearchAgain(n, dst) \/ SearchFailed(n, dst)

Next ==
  \/ \E p \in Packet : SendData(p)
  \/ \E n \in Node : \E d \in loopback[n] : DeferredRouteOutput(n, d)
  \/ \E n, dst \in Node : RunDelayed(n, dst) \/ RouteRequestTimerExpire(n, dst) \/ Expire(n, dst)
  \/ \E n \in Node : RateLimitTimerExpire(n) \/ HelloTimerExpire(n)
  \/ \E n \in Node : InterfaceDown(n) \/ RemoveAddress(n) \/ InterfaceUp(n) \/ AddAddress(n)
  \/ \E d \in air : Receive(d.hop, d) \/ Lose(d)
  \/ \E n \in Node : \E m \in nb[n] : CloseLink(n, m)
  \/ Move

\* What the simulator has scheduled.
Scheduled ==
  \/ \E d \in air : Receive(d.hop, d) \/ Lose(d)
  \/ \E n \in Node : \E d \in loopback[n] : DeferredRouteOutput(n, d)
  \/ \E n, dst \in Node : RunDelayed(n, dst) \/ RouteRequestTimerExpire(n, dst)
  \/ \E n \in Node : RateLimitTimerExpire(n)

\* The simulator runs what is scheduled; nobody has to send, move or break down.
Spec == Init /\ [][Next]_vars /\ WF_vars(Scheduled)

----------------------------------------------------------------------------
(* Properties *)

\* An entry of a routing table.
Entry == [flag : {"VALID", "INVALID", "IN_SEARCH"}, next : Node \cup {Null}, hop : Nat, seq : Nat,
          valid : BOOLEAN, cnt : Nat, pre : SUBSET (Node \cup {Null})]

\* Every variable has the values of its type: entries lead to vehicles or nowhere, the
\* rate limits are kept, nobody sends without an address, and a request never travels
\* farther than NetDiameter.
TypeOK ==
  /\ links \in Topologies /\ up \subseteq Node /\ htimer \subseteq up /\ bcast \subseteq Node
  /\ \A n \in Node :
       /\ \A d \in Node : rt[n][d] = Null \/ rt[n][d] \in Entry
       /\ \A d \in Node : rt[n][d] # Null /\ rt[n][d].flag = "IN_SEARCH" => rt[n][d].hop <= NetDiameter
       /\ rreqCount[n] <= RreqRateLimit /\ rerrCount[n] <= RerrRateLimit
       /\ nb[n] \subseteq Node \cup {Null} /\ timer[n] \subseteq Node \ {n}
       /\ \A d \in loopback[n] \cup queue[n] : d.hop = Null /\ d.src = n /\ d.to \in Node \ {n}
  /\ \A d \in air : d.src \in Node /\ d.hop \in Node /\ d.to \in Node \cup {All}

\* A packet in the queue has somebody who will send or drop it (RouteRequestTimerExpire,
\* SendRequest): the timer of its destination runs, or a request is put off whose timer
\* follows.
NoPacketStranded ==
  \A n \in Node : \A d \in queue[n] : d.to \in timer[n] \/ delayed[n][d.to] > 0

\* Nobody believes a sequence number its owner has not reached (RecvRequest, RecvReply,
\* RecvError), whatever is lost, late or counted up on the way.
SeqNoOwned ==
  \A n, d \in Node : rt[n][d] # Null /\ rt[n][d].valid => rt[n][d].seq <= seqNo[d]

\* A valid route leads to another node, and one of one hop leads to the destination itself
\* (RecvRequest, RecvReply, UpdateRouteToNeighbor).
ValidRouteComplete ==
  \A n, d \in Node : Valid(rt[n], d) =>
    /\ rt[n][d].next \in Node \ {n} /\ rt[n][d].hop > 0
    /\ rt[n][d].hop = 1 => rt[n][d].next = d

\* Every queued packet is sent or dropped in the end (SendPacketFromQueue,
\* RouteRequestTimerExpire), even if its request is put off, lost or overtaken.
QueueDrains == []<>(\A n \in Node : queue[n] = {})
=============================================================================
