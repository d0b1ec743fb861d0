----------------------------- MODULE AodvProofs -----------------------------
(***************************************************************************)
(* Proofs about Aodv for any vehicles, packets, drives and limits: types,    *)
(* waiting packets that somebody will look at, sequence numbers, routes.     *)
(*                                                                          *)
(* The invariant says of every table entry and datagram what its maker knew. *)
(* Operators on tables keep it (first part), so do sending (second part)     *)
(* and, lemma by lemma, the handlers.                                       *)
(***************************************************************************)
EXTENDS Aodv, FiniteSetTheorems, TLAPS

(***************************************************************************)
(* The inductive invariant                                                  *)
(***************************************************************************)

\* What an entry of vehicle n for d says, q being everybody's sequence numbers.
EntryOK(n, d, e, q) ==
  /\ e \in Entry
  /\ e.next # n /\ n \notin e.pre /\ e.hop # 0
  /\ e.flag = "IN_SEARCH" => e.hop <= NetDiameter
  /\ e.flag # "IN_SEARCH" => e.next # Null
  /\ (e.flag # "IN_SEARCH" \/ e.valid) /\ e.hop = 1 => e.next = d
  /\ e.valid => e.seq <= q[d]

TableOK(n, t, q) ==
  /\ t \in [Node -> Entry \cup {Null}]
  /\ \A d \in Node : t[d] # Null => EntryOK(n, d, t[d], q)

Requests == [type : {"RREQ"}, origin : Node, id : Nat, originSeq : Nat, dst : Node,
             unknown : BOOLEAN, dstSeq : Nat, hop : Nat, ttl : Nat]

Replies == [type : {"RREP"}, dst : Node, dstSeq : Nat, origin : Node, hop : Nat, ttl : Nat,
            ack : BOOLEAN]

\* A request that src sent: it has not come too far, and asks for no more than there is.
RreqOK(src, m, q) ==
  /\ m \in Requests
  /\ m.dst # m.origin /\ m.ttl # 0 /\ m.hop + m.ttl <= NetDiameter
  /\ m.hop = 0 => src = m.origin
  /\ m.originSeq <= q[m.origin]
  /\ ~m.unknown => m.dstSeq <= q[m.dst]

\* A reply or hello that src sent: only the destination itself says that it is there.
RrepOK(src, m, q) ==
  /\ m \in Replies
  /\ (m.hop = 0 \/ m.dst = m.origin) => src = m.dst
  /\ m.dstSeq <= q[m.dst]

BodyOK(src, m, q) ==
  \/ m \in Packet
  \/ RreqOK(src, m, q)
  \/ RrepOK(src, m, q)
  \/ m \in [type : {"RERR"}, dsts : SUBSET Node]
  \/ m = RrepAck

IsDatagram(d) == d = [src |-> d.src, to |-> d.to, hop |-> d.hop, body |-> d.body]

\* A datagram that waits at n.
WaitingOK(n, d, q) ==
  IsDatagram(d) /\ d.src = n /\ d.to \in Node \ {n} /\ d.hop = Null /\ BodyOK(n, d.body, q)

FlyingOK(d, q) ==
  IsDatagram(d) /\ d.src \in Node /\ d.hop \in Node /\ d.to \in Node \cup {All} /\ BodyOK(d.src, d.body, q)

Searching(t, d) == t[d] # Null /\ t[d].flag = "IN_SEARCH"

Awaited(n, d) == d \in timer[n] \/ delayed[n][d] > 0

Vehicles ==
  /\ links \in Topologies /\ up \subseteq Node /\ htimer \subseteq up /\ bcast \subseteq Node
  /\ nb \in [Node -> SUBSET (Node \cup {Null})]
  /\ rerrCount \in [Node -> 0 .. RerrRateLimit]

Counters ==
  /\ seqNo \in [Node -> Nat] /\ requestId \in [Node -> Nat]
  /\ rreqCount \in [Node -> 0 .. RreqRateLimit]
  /\ timer \in [Node -> SUBSET Node] /\ delayed \in [Node -> [Node -> Nat]]
  /\ \A n \in Node : n \notin timer[n] /\ delayed[n][n] = 0

Tables ==
  /\ rt \in [Node -> [Node -> Entry \cup {Null}]]
  /\ \A n \in Node : TableOK(n, rt[n], seqNo)

AirOK == \A d \in air : FlyingOK(d, seqNo)

LoopbackOK ==
  /\ loopback = [n \in Node |-> loopback[n]]
  /\ \A n \in Node : \A d \in loopback[n] : WaitingOK(n, d, seqNo)

QueueOK ==
  /\ queue = [n \in Node |-> queue[n]]
  /\ \A n \in Node : \A d \in queue[n] : WaitingOK(n, d, seqNo)

\* Whoever waits or is searched for has a timer or a request that is put off.
Searches ==
  \A n \in Node : /\ \A d \in Node : Searching(rt[n], d) => Awaited(n, d)
                  /\ \A d \in queue[n] : Awaited(n, d.to)

IInv == Vehicles /\ Counters /\ Tables /\ AirOK /\ LoopbackOK /\ QueueOK /\ Searches
-----------------------------------------------------------------------------
(* Routing tables *)

Numbers == [Node -> Nat]

\* No search begins between t and u.
Quieter(t, u) == \A d \in Node : Searching(u, d) => Searching(t, d)

LEMMA Constants ==
  /\ \A p \in Packet : Src[p] \in Node /\ Dst[p] \in Node /\ Src[p] # Dst[p]
  /\ Null \notin Node /\ All \notin Node
  /\ \A T \in Topologies : T \subseteq Node \X Node
  /\ TtlStart \in Nat /\ TtlIncrement \in Nat /\ TtlThreshold \in Nat /\ NetDiameter \in Nat
  /\ TtlStart # 0 /\ TtlIncrement # 0
  /\ TtlStart <= NetDiameter /\ TtlThreshold <= NetDiameter /\ NetDiameter > 1
  /\ RreqRateLimit \in Nat \ {0} /\ RerrRateLimit \in Nat \ {0}
  /\ IsFiniteSet(Node)
BY AodvAssumption DEF AodvAssumption

LEMMA RouteOK ==
  ASSUME NEW n \in Node, NEW d \in Node, NEW q \in Numbers, NEW next \in Node \ {n},
         NEW hop \in Nat \ {0}, hop = 1 => next = d,
         NEW seq \in Nat, NEW valid \in BOOLEAN, valid => seq <= q[d]
  PROVE  EntryOK(n, d, Route(next, hop, seq, valid), q) /\ Route(next, hop, seq, valid).flag = "VALID"
BY Constants DEF EntryOK, Route, Entry

\* A table with a new entry.
LEMMA PutOK ==
  ASSUME NEW n \in Node, NEW q, NEW t, TableOK(n, t, q), NEW d \in Node, NEW e,
         EntryOK(n, d, e, q)
  PROVE  /\ TableOK(n, [t EXCEPT ![d] = e], q)
         /\ [t EXCEPT ![d] = e][d] = e
         /\ (e.flag = "IN_SEARCH" => Searching(t, d)) => Quieter(t, [t EXCEPT ![d] = e])
BY DEF TableOK, EntryOK, Quieter, Searching

\* The count of an entry may be reset.
LEMMA CountOK ==
  ASSUME NEW n, NEW d, NEW q, NEW e, EntryOK(n, d, e, q)
  PROVE  EntryOK(n, d, [e EXCEPT !.cnt = 0], q) /\ [e EXCEPT !.cnt = 0].flag = e.flag
         /\ [e EXCEPT !.cnt = 0].next = e.next /\ [e EXCEPT !.cnt = 0].seq = e.seq
         /\ [e EXCEPT !.cnt = 0].valid = e.valid
BY DEF EntryOK, Entry

LEMMA UpdateOK ==
  ASSUME NEW n \in Node, NEW q, NEW t, TableOK(n, t, q), NEW d, NEW e,
         d \in Node /\ t[d] # Null => EntryOK(n, d, e, q) /\ (e.flag = "IN_SEARCH" => Searching(t, d))
  PROVE  /\ TableOK(n, Update(t, d, e), q) /\ Quieter(t, Update(t, d, e))
         /\ d \in Node /\ t[d] # Null => EntryOK(n, d, Update(t, d, e)[d], q)
                                       /\ Update(t, d, e)[d].next = e.next
                                       /\ Update(t, d, e)[d].seq = e.seq
                                       /\ Update(t, d, e)[d].flag = e.flag
         /\ \A x \in Node : x # d => Update(t, d, e)[x] = t[x]
<1>1. CASE d \notin Node \/ t[d] = Null
  BY <1>1 DEF Update, Quieter
<1>2. CASE d \in Node /\ t[d] # Null
  <2> DEFINE f == IF e.flag = "IN_SEARCH" THEN e ELSE [e EXCEPT !.cnt = 0]
  <2>1. EntryOK(n, d, f, q) /\ f.flag = e.flag /\ f.next = e.next /\ f.seq = e.seq
    BY <1>2, CountOK
  <2>2. Update(t, d, e) = [t EXCEPT ![d] = f]
    BY <1>2 DEF Update
  <2> HIDE DEF f
  <2>3. TableOK(n, [t EXCEPT ![d] = f], q) /\ [t EXCEPT ![d] = f][d] = f
    BY <1>2, <2>1, PutOK
  <2>4. Quieter(t, [t EXCEPT ![d] = f])
    BY <1>2, <2>1, PutOK
  <2>5. \A x \in Node : x # d => [t EXCEPT ![d] = f][x] = t[x]
    BY DEF TableOK
  <2>6. QED
    BY <2>1, <2>2, <2>3, <2>4, <2>5
<1>3. QED
  BY <1>1, <1>2

LEMMA HeardOK ==
  ASSUME NEW n \in Node, NEW q \in Numbers, NEW t, TableOK(n, t, q), NEW src \in Node \ {n}
  PROVE  /\ TableOK(n, UpdateRouteToNeighbor(t, src), q)
         /\ Quieter(t, UpdateRouteToNeighbor(t, src))
         /\ EntryOK(n, src, UpdateRouteToNeighbor(t, src)[src], q)
         /\ UpdateRouteToNeighbor(t, src)[src].next = src
         /\ UpdateRouteToNeighbor(t, src)[src].hop = 1
<1> DEFINE e == Route(src, 1, 0, FALSE)
<1>1. CASE t[src] # Null /\ t[src].valid /\ t[src].hop = 1
  <2>1. EntryOK(n, src, t[src], q) /\ UpdateRouteToNeighbor(t, src) = t
    BY <1>1 DEF TableOK, UpdateRouteToNeighbor
  <2>2. QED
    BY <1>1, <2>1 DEF EntryOK, Quieter
<1>2. CASE ~(t[src] # Null /\ t[src].valid /\ t[src].hop = 1)
  <2>1. UpdateRouteToNeighbor(t, src) = [t EXCEPT ![src] = e]
    BY <1>2 DEF UpdateRouteToNeighbor
  <2>2. EntryOK(n, src, e, q) /\ e.flag = "VALID"
    BY Constants DEF EntryOK, Route, Entry
  <2>3. e.next = src /\ e.hop = 1
    BY DEF Route
  <2> HIDE DEF e
  <2>4. TableOK(n, [t EXCEPT ![src] = e], q) /\ [t EXCEPT ![src] = e][src] = e
        /\ Quieter(t, [t EXCEPT ![src] = e])
    BY <2>2, PutOK
  <2>5. QED
    BY <2>1, <2>2, <2>3, <2>4
<1>3. QED
  BY <1>1, <1>2

LEMMA MaxOfTwo ==
  ASSUME NEW a \in Nat, NEW b \in Nat
  PROVE  Max({a, b}) \in {a, b} /\ Min({a, b}) \in {a, b} /\ Min({a, b}) <= a /\ Min({a, b}) <= b
<1>1. \E x \in {a, b} : \A y \in {a, b} : x >= y
  OBVIOUS
<1>2. \E x \in {a, b} : \A y \in {a, b} : x <= y
  OBVIOUS
<1>3. QED
  BY <1>1, <1>2 DEF Max, Min

\* The reverse route of a request.
LEMMA ReverseOK ==
  ASSUME NEW n \in Node, NEW q \in Numbers, NEW t, TableOK(n, t, q), NEW src \in Node \ {n},
         NEW m, RreqOK(src, m, q)
  PROVE  /\ TableOK(n, ReverseRoute(t, m, src), q)
         /\ Quieter(t, ReverseRoute(t, m, src))
         /\ EntryOK(n, m.origin, ReverseRoute(t, m, src)[m.origin], q)
         /\ ReverseRoute(t, m, src)[m.origin].next = src
         /\ ReverseRoute(t, m, src)[m.origin].seq <= q[m.origin]
<1> DEFINE o == m.origin
<1>1. /\ o \in Node /\ m.hop \in Nat /\ m.originSeq \in Nat /\ m.originSeq <= q[o]
      /\ m.hop + 1 \in Nat \ {0} /\ (m.hop + 1 = 1 => src = o) /\ m.hop + 1 <= NetDiameter
      /\ q[o] \in Nat
  BY Constants DEF RreqOK, Requests, Numbers
<1>2. CASE t[o] = Null
  <2> DEFINE e == Route(src, m.hop + 1, m.originSeq, TRUE)
  <2>1. ReverseRoute(t, m, src) = [t EXCEPT ![o] = e]
    BY <1>2 DEF ReverseRoute, AddRoute
  <2>2. EntryOK(n, o, e, q) /\ e.flag = "VALID"
    <3> HIDE DEF o
    <3>1. QED
      BY <1>1, Constants DEF EntryOK, Route, Entry
  <2>3. e.next = src /\ e.seq = m.originSeq
    BY DEF Route
  <2> HIDE DEF e, o
  <2>4. TableOK(n, [t EXCEPT ![o] = e], q) /\ [t EXCEPT ![o] = e][o] = e
        /\ Quieter(t, [t EXCEPT ![o] = e])
    BY <1>1, <2>2, PutOK
  <2>5. QED
    BY <1>1, <2>1, <2>2, <2>3, <2>4 DEF o
<1>3. CASE t[o] # Null
  <2> DEFINE e == t[o]
             newest == IF e.valid THEN Max({e.seq, m.originSeq}) ELSE m.originSeq
             f == [e EXCEPT !.seq = newest, !.valid = TRUE, !.next = src, !.hop = m.hop + 1]
  <2>1. ReverseRoute(t, m, src) = Update(t, o, f)
    BY <1>3 DEF ReverseRoute, Lookup
  <2>2. EntryOK(n, o, e, q)
    BY <1>1, <1>3 DEF TableOK
  <2>3. newest \in Nat /\ newest <= q[o]
    <3>1. e.seq \in Nat /\ (e.valid => e.seq <= q[o])
      BY <2>2 DEF EntryOK, Entry
    <3> HIDE DEF e
    <3>2. QED
      BY <1>1, <3>1, MaxOfTwo
  <2> HIDE DEF newest
  <2>4. EntryOK(n, o, f, q) /\ f.flag = e.flag /\ f.next = src /\ f.seq = newest
    <3> HIDE DEF e, o
    <3>1. QED
      BY <1>1, <2>2, <2>3, Constants DEF EntryOK, Entry
  <2>5. f.flag = "IN_SEARCH" => Searching(t, o)
    BY <1>3, <2>4 DEF Searching
  <2> HIDE DEF f, e, o
  <2>6. /\ TableOK(n, Update(t, o, f), q) /\ Quieter(t, Update(t, o, f))
        /\ EntryOK(n, o, Update(t, o, f)[o], q) /\ Update(t, o, f)[o].next = f.next
        /\ Update(t, o, f)[o].seq = f.seq
    BY <1>1, <1>3, <2>4, <2>5, UpdateOK
  <2>7. QED
    BY <2>1, <2>3, <2>4, <2>6 DEF o
<1>4. QED
  BY <1>2, <1>3

\* The entry for the vehicle that a request came from.
LEMMA NeighborRouteOK ==
  ASSUME NEW n \in Node, NEW q \in Numbers, NEW t, TableOK(n, t, q), NEW src \in Node \ {n},
         NEW m, RreqOK(src, m, q)
  PROVE  /\ TableOK(n, NeighborRoute(t, m, src), q)
         /\ Quieter(t, NeighborRoute(t, m, src))
         /\ \A x \in Node : x # src => NeighborRoute(t, m, src)[x] = t[x]
         /\ t[src] # Null => /\ EntryOK(n, src, NeighborRoute(t, m, src)[src], q)
                            /\ NeighborRoute(t, m, src)[src].next = src
                            /\ NeighborRoute(t, m, src)[src].seq = m.originSeq
         /\ t[src] = Null => NeighborRoute(t, m, src) = t
<1> DEFINE e == t[src]
           f == [Lookup(t, src) EXCEPT !.flag = "VALID", !.valid = FALSE, !.seq = m.originSeq,
                                       !.next = src, !.hop = 1]
<1>1. NeighborRoute(t, m, src) = Update(t, src, f)
  BY DEF NeighborRoute
<1>2. m.originSeq \in Nat
  BY DEF RreqOK, Requests
<1>3. t[src] # Null => EntryOK(n, src, f, q) /\ f.flag = "VALID" /\ f.next = src /\ f.seq = m.originSeq
  <2> SUFFICES ASSUME t[src] # Null
               PROVE  EntryOK(n, src, f, q) /\ f.flag = "VALID" /\ f.next = src /\ f.seq = m.originSeq
    OBVIOUS
  <2> DEFINE g == [e EXCEPT !.flag = "VALID", !.valid = FALSE, !.seq = m.originSeq,
                            !.next = src, !.hop = 1]
  <2>1. EntryOK(n, src, e, q) /\ f = g
    BY DEF TableOK, Lookup
  <2> HIDE DEF e, f
  <2>2. /\ g \in Entry /\ g.flag = "VALID" /\ ~g.valid /\ g.seq = m.originSeq
        /\ g.next = src /\ g.hop = 1 /\ g.pre = e.pre
    <3>1. e \in Entry
      BY <2>1 DEF EntryOK
    <3>2. QED
      BY <1>2, <3>1 DEF Entry
  <2> HIDE DEF g
  <2>3. EntryOK(n, src, g, q)
    BY <2>1, <2>2, Constants DEF EntryOK
  <2>4. QED
    BY <2>1, <2>2, <2>3
<1> HIDE DEF f
<1>4. QED
  <2>1. TableOK(n, Update(t, src, f), q) /\ Quieter(t, Update(t, src, f))
    BY <1>3, UpdateOK
  <2>2. \A x \in Node : x # src => Update(t, src, f)[x] = t[x]
    BY <1>3, UpdateOK
  <2>3. t[src] # Null => /\ EntryOK(n, src, Update(t, src, f)[src], q)
                         /\ Update(t, src, f)[src].next = f.next
                         /\ Update(t, src, f)[src].seq = f.seq
    BY <1>3, UpdateOK
  <2>4. t[src] = Null => Update(t, src, f) = t
    BY DEF Update
  <2>5. QED
    BY <1>1, <1>3, <2>1, <2>2, <2>3, <2>4

\* The table after the first half of RecvRequest has a way back to the requester.
LEMMA RequestedOK ==
  ASSUME NEW n \in Node, NEW q \in Numbers, TableOK(n, rt[n], q), NEW d, d.src \in Node \ {n},
         RreqOK(d.src, d.body, q)
  PROVE  /\ TableOK(n, Requested(n, d), q)
         /\ Quieter(rt[n], Requested(n, d))
         /\ EntryOK(n, d.body.origin, Requested(n, d)[d.body.origin], q)
         /\ Requested(n, d)[d.body.origin].next = d.src
         /\ Requested(n, d)[d.body.origin].seq <= q[d.body.origin]
<1> DEFINE src == d.src
           m == d.body
           o == m.origin
           t == UpdateRouteToNeighbor(rt[n], src)
           u == ReverseRoute(t, m, src)
           v == NeighborRoute(u, m, src)
<1>1. TableOK(n, t, q) /\ Quieter(rt[n], t)
  BY HeardOK
<1> HIDE DEF t
<1>2. src \in Node \ {n} /\ RreqOK(src, m, q) /\ o \in Node /\ m.originSeq <= q[o]
  BY DEF RreqOK, Requests
<1> HIDE DEF src, m
<1>3. /\ TableOK(n, u, q) /\ Quieter(t, u) /\ EntryOK(n, o, u[o], q) /\ u[o].next = src
      /\ u[o].seq <= q[o]
  BY <1>1, <1>2, ReverseOK
<1> HIDE DEF u
<1>4. /\ TableOK(n, v, q) /\ Quieter(u, v)
      /\ \A x \in Node : x # src => v[x] = u[x]
      /\ u[src] # Null => EntryOK(n, src, v[src], q) /\ v[src].next = src /\ v[src].seq = m.originSeq
      /\ u[src] = Null => v = u
  BY <1>2, <1>3, NeighborRouteOK
<1>5. Requested(n, d) = v
  BY DEF Requested, v, u, t, src, m
<1> HIDE DEF v, o
<1>6. EntryOK(n, o, v[o], q) /\ v[o].next = src /\ v[o].seq <= q[o]
  <2>1. CASE o = src
    BY <1>2, <1>3, <1>4, <2>1 DEF o
  <2>2. CASE o # src
    BY <1>2, <1>3, <1>4, <2>2
  <2>3. QED
    BY <2>1, <2>2
<1>7. Quieter(rt[n], v)
  BY <1>1, <1>3, <1>4 DEF Quieter
<1>8. QED
  BY <1>4, <1>5, <1>6, <1>7 DEF o, m, src

LEMMA InsertPrecursorOK ==
  ASSUME NEW n \in Node, NEW q, NEW t, TableOK(n, t, q), NEW d,
         NEW p \in (Node \ {n}) \cup {Null}
  PROVE  /\ TableOK(n, InsertPrecursor(t, d, p), q) /\ Quieter(t, InsertPrecursor(t, d, p))
<1>1. CASE d \notin Node \/ t[d] = Null
  BY <1>1 DEF InsertPrecursor, Quieter
<1>2. CASE d \in Node /\ t[d] # Null
  <2> DEFINE e == t[d]
             f == [e EXCEPT !.pre = @ \cup {p}]
  <2>1. EntryOK(n, d, e, q) /\ InsertPrecursor(t, d, p) = [t EXCEPT ![d] = f]
    BY <1>2 DEF TableOK, InsertPrecursor
  <2>2. EntryOK(n, d, f, q) /\ f.flag = e.flag
    <3> HIDE DEF e
    <3>1. QED
      BY <2>1, Constants DEF EntryOK, Entry
  <2>3. f.flag = "IN_SEARCH" => Searching(t, d)
    BY <1>2, <2>2 DEF Searching
  <2> HIDE DEF f
  <2>4. /\ TableOK(n, [t EXCEPT ![d] = f], q) /\ [t EXCEPT ![d] = f][d] = f
        /\ Quieter(t, [t EXCEPT ![d] = f])
    BY <1>2, <2>2, <2>3, PutOK
  <2>5. QED
    BY <2>1, <2>4
<1>3. QED
  BY <1>1, <1>2

LEMMA InvalidateOK ==
  ASSUME NEW n \in Node, NEW q, NEW t, TableOK(n, t, q), NEW U
  PROVE  /\ TableOK(n, InvalidateRoutesWithDst(t, U), q)
         /\ Quieter(t, InvalidateRoutesWithDst(t, U))
<1> DEFINE u == InvalidateRoutesWithDst(t, U)
<1>1. \A d \in Node : u[d] = IF d \in U /\ Valid(t, d) THEN [t[d] EXCEPT !.flag = "INVALID"] ELSE t[d]
  BY DEF InvalidateRoutesWithDst
<1>2. u = [d \in Node |-> u[d]]
  BY DEF InvalidateRoutesWithDst
<1> HIDE DEF u
<1>3. ASSUME NEW d \in Node, Valid(t, d)
      PROVE  LET e == [t[d] EXCEPT !.flag = "INVALID"] IN EntryOK(n, d, e, q) /\ e.flag = "INVALID"
  <2> DEFINE e == t[d]
  <2>1. EntryOK(n, d, e, q) /\ e.flag = "VALID"
    BY <1>3 DEF TableOK, Valid
  <2> HIDE DEF e
  <2>2. EntryOK(n, d, [e EXCEPT !.flag = "INVALID"], q) /\ [e EXCEPT !.flag = "INVALID"].flag = "INVALID"
    BY <2>1, Constants DEF EntryOK, Entry
  <2>3. QED
    BY <2>2 DEF e
<1>4. ASSUME NEW d \in Node
      PROVE  /\ u[d] \in Entry \cup {Null} /\ (u[d] # Null => EntryOK(n, d, u[d], q))
             /\ Searching(u, d) => Searching(t, d)
  <2>1. CASE d \in U /\ Valid(t, d)
    BY <1>1, <1>3, <2>1 DEF EntryOK, Searching
  <2>2. CASE ~(d \in U /\ Valid(t, d))
    BY <1>1, <2>2 DEF TableOK, Searching
  <2>3. QED
    BY <2>1, <2>2
<1>5. QED
  BY <1>2, <1>4 DEF TableOK, Quieter, u

\* The table with the route of a reply.
LEMMA RepliedOK ==
  ASSUME NEW n \in Node, NEW q \in Numbers, TableOK(n, rt[n], q), NEW d, d.src \in Node \ {n},
         RrepOK(d.src, d.body, q)
  PROVE  /\ TableOK(n, Replied(n, d), q)
         /\ Quieter(UpdateRouteToNeighbor(rt[n], d.src), Replied(n, d))
         /\ LET e == Route(d.src, d.body.hop + 1, d.body.dstSeq, TRUE)
            IN  EntryOK(n, d.body.dst, e, q) /\ e.flag = "VALID"
<1> DEFINE src == d.src
           m == d.body
           x == m.dst
           t == UpdateRouteToNeighbor(rt[n], src)
           e == Route(src, m.hop + 1, m.dstSeq, TRUE)
<1>1. TableOK(n, t, q)
  BY HeardOK
<1>2. Replied(n, d) = IF t[x] = Null THEN AddRoute(t, x, e)
                      ELSE IF Better(t[x], m) THEN Update(t, x, e) ELSE t
  BY DEF Replied
<1> HIDE DEF t
<1>3. x \in Node /\ EntryOK(n, x, e, q) /\ e.flag = "VALID"
  <2>1. /\ x \in Node /\ src \in Node \ {n} /\ m.hop \in Nat /\ m.dstSeq \in Nat /\ m.dstSeq <= q[x]
        /\ m.hop = 0 => src = x
    BY DEF RrepOK, Replies
  <2> HIDE DEF src, x
  <2>2. QED
    BY <2>1, Constants DEF EntryOK, Route, Entry
<1> HIDE DEF e, x
<1>4. CASE t[x] = Null
  <2>1. Replied(n, d) = [t EXCEPT ![x] = e]
    BY <1>2, <1>4 DEF AddRoute
  <2>2. /\ TableOK(n, [t EXCEPT ![x] = e], q) /\ [t EXCEPT ![x] = e][x] = e
        /\ Quieter(t, [t EXCEPT ![x] = e])
    BY <1>1, <1>3, PutOK
  <2>3. QED
    BY <1>3, <2>1, <2>2 DEF t, e, x
<1>5. CASE t[x] # Null
  <2>1. TableOK(n, Update(t, x, e), q) /\ Quieter(t, Update(t, x, e))
    BY <1>1, <1>3, <1>5, UpdateOK
  <2>2. Quieter(t, t)
    BY DEF Quieter
  <2>3. QED
    BY <1>1, <1>2, <1>3, <1>5, <2>1, <2>2 DEF t, e, x
<1>6. QED
  BY <1>4, <1>5

\* The entry of a destination that is searched for.
LEMMA SearchedOK ==
  ASSUME NEW n \in Node, NEW q \in Numbers, NEW t, TableOK(n, t, q), NEW dst \in Node \ {n}
  PROVE  LET e == Searched(t, dst)
         IN  EntryOK(n, dst, e, q) /\ e.flag = "IN_SEARCH" /\ e.hop <= NetDiameter
<1> DEFINE e == Lookup(t, dst)
           ttl == CASE t[dst] = Null -> TtlStart
                    [] t[dst] # Null /\ e.flag # "IN_SEARCH" -> Min({e.hop + TtlIncrement, NetDiameter})
                    [] t[dst] # Null /\ e.flag = "IN_SEARCH" ->
                         IF e.hop + TtlIncrement > TtlThreshold THEN NetDiameter ELSE e.hop + TtlIncrement
           f == [e EXCEPT !.flag = "IN_SEARCH", !.hop = ttl,
                          !.cnt = IF ttl = NetDiameter THEN @ + 1 ELSE @]
<1>1. Searched(t, dst) = f
  BY DEF Searched
<1>2. e \in Entry /\ e.next # n /\ n \notin e.pre /\ (e.valid => e.seq <= q[dst])
  BY Constants DEF Lookup, TableOK, EntryOK, Route, Entry
<1>3. t[dst] # Null => e.hop \in Nat \ {0}
  BY DEF Lookup, TableOK, EntryOK, Entry
<1>4. t[dst] = Null => ~e.valid
  BY DEF Lookup, Route
<1>5. ttl \in Nat \ {0} /\ ttl <= NetDiameter /\ (t[dst] # Null => ttl # 1)
  <2>1. CASE t[dst] = Null
    BY <2>1, Constants
  <2>2. CASE t[dst] # Null
    <3>1. e.hop + TtlIncrement \in Nat /\ e.hop + TtlIncrement > 1
      BY <1>3, <2>2, Constants
    <3> HIDE DEF e
    <3>2. ttl \in {e.hop + TtlIncrement, NetDiameter} /\ ttl <= NetDiameter
      <4>1. CASE e.flag = "IN_SEARCH"
        BY <2>2, <3>1, <4>1, Constants
      <4>2. CASE e.flag # "IN_SEARCH"
        <5>1. ttl = Min({e.hop + TtlIncrement, NetDiameter})
          BY <2>2, <4>2
        <5> HIDE DEF ttl
        <5>2. QED
          BY <3>1, <5>1, Constants, MaxOfTwo
      <4>3. QED
        BY <4>1, <4>2
    <3> HIDE DEF ttl
    <3>3. QED
      BY <2>2, <3>1, <3>2, Constants
  <2>3. QED
    BY <2>1, <2>2
<1> HIDE DEF e, ttl
<1>6. EntryOK(n, dst, f, q) /\ f.flag = "IN_SEARCH" /\ f.hop <= NetDiameter
  <2> DEFINE count == IF ttl = NetDiameter THEN e.cnt + 1 ELSE e.cnt
             g == [e EXCEPT !.flag = "IN_SEARCH", !.hop = ttl, !.cnt = count]
  <2>1. count \in Nat
    BY <1>2 DEF Entry
  <2>2. f = g
    BY <1>2 DEF Entry
  <2> HIDE DEF count, f
  <2>3. EntryOK(n, dst, g, q) /\ g.flag = "IN_SEARCH" /\ g.hop <= NetDiameter
    BY <1>2, <1>4, <1>5, <2>1, Constants DEF EntryOK, Entry
  <2>4. QED
    BY <2>2, <2>3
<1>7. QED
  BY <1>1, <1>6

\* What RecvReply notes of the vehicles that use a route.
LEMMA NotePrecursorsOK ==
  ASSUME NEW n \in Node, NEW q, NEW t, TableOK(n, t, q), NEW m, m.origin \in Node, m.dst \in Node,
         t[m.origin] # Null, t[m.origin].flag # "IN_SEARCH"
  PROVE  TableOK(n, NotePrecursors(t, m), q) /\ Quieter(t, NotePrecursors(t, m))
<1> DEFINE o == m.origin
           x == m.dst
           back == t[o]
           there == t[x]
           noted == InsertPrecursor(t, x, back.next)
           one == InsertPrecursor(noted, there.next, back.next)
           f == [back EXCEPT !.pre = @ \cup {there.next}]
           two == [one EXCEPT ![o] = f]
           three == InsertPrecursor(two, back.next, there.next)
<1>1. CASE ~Valid(t, x)
  BY <1>1 DEF NotePrecursors, Quieter
<1>2. CASE Valid(t, x)
  <2>1. NotePrecursors(t, m) = three
    BY <1>2 DEF NotePrecursors
  <2>2. EntryOK(n, o, back, q) /\ back.flag # "IN_SEARCH" /\ o \in Node /\ EntryOK(n, x, there, q)
        /\ there.flag = "VALID"
    BY <1>2 DEF TableOK, Valid
  <2> HIDE DEF back, there, o, x
  <2>3. back.next \in Node \ {n} /\ there.next \in Node \ {n}
    BY <2>2 DEF EntryOK, Entry
  <2>4. TableOK(n, noted, q) /\ Quieter(t, noted)
    BY <2>3, InsertPrecursorOK
  <2> HIDE DEF noted
  <2>5. TableOK(n, one, q) /\ Quieter(noted, one)
    BY <2>3, <2>4, InsertPrecursorOK
  <2> HIDE DEF one
  <2>6. EntryOK(n, o, f, q) /\ f.flag # "IN_SEARCH"
    BY <2>2, <2>3 DEF EntryOK, Entry
  <2> HIDE DEF f
  <2>7. /\ TableOK(n, [one EXCEPT ![o] = f], q) /\ [one EXCEPT ![o] = f][o] = f
        /\ Quieter(one, [one EXCEPT ![o] = f])
    BY <2>2, <2>5, <2>6, PutOK
  <2>8. TableOK(n, two, q) /\ Quieter(one, two)
    BY <2>7
  <2> HIDE DEF two
  <2>9. TableOK(n, three, q) /\ Quieter(two, three)
    BY <2>3, <2>8, InsertPrecursorOK
  <2> HIDE DEF three
  <2>10. QED
    BY <2>1, <2>4, <2>5, <2>8, <2>9 DEF Quieter
<1>3. QED
  BY <1>1, <1>2

\* Sequence numbers only grow, and what was right of them stays so.
LEMMA GrownOK ==
  ASSUME NEW q \in Numbers, NEW r \in Numbers, \A n \in Node : q[n] <= r[n]
  PROVE  /\ \A n \in Node : \A t : TableOK(n, t, q) => TableOK(n, t, r)
         /\ \A n \in Node : \A d : WaitingOK(n, d, q) => WaitingOK(n, d, r)
         /\ \A d : FlyingOK(d, q) => FlyingOK(d, r)
<1>1. ASSUME NEW n \in Node, NEW d \in Node, NEW e, EntryOK(n, d, e, q) PROVE EntryOK(n, d, e, r)
  BY <1>1 DEF EntryOK, Entry, Numbers
<1>2. ASSUME NEW src, NEW m, RreqOK(src, m, q) PROVE RreqOK(src, m, r)
  BY <1>2 DEF RreqOK, Requests, Numbers
<1>3. ASSUME NEW src, NEW m, RrepOK(src, m, q) PROVE RrepOK(src, m, r)
  BY <1>3 DEF RrepOK, Replies, Numbers
<1>4. ASSUME NEW src, NEW m, BodyOK(src, m, q) PROVE BodyOK(src, m, r)
  BY <1>2, <1>3, <1>4 DEF BodyOK
<1>5. QED
  BY <1>1, <1>4 DEF TableOK, WaitingOK, FlyingOK

-----------------------------------------------------------------------------
(* Sending *)

LEMMA ReachOK == ASSUME links \in Topologies, NEW n PROVE Reach(n) \subseteq Node
BY Constants DEF Reach

LEMMA BroadcastOK ==
  ASSUME links \in Topologies, NEW n \in Node, NEW body, NEW q, BodyOK(n, body, q)
  PROVE  \A d \in Broadcast(n, body) : FlyingOK(d, q)
<1> SUFFICES ASSUME NEW m \in Reach(n)
             PROVE  FlyingOK([Datagram(n, All, body) EXCEPT !.hop = m], q)
  BY DEF Broadcast
<1>1. [Datagram(n, All, body) EXCEPT !.hop = m] = [src |-> n, to |-> All, hop |-> m, body |-> body]
  BY DEF Datagram
<1>2. m \in Node
  BY ReachOK
<1>3. QED
  BY <1>1, <1>2 DEF FlyingOK, IsDatagram

LEMMA OnTheWayOK ==
  ASSUME links \in Topologies, NEW n \in Node, NEW d, NEW next, NEW q,
         IsDatagram(d), d.src \in Node, d.to \in Node, BodyOK(d.src, d.body, q)
  PROVE  \A f \in OnTheWay(n, d, next) : FlyingOK(f, q)
<1> SUFFICES ASSUME next \in Reach(n)
             PROVE  FlyingOK([d EXCEPT !.hop = next], q)
  BY DEF OnTheWay
<1>1. [d EXCEPT !.hop = next] = [src |-> d.src, to |-> d.to, hop |-> next, body |-> d.body]
  BY DEF IsDatagram
<1>2. next \in Node
  BY ReachOK
<1>3. QED
  BY <1>1, <1>2 DEF FlyingOK, IsDatagram

LEMMA DatagramOK ==
  ASSUME NEW n \in Node, NEW to \in Node \ {n}, NEW body, NEW q, BodyOK(n, body, q)
  PROVE  WaitingOK(n, Datagram(n, to, body), q)
BY DEF WaitingOK, IsDatagram, Datagram

LEMMA RouteOutputOK ==
  ASSUME IInv, NEW n \in Node, NEW t, NEW ds, \A d \in ds : WaitingOK(n, d, seqNo),
         NEW gone, NEW casts, \A d \in casts : FlyingOK(d, seqNo),
         RouteOutput(n, t, ds, gone, casts), UNCHANGED seqNo
  PROVE  AirOK' /\ LoopbackOK'
<1> DEFINE sent == UNION {OnTheWay(n, d, t[d.to].next) : d \in {e \in ds : Valid(t, e.to)}}
<1>1. \A f \in sent : FlyingOK(f, seqNo)
  <2> SUFFICES ASSUME NEW d \in ds, Valid(t, d.to), NEW f \in OnTheWay(n, d, t[d.to].next)
               PROVE  FlyingOK(f, seqNo)
    OBVIOUS
  <2>1. IsDatagram(d) /\ d.src \in Node /\ d.to \in Node /\ BodyOK(d.src, d.body, seqNo)
    BY DEF WaitingOK
  <2>2. links \in Topologies
    BY DEF IInv, Vehicles
  <2>3. QED
    BY <2>1, <2>2, OnTheWayOK
<1>2. air' = (air \ gone) \cup casts \cup sent
  BY DEF RouteOutput
<1>3. AirOK'
  <2> HIDE DEF sent
  <2>1. QED
    BY <1>1, <1>2 DEF AirOK, IInv
<1>4. loopback' = [loopback EXCEPT ![n] = @ \cup {d \in ds : ~Valid(t, d.to)}]
  BY DEF RouteOutput, LoopbackRoute
<1>5. loopback = [m \in Node |-> loopback[m]]
  BY DEF IInv, LoopbackOK
<1>6. LoopbackOK'
  <2>1. loopback' = [m \in Node |-> IF m = n THEN loopback[n] \cup {d \in ds : ~Valid(t, d.to)}
                                            ELSE loopback[m]]
    BY <1>4, <1>5
  <2>2. QED
    BY <2>1 DEF LoopbackOK, IInv
<1>7. QED
  BY <1>3, <1>6

\* A vehicle is no precursor in its own table.
LEMMA PrecursorsOK ==
  ASSUME NEW n \in Node, NEW q, NEW t, TableOK(n, t, q), NEW ds \in SUBSET Node
  PROVE  Precursors(t, ds) \subseteq (Node \ {n}) \cup {Null}
<1> SUFFICES ASSUME NEW d \in ds PROVE Lookup(t, d).pre \subseteq (Node \ {n}) \cup {Null}
  BY DEF Precursors
<1>1. CASE t[d] = Null
  BY <1>1 DEF Lookup, Route
<1>2. CASE t[d] # Null
  <2>1. EntryOK(n, d, t[d], q)
    BY <1>2 DEF TableOK
  <2>2. QED
    BY <1>2, <2>1 DEF Lookup, EntryOK, Entry
<1>3. QED
  BY <1>1, <1>2

\* SendRerrMessage keeps the limit, as what is counted is at most one message.
LEMMA SendRerrOK ==
  ASSUME IInv, NEW n \in Node, NEW t, NEW ds \in SUBSET Node, NEW precursors \in SUBSET ((Node \ {n}) \cup {Null}),
         NEW gone, SendRerrMessage(n, t, ds, precursors, gone), UNCHANGED seqNo
  PROVE  /\ AirOK' /\ LoopbackOK'
         /\ rerrCount' \in [Node -> 0 .. RerrRateLimit]
<1> DEFINE unicasts == RerrUnicasts(n, t, ds, precursors)
           casts == RerrCasts(n, t, ds, precursors)
<1>1. BodyOK(n, Rerr(ds), seqNo)
  BY DEF BodyOK, Rerr
<1>2. \A d \in unicasts : WaitingOK(n, d, seqNo)
  <2> SUFFICES ASSUME NEW p \in precursors \cap Node
               PROVE  WaitingOK(n, Datagram(n, p, Rerr(ds)), seqNo)
    BY DEF RerrUnicasts
  <2>1. p \in Node \ {n}
    BY Constants
  <2>2. QED
    BY <1>1, <2>1, DatagramOK
<1>3. \A d \in casts : FlyingOK(d, seqNo)
  BY <1>1, BroadcastOK DEF RerrCasts, IInv, Vehicles
<1>4. RouteOutput(n, t, unicasts, gone, casts)
  BY DEF SendRerrMessage
<1>5. AirOK' /\ LoopbackOK'
  <2> HIDE DEF unicasts, casts
  <2>1. QED
    BY <1>2, <1>3, <1>4, RouteOutputOK
<1>6. rerrCount' = [rerrCount EXCEPT ![n] = @ + Cardinality(unicasts)]
  BY DEF SendRerrMessage
<1>7. unicasts = {} \/ (rerrCount[n] < RerrRateLimit /\ \E d : unicasts = {d})
  <2>1. CASE ~(rerrCount[n] < RerrRateLimit /\ Cardinality(precursors) = 1)
    BY <2>1 DEF RerrUnicasts
  <2>2. CASE rerrCount[n] < RerrRateLimit /\ Cardinality(precursors) = 1
    <3>1. \E p : precursors \subseteq {p}
      <4>1. IsFiniteSet(precursors)
        <5>1. IsFiniteSet(Node \cup {Null})
          BY Constants, FS_AddElement
        <5>2. precursors \subseteq Node \cup {Null}
          OBVIOUS
        <5>3. QED
          BY <5>1, <5>2, FS_Subset
      <4>2. QED
        BY <2>2, <4>1, FS_Singleton
    <3>2. QED
      BY <2>2, <3>1 DEF RerrUnicasts
  <2>3. QED
    BY <2>1, <2>2
<1> HIDE DEF unicasts
<1>8. Cardinality(unicasts) = 0 \/ (rerrCount[n] < RerrRateLimit /\ Cardinality(unicasts) = 1)
  BY <1>7, FS_EmptySet, FS_Singleton
<1>9. rerrCount' \in [Node -> 0 .. RerrRateLimit]
  BY <1>6, <1>8, Constants DEF IInv, Vehicles
<1>10. QED
  BY <1>5, <1>9

-----------------------------------------------------------------------------
(* Requests *)

\* A request is sent or put off: there is a timer or a put-off request for its destination.
LEMMA SendRequestOK ==
  ASSUME IInv, NEW n \in Node, NEW dst \in Node \ {n}, NEW later \in [Node -> Nat], later[n] = 0,
         NEW running \in SUBSET (Node \ {n}),
         \A x \in Node : Awaited(n, x) => x = dst \/ x \in running \/ later[x] > 0,
         SendRequest(n, dst, later, running)
  PROVE  /\ Counters' /\ Tables' /\ AirOK' /\ bcast' \subseteq Node
         /\ \A m \in Node : seqNo[m] <= seqNo'[m]
         /\ \A m, x \in Node : Awaited(m, x) \/ (m = n /\ x = dst) => Awaited(m, x)'
         /\ \A m, x \in Node : Searching(rt[m], x)' => Searching(rt[m], x) \/ (m = n /\ x = dst)
<1> USE DEF Numbers
<1>1. /\ Counters /\ Tables /\ AirOK /\ links \in Topologies /\ bcast \subseteq Node
      /\ seqNo \in Numbers /\ requestId \in Numbers /\ rt \in [Node -> [Node -> Entry \cup {Null}]]
      /\ rreqCount \in [Node -> 0 .. RreqRateLimit]
      /\ timer \in [Node -> SUBSET Node] /\ delayed \in [Node -> [Node -> Nat]]
      /\ \A m \in Node : m \notin timer[m] /\ delayed[m][m] = 0
  BY DEF IInv, Vehicles, Counters, Tables
<1>2. CASE rreqCount[n] = RreqRateLimit
  <2> DEFINE calls == [later EXCEPT ![dst] = @ + 1]
  <2>1. /\ delayed' = [delayed EXCEPT ![n] = calls]
        /\ timer' = [timer EXCEPT ![n] = running]
        /\ UNCHANGED <<rt, seqNo, requestId, rreqCount, air, bcast>>
    BY <1>2 DEF SendRequest
  <2>2. calls \in [Node -> Nat] /\ calls[n] = 0 /\ calls[dst] > 0
        /\ \A x \in Node : later[x] > 0 => calls[x] > 0
    OBVIOUS
  <2> HIDE DEF calls
  <2>3. Counters'
    BY <1>1, <2>1, <2>2 DEF Counters
  <2>4. Tables' /\ AirOK' /\ bcast' \subseteq Node /\ \A m \in Node : seqNo[m] <= seqNo'[m]
    BY <1>1, <2>1 DEF Tables, AirOK
  <2>5. \A m, x \in Node : Awaited(m, x) \/ (m = n /\ x = dst) => Awaited(m, x)'
    BY <1>1, <2>1, <2>2 DEF Awaited
  <2>6. \A m, x \in Node : Searching(rt[m], x)' => Searching(rt[m], x)
    BY <2>1 DEF Searching
  <2>7. QED
    BY <2>3, <2>4, <2>5, <2>6
<1>3. CASE rreqCount[n] # RreqRateLimit
  <2> DEFINE e == Searched(rt[n], dst)
             body == Rreq(n, requestId[n] + 1, seqNo[n] + 1, dst, ~e.valid,
                          IF e.valid THEN e.seq ELSE 0, 0, e.hop)
             u == [rt[n] EXCEPT ![dst] = e]
  <2>1. /\ delayed' = [delayed EXCEPT ![n] = later]
        /\ timer' = [timer EXCEPT ![n] = running \cup {dst}]
        /\ rreqCount' = [rreqCount EXCEPT ![n] = @ + 1]
        /\ seqNo' = [seqNo EXCEPT ![n] = @ + 1]
        /\ requestId' = [requestId EXCEPT ![n] = @ + 1]
        /\ bcast' = bcast \cup ({n} \cap up)
        /\ rt' = [rt EXCEPT ![n][dst] = e]
        /\ air' = air \cup Broadcast(n, body)
    BY <1>3 DEF SendRequest, ScheduleRreqRetry
  <2>2. TableOK(n, rt[n], seqNo)
    BY <1>1 DEF Tables
  <2>3. EntryOK(n, dst, e, seqNo) /\ e.flag = "IN_SEARCH" /\ e.hop <= NetDiameter
    BY <1>1, <2>2, SearchedOK
  <2>4. rt' = [rt EXCEPT ![n] = u]
    BY <1>1, <2>1
  <2> HIDE DEF e
  <2>5. seqNo' \in Numbers /\ \A m \in Node : seqNo[m] <= seqNo'[m]
    BY <1>1, <2>1
  <2>6. Counters'
    <3>1. rreqCount' \in [Node -> 0 .. RreqRateLimit] /\ requestId' \in [Node -> Nat]
      <4>1. rreqCount[n] + 1 \in 0 .. RreqRateLimit
        <5>1. rreqCount[n] \in 0 .. RreqRateLimit
          BY <1>1
        <5>2. RreqRateLimit \in Nat
          BY Constants
        <5>3. QED
          BY <1>3, <5>1, <5>2
      <4>2. requestId[n] + 1 \in Nat
        BY <1>1
      <4>3. QED
        BY <1>1, <2>1, <4>1, <4>2
    <3>2. timer' \in [Node -> SUBSET Node] /\ delayed' \in [Node -> [Node -> Nat]]
      BY <1>1, <2>1
    <3>3. \A m \in Node : m \notin timer'[m] /\ delayed'[m][m] = 0
      BY <1>1, <2>1
    <3>4. QED
      BY <2>5, <3>1, <3>2, <3>3 DEF Counters
  <2>7. TableOK(n, u, seqNo)
    <3>1. TableOK(n, [rt[n] EXCEPT ![dst] = e], seqNo) /\ [rt[n] EXCEPT ![dst] = e][dst] = e
      BY <2>2, <2>3, PutOK
    <3>2. QED
      BY <3>1
  <2>8. \A x \in Node : x # dst => u[x] = rt[n][x]
    BY <1>1
  <2> HIDE DEF u
  <2>9. \A m \in Node : TableOK(m, rt'[m], seqNo)
    BY <1>1, <2>4, <2>7 DEF Tables
  <2>10. Tables'
    <3>1. \A m \in Node : TableOK(m, rt'[m], seqNo')
      BY <1>1, <2>5, <2>9, GrownOK
    <3>2. rt' \in [Node -> [Node -> Entry \cup {Null}]]
      BY <1>1, <2>4, <2>7 DEF TableOK
    <3>3. QED
      BY <3>1, <3>2 DEF Tables
  <2>11. BodyOK(n, body, seqNo')
    <3>1. e.valid \in BOOLEAN /\ e.seq \in Nat /\ e.hop \in Nat \ {0} /\ (e.valid => e.seq <= seqNo[dst])
      BY <2>3 DEF EntryOK, Entry
    <3>2. /\ requestId[n] + 1 \in Nat /\ seqNo[n] + 1 \in Nat /\ seqNo'[n] = seqNo[n] + 1
          /\ seqNo'[dst] = seqNo[dst]
      BY <1>1, <2>1
    <3> DEFINE known == IF e.valid THEN e.seq ELSE 0
    <3>3. known \in Nat /\ (e.valid => known <= seqNo'[dst])
      BY <3>1, <3>2
    <3> HIDE DEF known
    <3>4. /\ body = [type |-> "RREQ", origin |-> n, id |-> requestId[n] + 1, originSeq |-> seqNo[n] + 1,
                     dst |-> dst, unknown |-> ~e.valid, dstSeq |-> known, hop |-> 0, ttl |-> e.hop]
      BY DEF Rreq, known
    <3> HIDE DEF body
    <3>5. body \in Requests
      BY <3>1, <3>2, <3>3, <3>4 DEF Requests
    <3>6. RreqOK(n, body, seqNo')
      <4>1. /\ body.origin = n /\ body.dst = dst /\ body.hop = 0 /\ body.ttl = e.hop
            /\ body.originSeq = seqNo[n] + 1 /\ body.unknown = ~e.valid /\ body.dstSeq = known
        BY <3>4
      <4>2. seqNo'[n] = seqNo[n] + 1 /\ seqNo[n] + 1 \in Nat
        BY <3>2
      <4>3. body.originSeq <= seqNo'[body.origin] /\ body.hop + body.ttl <= NetDiameter /\ body.ttl # 0
        BY <2>3, <3>1, <4>1, <4>2, Constants
      <4>4. ~body.unknown => body.dstSeq <= seqNo'[body.dst]
        BY <3>3, <4>1
      <4>5. QED
        BY <3>5, <4>1, <4>3, <4>4 DEF RreqOK
    <3>7. QED
      BY <3>6 DEF BodyOK
  <2> HIDE DEF body
  <2>12. AirOK'
    <3>1. \A d \in Broadcast(n, body) : FlyingOK(d, seqNo')
      BY <1>1, <2>11, BroadcastOK
    <3>2. \A d \in air : FlyingOK(d, seqNo')
      BY <1>1, <2>5, GrownOK DEF AirOK
    <3>3. QED
      BY <2>1, <3>1, <3>2 DEF AirOK
  <2>13. \A m, x \in Node : Awaited(m, x) \/ (m = n /\ x = dst) => Awaited(m, x)'
    BY <1>1, <2>1 DEF Awaited
  <2>14. \A m, x \in Node : Searching(rt[m], x)' => Searching(rt[m], x) \/ (m = n /\ x = dst)
    BY <1>1, <2>4, <2>8 DEF Searching
  <2>15. bcast' \subseteq Node
    BY <1>1, <2>1
  <2>16. QED
    BY <2>5, <2>6, <2>10, <2>12, <2>13, <2>14, <2>15
<1>4. QED
  BY <1>2, <1>3

-----------------------------------------------------------------------------
(* Steps *)

\* A step of n that changes its table and none of the search for routes.
LEMMA TableStep ==
  ASSUME IInv, NEW n \in Node, NEW u, TableOK(n, u, seqNo), Quieter(rt[n], u),
         rt' = [rt EXCEPT ![n] = u], UNCHANGED <<seqNo, timer, delayed, queue>>
  PROVE  Tables' /\ Searches' /\ QueueOK'
<1>1. rt \in [Node -> [Node -> Entry \cup {Null}]] /\ \A m \in Node : TableOK(m, rt[m], seqNo)
  BY DEF IInv, Tables
<1>2. \A m \in Node : rt'[m] = IF m = n THEN u ELSE rt[m]
  BY <1>1
<1>3. Tables'
  BY <1>1, <1>2 DEF Tables, TableOK
<1>4. \A m, x \in Node : Searching(rt[m], x)' => Searching(rt[m], x)
  BY <1>2 DEF Quieter, Searching
<1>5. Searches'
  BY <1>4 DEF IInv, Searches, Awaited
<1>6. QED
  BY <1>3, <1>5 DEF IInv, QueueOK

LEMMA HandlerStep ==
  ASSUME IInv, NEW n \in Node, NEW u, TableOK(n, u, seqNo), Quieter(rt[n], u),
         rt' = [rt EXCEPT ![n] = u],
         UNCHANGED <<links, up, htimer, search, queue>>,
         AirOK', LoopbackOK', nb' \in [Node -> SUBSET (Node \cup {Null})],
         rerrCount' \in [Node -> 0 .. RerrRateLimit], bcast' \subseteq Node
  PROVE  IInv'
<1>1. Tables' /\ Searches' /\ QueueOK'
  BY TableStep DEF search
<1>2. Vehicles' /\ Counters'
  BY DEF IInv, Vehicles, Counters, search
<1>3. QED
  BY <1>1, <1>2 DEF IInv

\* A step that leaves all tables as they are.
LEMMA TablesLeft ==
  ASSUME IInv, NEW n \in Node, UNCHANGED rt
  PROVE  TableOK(n, rt[n], seqNo) /\ Quieter(rt[n], rt[n]) /\ rt' = [rt EXCEPT ![n] = rt[n]]
BY DEF IInv, Tables, Quieter

LEMMA NextHopOK ==
  ASSUME IInv, NEW n \in Node, NEW d
  PROVE  /\ d \in Node /\ Valid(rt[n], d) => rt[n][d].next \in Node \ {n}
         /\ d \in Node => Lookup(rt[n], d).next \in Node \cup {Null}
<1>1. \A x \in Node : rt[n][x] # Null => EntryOK(n, x, rt[n][x], seqNo)
  BY DEF IInv, Tables, TableOK
<1>2. QED
  BY <1>1 DEF Valid, Lookup, Route, EntryOK, Entry

LEMMA NeighborsOK ==
  ASSUME IInv, NEW n \in Node, NEW d, d.src \in Node
  PROVE  Neighbors(n, d) \subseteq Node \cup {Null}
BY NextHopOK DEF Neighbors, NbUpdate, IInv, Vehicles

\* What comes in.
LEMMA Incoming ==
  ASSUME IInv, NEW n, NEW d, Arrives(n, d)
  PROVE  /\ n \in Node /\ d \in air /\ d.src \in Node /\ IsDatagram(d)
         /\ d.to \in Node \cup {All} /\ BodyOK(d.src, d.body, seqNo)
         /\ Local(n, d) => d.src \in Node \ {n}
         /\ TableOK(n, rt[n], seqNo) /\ seqNo \in Numbers
         /\ nb \in [Node -> SUBSET (Node \cup {Null})]
         /\ rerrCount \in [Node -> 0 .. RerrRateLimit]
         /\ bcast \subseteq Node /\ links \in Topologies
         /\ (AirOK /\ LoopbackOK)
BY DEF IInv, AirOK, FlyingOK, Arrives, Local, IsMyOwnAddress, Tables, Counters, Numbers, Vehicles

LEMMA BodyIs ==
  ASSUME NEW src, NEW m, NEW q, BodyOK(src, m, q), m \notin Packet
  PROVE  /\ m.type = "RREQ" => RreqOK(src, m, q)
         /\ m.type = "RREP" => RrepOK(src, m, q)
         /\ m.type = "RERR" => m.dsts \subseteq Node
BY DEF BodyOK, RreqOK, Requests, RrepOK, Replies, RrepAck

LEMMA SendDataInv ==
  ASSUME IInv, NEW p \in Packet, SendData(p)
  PROVE  IInv'
<1> DEFINE n == Src[p]
           d == Datagram(n, Dst[p], p)
<1>1. n \in Node /\ Dst[p] \in Node \ {n}
  BY Constants
<1>2. WaitingOK(n, d, seqNo)
  BY <1>1, DatagramOK DEF BodyOK
<1>3. UNCHANGED <<nodeVars, search, rt, queue, rerrCount>>
  BY DEF SendData
<1>4. AirOK' /\ LoopbackOK'
  <2>1. CASE n \in up
    <3>1. RouteOutput(n, rt[n], {d}, {}, {})
      BY <2>1 DEF SendData
    <3> HIDE DEF d
    <3>2. QED
      BY <1>1, <1>2, <1>3, <3>1, RouteOutputOK DEF search
  <2>2. CASE n \notin up
    BY <1>3, <2>2 DEF SendData, search, IInv, AirOK, LoopbackOK
  <2>3. QED
    BY <2>1, <2>2
<1> HIDE DEF n, d
<1>5. TableOK(n, rt[n], seqNo) /\ Quieter(rt[n], rt[n]) /\ rt' = [rt EXCEPT ![n] = rt[n]]
  BY <1>1, <1>3, TablesLeft
<1>6. QED
  BY <1>1, <1>3, <1>4, <1>5, HandlerStep DEF nodeVars, IInv, Vehicles

LEMMA DeferredInv ==
  ASSUME IInv, NEW n \in Node, NEW d, DeferredRouteOutput(n, d)
  PROVE  IInv'
<1>1. d \in loopback[n] /\ WaitingOK(n, d, seqNo) /\ d.to \in Node \ {n}
  BY DEF DeferredRouteOutput, IInv, LoopbackOK, WaitingOK
<1>2. /\ loopback' = [loopback EXCEPT ![n] = @ \ {d}]
      /\ queue' = [queue EXCEPT ![n] = IF n \in up THEN @ \cup {d} ELSE @]
      /\ UNCHANGED <<links, up, nb, htimer, rerrCount>>
  BY DEF DeferredRouteOutput
<1> DEFINE dst == d.to
<1>3. /\ Counters' /\ Tables' /\ AirOK' /\ bcast' \subseteq Node
      /\ seqNo' \in Numbers /\ \A m \in Node : seqNo[m] <= seqNo'[m]
      /\ \A m, x \in Node : Awaited(m, x) => Awaited(m, x)'
      /\ n \in up => Awaited(n, dst)'
      /\ \A m, x \in Node : Searching(rt[m], x)' => Searching(rt[m], x) \/ (m = n /\ x = dst /\ n \in up)
  <2>1. CASE n \in up /\ (rt[n][dst] = Null \/ rt[n][dst].flag # "IN_SEARCH")
    <3>1. SendRequest(n, dst, delayed[n], timer[n])
      BY <2>1 DEF DeferredRouteOutput
    <3>2. /\ delayed[n] \in [Node -> Nat] /\ delayed[n][n] = 0 /\ timer[n] \in SUBSET (Node \ {n})
          /\ \A x \in Node : Awaited(n, x) => x = dst \/ x \in timer[n] \/ delayed[n][x] > 0
      BY DEF IInv, Counters, Awaited
    <3> HIDE DEF dst
    <3>3. dst \in Node \ {n}
      BY <1>1 DEF dst
    <3>4. /\ Counters' /\ Tables' /\ AirOK' /\ bcast' \subseteq Node
          /\ \A m \in Node : seqNo[m] <= seqNo'[m]
          /\ \A m, x \in Node : Awaited(m, x) \/ (m = n /\ x = dst) => Awaited(m, x)'
          /\ \A m, x \in Node : Searching(rt[m], x)' => Searching(rt[m], x) \/ (m = n /\ x = dst)
      BY <3>1, <3>2, <3>3, SendRequestOK
    <3>5. QED
      BY <2>1, <3>3, <3>4 DEF Counters, Numbers
  <2>2. CASE ~(n \in up /\ (rt[n][dst] = Null \/ rt[n][dst].flag # "IN_SEARCH"))
    <3>1. UNCHANGED <<search, rt, seen, air, bcast>>
      BY <2>2 DEF DeferredRouteOutput
    <3>2. n \in up => Searching(rt[n], dst)
      BY <2>2 DEF Searching
    <3>3. n \in up => Awaited(n, dst)
      BY <1>1, <3>2 DEF IInv, Searches
    <3>4. \A m, x \in Node : Awaited(m, x) => Awaited(m, x)'
      BY <3>1 DEF search, Awaited
    <3>5. Counters' /\ Tables' /\ AirOK' /\ bcast' \subseteq Node
      BY <3>1 DEF IInv, Counters, Tables, AirOK, search, Vehicles
    <3>6. seqNo' \in Numbers /\ \A m \in Node : seqNo[m] <= seqNo'[m]
      BY <3>1 DEF IInv, Counters, Numbers, search
    <3>7. \A m, x \in Node : Searching(rt[m], x)' => Searching(rt[m], x)
      BY <3>1 DEF Searching
    <3>8. QED
      BY <1>1, <3>3, <3>4, <3>5, <3>6, <3>7
  <2>3. QED
    BY <2>1, <2>2
<1> HIDE DEF dst
<1>4. \A m \in Node : \A e : WaitingOK(m, e, seqNo) => WaitingOK(m, e, seqNo')
  BY <1>3, GrownOK DEF IInv, Counters, Numbers
<1>5. LoopbackOK'
  BY <1>2, <1>4 DEF IInv, LoopbackOK
<1>6. QueueOK'
  <2>1. queue = [m \in Node |-> queue[m]] /\ \A m \in Node : \A e \in queue[m] : WaitingOK(m, e, seqNo)
    BY DEF IInv, QueueOK
  <2>2. queue' = [m \in Node |-> IF m = n /\ n \in up THEN queue[n] \cup {d} ELSE queue[m]]
    BY <1>2, <2>1
  <2>3. QED
    BY <1>1, <1>4, <2>1, <2>2 DEF QueueOK
<1>7. Searches'
  <2>1. \A m \in Node : \A e \in queue'[m] : e \in queue[m] \/ (m = n /\ e = d /\ n \in up)
    BY <1>2 DEF IInv, QueueOK
  <2>2. \A m \in Node : \A e \in queue[m] : e.to \in Node /\ Awaited(m, e.to)
    BY DEF IInv, QueueOK, Searches, WaitingOK
  <2>3. \A m \in Node : \A e \in queue'[m] : Awaited(m, e.to)'
    BY <1>3, <2>1, <2>2 DEF dst
  <2>4. \A m, x \in Node : Searching(rt[m], x)' => Awaited(m, x)'
    BY <1>3 DEF IInv, Searches
  <2>5. QED
    BY <2>3, <2>4 DEF Searches
<1>8. Vehicles'
  BY <1>2, <1>3 DEF IInv, Vehicles
<1>9. QED
  BY <1>3, <1>5, <1>6, <1>7, <1>8 DEF IInv

\* A request from a timer.
LEMMA RequestStep ==
  ASSUME IInv, NEW n \in Node, NEW dst \in Node \ {n}, NEW later \in [Node -> Nat], later[n] = 0,
         NEW running \in SUBSET (Node \ {n}),
         \A x \in Node : Awaited(n, x) => x = dst \/ x \in running \/ later[x] > 0,
         SendRequest(n, dst, later, running),
         UNCHANGED <<links, up, nb, htimer, loopback, queue, rerrCount>>
  PROVE  IInv'
<1>1. /\ Counters' /\ Tables' /\ AirOK' /\ bcast' \subseteq Node
      /\ \A m \in Node : seqNo[m] <= seqNo'[m]
      /\ \A m, x \in Node : Awaited(m, x) \/ (m = n /\ x = dst) => Awaited(m, x)'
      /\ \A m, x \in Node : Searching(rt[m], x)' => Searching(rt[m], x) \/ (m = n /\ x = dst)
  BY SendRequestOK
<1>2. seqNo \in Numbers /\ seqNo' \in Numbers
  BY <1>1 DEF IInv, Counters, Numbers
<1>3. \A m \in Node : \A e : WaitingOK(m, e, seqNo) => WaitingOK(m, e, seqNo')
  BY <1>1, <1>2, GrownOK
<1>4. LoopbackOK' /\ QueueOK'
  BY <1>3 DEF IInv, LoopbackOK, QueueOK
<1>5. Searches'
  <2>1. \A m \in Node : \A e \in queue[m] : e.to \in Node /\ Awaited(m, e.to)
    BY DEF IInv, QueueOK, Searches, WaitingOK
  <2>2. \A m, x \in Node : Searching(rt[m], x)' => Awaited(m, x)'
    BY <1>1 DEF IInv, Searches
  <2>3. QED
    BY <1>1, <2>1, <2>2 DEF Searches
<1>6. Vehicles'
  BY <1>1 DEF IInv, Vehicles
<1>7. QED
  BY <1>1, <1>4, <1>5, <1>6 DEF IInv

LEMMA RunDelayedInv ==
  ASSUME IInv, NEW n \in Node, NEW dst \in Node, RunDelayed(n, dst)
  PROVE  IInv'
<1> DEFINE later == [delayed[n] EXCEPT ![dst] = @ - 1]
<1>1. /\ delayed[n] \in [Node -> Nat] /\ delayed[n][n] = 0 /\ timer[n] \in SUBSET (Node \ {n})
  BY DEF IInv, Counters
<1>2. delayed[n][dst] > 0 /\ SendRequest(n, dst, later, timer[n])
      /\ UNCHANGED <<links, up, nb, htimer, loopback, queue, rerrCount>>
  BY DEF RunDelayed
<1>3. dst \in Node \ {n} /\ later \in [Node -> Nat] /\ later[n] = 0
      /\ \A x \in Node : x # dst => later[x] = delayed[n][x]
  BY <1>1, <1>2
<1> HIDE DEF later
<1>4. \A x \in Node : Awaited(n, x) => x = dst \/ x \in timer[n] \/ later[x] > 0
  BY <1>3 DEF Awaited
<1>5. QED
  BY <1>1, <1>2, <1>3, <1>4, RequestStep

LEMMA SearchAgainInv ==
  ASSUME IInv, NEW n \in Node, NEW dst \in Node, SearchAgain(n, dst)
  PROVE  IInv'
<1>1. /\ delayed[n] \in [Node -> Nat] /\ delayed[n][n] = 0 /\ timer[n] \ {dst} \in SUBSET (Node \ {n})
      /\ n \notin timer[n]
  BY DEF IInv, Counters
<1>2. dst \in timer[n] /\ SendRequest(n, dst, delayed[n], timer[n] \ {dst})
      /\ UNCHANGED <<links, up, nb, htimer, loopback, queue, rerrCount>>
  BY DEF SearchAgain
<1>3. \A x \in Node : Awaited(n, x) => x = dst \/ x \in timer[n] \ {dst} \/ delayed[n][x] > 0
  BY DEF Awaited
<1>4. QED
  BY <1>1, <1>2, <1>3, RequestStep

\* The packets that wait for a destination leave the queue, and its timer stops.
LEMMA Emptied ==
  ASSUME IInv, NEW n \in Node, NEW dst \in Node,
         queue' = [queue EXCEPT ![n] = @ \ Waiting(n, dst)],
         timer' = [timer EXCEPT ![n] = @ \ {dst}] \/ UNCHANGED timer, UNCHANGED <<seqNo, delayed>>
  PROVE  /\ QueueOK' /\ timer' \in [Node -> SUBSET Node] /\ \A m \in Node : m \notin timer'[m]
         /\ \A m, x \in Node : Awaited(m, x) /\ ~(m = n /\ x = dst) => Awaited(m, x)'
         /\ \A m \in Node : \A d \in queue'[m] : Awaited(m, d.to)'
<1>1. queue = [m \in Node |-> queue[m]] /\ \A m \in Node : \A e \in queue[m] : WaitingOK(m, e, seqNo)
  BY DEF IInv, QueueOK
<1>2. queue' = [m \in Node |-> IF m = n THEN queue[n] \ Waiting(n, dst) ELSE queue[m]]
  BY <1>1
<1>3. QueueOK'
  BY <1>1, <1>2 DEF QueueOK
<1>4. timer' \in [Node -> SUBSET Node] /\ \A m \in Node : m \notin timer'[m]
  BY DEF IInv, Counters
<1>5. \A m, x \in Node : Awaited(m, x) /\ ~(m = n /\ x = dst) => Awaited(m, x)'
  BY DEF Awaited, IInv, Counters
<1>6. ASSUME NEW m \in Node, NEW d \in queue'[m] PROVE Awaited(m, d.to)'
  <2>1. d \in queue[m] /\ ~(m = n /\ d.to = dst)
    BY <1>2 DEF Waiting
  <2>2. d.to \in Node /\ Awaited(m, d.to)
    BY <1>1, <2>1 DEF IInv, Searches, WaitingOK
  <2>3. QED
    BY <1>5, <2>1, <2>2
<1>7. QED
  BY <1>3, <1>4, <1>5, <1>6

LEMMA SentFromQueueOK ==
  ASSUME IInv, NEW n \in Node, NEW dst, NEW next
  PROVE  \A f \in SendPacketFromQueue(n, dst, next) : FlyingOK(f, seqNo)
<1> SUFFICES ASSUME NEW d \in queue[n], NEW f \in OnTheWay(n, d, next) PROVE FlyingOK(f, seqNo)
  BY DEF SendPacketFromQueue, Waiting
<1>1. IsDatagram(d) /\ d.src \in Node /\ d.to \in Node /\ BodyOK(d.src, d.body, seqNo)
  BY DEF IInv, QueueOK, WaitingOK
<1>2. links \in Topologies
  BY DEF IInv, Vehicles
<1>3. QED
  BY <1>1, <1>2, OnTheWayOK

LEMMA SearchSucceededInv ==
  ASSUME IInv, NEW n \in Node, NEW dst \in Node, SearchSucceeded(n, dst)
  PROVE  IInv'
<1> DEFINE sent == SendPacketFromQueue(n, dst, rt[n][dst].next)
<1>1. /\ Valid(rt[n], dst) /\ timer' = [timer EXCEPT ![n] = @ \ {dst}]
      /\ queue' = [queue EXCEPT ![n] = @ \ Waiting(n, dst)] /\ air' = air \cup sent
      /\ UNCHANGED <<nodeVars, seqNo, requestId, delayed, rreqCount, rt, loopback, rerrCount>>
  BY DEF SearchSucceeded
<1>2. /\ QueueOK' /\ timer' \in [Node -> SUBSET Node] /\ \A m \in Node : m \notin timer'[m]
      /\ \A m, x \in Node : Awaited(m, x) /\ ~(m = n /\ x = dst) => Awaited(m, x)'
      /\ \A m \in Node : \A d \in queue'[m] : Awaited(m, d.to)'
  BY <1>1, Emptied
<1>3. AirOK'
  BY <1>1, SentFromQueueOK DEF AirOK, IInv
<1>4. Searches'
  <2>1. \A m, x \in Node : Searching(rt[m], x)' => Searching(rt[m], x) /\ ~(m = n /\ x = dst)
    BY <1>1 DEF Searching, Valid
  <2>2. QED
    BY <1>2, <2>1 DEF IInv, Searches
<1>5. Counters' /\ Tables' /\ LoopbackOK' /\ Vehicles'
  BY <1>1, <1>2 DEF IInv, Counters, Tables, LoopbackOK, Vehicles, nodeVars
<1>6. QED
  BY <1>2, <1>3, <1>4, <1>5 DEF IInv

LEMMA SearchFailedInv ==
  ASSUME IInv, NEW n \in Node, NEW dst \in Node, SearchFailed(n, dst)
  PROVE  IInv'
<1>1. /\ timer' = [timer EXCEPT ![n] = @ \ {dst}]
      /\ queue' = [queue EXCEPT ![n] = @ \ Waiting(n, dst)] /\ rt' = [rt EXCEPT ![n][dst] = Null]
      /\ UNCHANGED <<nodeVars, seqNo, requestId, delayed, rreqCount, air, loopback, rerrCount>>
  BY DEF SearchFailed
<1>2. /\ QueueOK' /\ timer' \in [Node -> SUBSET Node] /\ \A m \in Node : m \notin timer'[m]
      /\ \A m, x \in Node : Awaited(m, x) /\ ~(m = n /\ x = dst) => Awaited(m, x)'
      /\ \A m \in Node : \A d \in queue'[m] : Awaited(m, d.to)'
  BY <1>1, Emptied
<1>3. rt \in [Node -> [Node -> Entry \cup {Null}]]
  BY DEF IInv, Tables
<1>4. /\ rt' \in [Node -> [Node -> Entry \cup {Null}]]
      /\ \A m, x \in Node : rt'[m][x] = IF m = n /\ x = dst THEN Null ELSE rt[m][x]
  BY <1>1, <1>3
<1>5. Tables'
  BY <1>1, <1>4 DEF IInv, Tables, TableOK
<1>6. Searches'
  <2>1. \A m, x \in Node : Searching(rt[m], x)' => Searching(rt[m], x) /\ ~(m = n /\ x = dst)
    BY <1>4 DEF Searching
  <2>2. QED
    BY <1>2, <2>1 DEF IInv, Searches
<1>7. Counters' /\ AirOK' /\ LoopbackOK' /\ Vehicles'
  BY <1>1, <1>2 DEF IInv, Counters, AirOK, LoopbackOK, Vehicles, nodeVars
<1>8. QED
  BY <1>2, <1>5, <1>6, <1>7 DEF IInv

LEMMA ExpireInv ==
  ASSUME IInv, NEW n \in Node, NEW d \in Node, Expire(n, d)
  PROVE  IInv'
<1> DEFINE e == rt[n][d]
           f == IF e.flag = "VALID" THEN [e EXCEPT !.flag = "INVALID"] ELSE Null
           u == [rt[n] EXCEPT ![d] = f]
<1>1. e # Null /\ e.flag # "IN_SEARCH" /\ rt' = [rt EXCEPT ![n][d] = f]
      /\ UNCHANGED <<nodeVars, search, loopback, queue, rerrCount, air>>
  BY DEF Expire
<1>2. rt \in [Node -> [Node -> Entry \cup {Null}]] /\ TableOK(n, rt[n], seqNo)
  BY DEF IInv, Tables
<1>3. rt' = [rt EXCEPT ![n] = u]
  BY <1>1, <1>2
<1>4. EntryOK(n, d, e, seqNo)
  BY <1>1, <1>2 DEF TableOK
<1> HIDE DEF e
<1>5. f = Null \/ (EntryOK(n, d, f, seqNo) /\ f.flag = "INVALID")
  BY <1>4, Constants DEF EntryOK, Entry
<1> HIDE DEF f
<1>6. TableOK(n, u, seqNo) /\ Quieter(rt[n], u)
  <2>1. \A x \in Node : u[x] = IF x = d THEN f ELSE rt[n][x]
    BY <1>2
  <2>2. u \in [Node -> Entry \cup {Null}]
    BY <1>2, <1>5 DEF EntryOK
  <2> HIDE DEF u
  <2>3. QED
    BY <1>2, <1>5, <2>1, <2>2 DEF TableOK, Quieter, Searching
<1> HIDE DEF u
<1>7. QED
  BY <1>1, <1>3, <1>6, HandlerStep DEF nodeVars, search, IInv, Vehicles, AirOK, LoopbackOK

LEMMA RateLimitInv ==
  ASSUME IInv, NEW n \in Node, RateLimitTimerExpire(n)
  PROVE  IInv'
<1>1. /\ rreqCount' = [rreqCount EXCEPT ![n] = 0] /\ rerrCount' = [rerrCount EXCEPT ![n] = 0]
      /\ UNCHANGED <<nodeVars, seqNo, requestId, timer, delayed, rt, loopback, queue, air>>
  BY DEF RateLimitTimerExpire
<1>2. rreqCount' \in [Node -> 0 .. RreqRateLimit] /\ rerrCount' \in [Node -> 0 .. RerrRateLimit]
  BY <1>1, Constants DEF IInv, Counters, Vehicles
<1>3. QED
  BY <1>1, <1>2 DEF IInv, Vehicles, Counters, Tables, AirOK, LoopbackOK, QueueOK, Searches, Awaited, nodeVars

LEMMA HelloInv ==
  ASSUME IInv, NEW n \in Node, HelloTimerExpire(n)
  PROVE  IInv'
<1> DEFINE hello == Rrep(n, seqNo[n], n, 0, 1, FALSE)
<1>1. /\ bcast' = bcast \ {n} /\ air' \subseteq air \cup Broadcast(n, hello)
      /\ UNCHANGED <<links, up, nb, seen, htimer, search, rt, loopback, queue, rerrCount>>
  BY DEF HelloTimerExpire, SendHello
<1>2. RrepOK(n, hello, seqNo)
  <2>1. seqNo[n] \in Nat
    BY DEF IInv, Counters
  <2>2. QED
    BY <2>1 DEF RrepOK, Replies, Rrep
<1> HIDE DEF hello
<1>3. \A d \in Broadcast(n, hello) : FlyingOK(d, seqNo)
  BY <1>2, BroadcastOK DEF BodyOK, IInv, Vehicles
<1>4. AirOK'
  BY <1>1, <1>3 DEF search, AirOK, IInv
<1>5. TableOK(n, rt[n], seqNo) /\ Quieter(rt[n], rt[n]) /\ rt' = [rt EXCEPT ![n] = rt[n]]
  BY <1>1, TablesLeft
<1>6. LoopbackOK'
  BY <1>1 DEF IInv, LoopbackOK, search
<1>7. QED
  BY <1>1, <1>4, <1>5, <1>6, HandlerStep DEF IInv, Vehicles

LEMMA InterfaceDownInv ==
  ASSUME IInv, NEW n \in Node, InterfaceDown(n)
  PROVE  IInv'
<1> DEFINE u == [d \in Node |-> Null]
<1>1. /\ up' = up \ {n} /\ htimer' = htimer \ {n} /\ nb' = [nb EXCEPT ![n] = {}]
      /\ rt' = [rt EXCEPT ![n] = u]
      /\ UNCHANGED <<links, bcast, search, loopback, queue, rerrCount, air>>
  BY DEF InterfaceDown
<1>2. TableOK(n, u, seqNo) /\ Quieter(rt[n], u)
  BY DEF TableOK, Quieter, Searching
<1> HIDE DEF u
<1>3. Tables' /\ Searches' /\ QueueOK'
  BY <1>1, <1>2, TableStep DEF search
<1>4. Vehicles' /\ Counters' /\ AirOK' /\ LoopbackOK'
  BY <1>1 DEF IInv, Vehicles, Counters, AirOK, LoopbackOK, search
<1>5. QED
  BY <1>3, <1>4 DEF IInv

\* Interfaces that come up, vehicles that move and datagrams that are lost.
LEMMA TrafficInv ==
  ASSUME IInv, \/ \E n \in Node : InterfaceUp(n)
               \/ Move
               \/ \E d \in air : Lose(d)
  PROVE  IInv'
<1>1. /\ links' \in Topologies /\ up' \subseteq Node /\ up \subseteq up' /\ air' \subseteq air
      /\ UNCHANGED <<nb, seen, htimer, bcast, search, rt, loopback, queue, rerrCount>>
  BY DEF InterfaceUp, Move, Lose, nodeVars, IInv, Vehicles
<1>2. QED
  BY <1>1 DEF IInv, Vehicles, Counters, Tables, AirOK, LoopbackOK, QueueOK, Searches, Awaited, search

-----------------------------------------------------------------------------
(* Datagrams that arrive *)

LEMMA DataInv ==
  ASSUME IInv, NEW n, NEW d, ReceiveData(n, d) \/ Forward(n, d)
  PROVE  IInv'
<1>1. /\ Arrives(n, d) /\ UNCHANGED <<links, up, seen, htimer, bcast, search, rt, loopback, queue, rerrCount>>
  BY DEF ReceiveData, Forward
<1>2. /\ n \in Node /\ d.src \in Node /\ IsDatagram(d)
      /\ d.to \in Node \cup {All} /\ BodyOK(d.src, d.body, seqNo)
      /\ nb \in [Node -> SUBSET (Node \cup {Null})] /\ links \in Topologies
  BY <1>1, Incoming
<1>3. nb' \in [Node -> SUBSET (Node \cup {Null})] /\ AirOK'
  <2>1. CASE ReceiveData(n, d)
    <3>1. nb' = [nb EXCEPT ![n] = Neighbors(n, d)] /\ air' = air \ {d}
      BY <2>1 DEF ReceiveData
    <3>2. Neighbors(n, d) \subseteq Node \cup {Null}
      BY <1>2, NeighborsOK
    <3>3. QED
      BY <1>1, <1>2, <3>1, <3>2 DEF AirOK, IInv, search
  <2>2. CASE Forward(n, d)
    <3> DEFINE next == rt[n][d.to].next
               back == Lookup(rt[n], d.src).next
    <3>1. /\ nb' = [nb EXCEPT ![n] = NbUpdate(n, next) \cup NbUpdate(n, back)]
          /\ air' = (air \ {d}) \cup OnTheWay(n, d, next) /\ Valid(rt[n], d.to)
          /\ ~Local(n, d) /\ ~IsMyOwnAddress(n, d.src)
      BY <2>2 DEF Forward
    <3>2. d.to \in Node
      BY <1>2, <3>1 DEF Local
    <3>3. next \in Node /\ back \in Node \cup {Null}
      BY <1>2, <3>1, <3>2, NextHopOK
    <3> HIDE DEF next, back
    <3>4. nb' \in [Node -> SUBSET (Node \cup {Null})]
      BY <1>2, <3>1, <3>3 DEF NbUpdate
    <3>5. \A f \in OnTheWay(n, d, next) : FlyingOK(f, seqNo)
      BY <1>2, <3>2, OnTheWayOK
    <3>6. QED
      BY <1>1, <3>1, <3>4, <3>5 DEF AirOK, IInv, search
  <2>3. QED
    BY <2>1, <2>2
<1>4. TableOK(n, rt[n], seqNo) /\ Quieter(rt[n], rt[n]) /\ rt' = [rt EXCEPT ![n] = rt[n]]
  BY <1>1, <1>2, TablesLeft
<1>5. LoopbackOK'
  BY <1>1 DEF IInv, LoopbackOK, search
<1>6. QED
  BY <1>1, <1>2, <1>3, <1>4, <1>5, HandlerStep DEF IInv, Vehicles

LEMMA ForwardFailsInv ==
  ASSUME IInv, NEW n, NEW d, ForwardFails(n, d)
  PROVE  IInv'
<1> DEFINE rerr == Rerr({d.to})
           mute == rerrCount[n] = RerrRateLimit
           back == Valid(rt[n], d.src)
           ds == IF ~mute /\ back THEN {Datagram(n, rt[n][d.src].next, rerr)} ELSE {}
           casts == IF ~mute /\ ~back THEN Broadcast(n, rerr) ELSE {}
<1>1. /\ Arrives(n, d) /\ ~Local(n, d) /\ ~IsMyOwnAddress(n, d.src)
      /\ RouteOutput(n, rt[n], ds, {d}, casts)
      /\ UNCHANGED <<nodeVars, search, rt, queue, rerrCount>>
  BY DEF ForwardFails, SendRerrWhenNoRouteToForward
<1>2. n \in Node /\ d.src \in Node /\ d.to \in Node /\ links \in Topologies
  BY <1>1, Incoming DEF Local
<1>3. BodyOK(n, rerr, seqNo)
  BY <1>2 DEF BodyOK, Rerr
<1> HIDE DEF rerr
<1>4. \A e \in ds : WaitingOK(n, e, seqNo)
  <2> SUFFICES ASSUME back PROVE WaitingOK(n, Datagram(n, rt[n][d.src].next, rerr), seqNo)
    OBVIOUS
  <2>1. rt[n][d.src].next \in Node \ {n}
    BY <1>2, NextHopOK
  <2>2. QED
    BY <1>2, <1>3, <2>1, DatagramOK
<1>5. \A e \in casts : FlyingOK(e, seqNo)
  BY <1>2, <1>3, BroadcastOK
<1> HIDE DEF ds, casts
<1>6. AirOK' /\ LoopbackOK'
  BY <1>1, <1>2, <1>4, <1>5, RouteOutputOK DEF search
<1>7. TableOK(n, rt[n], seqNo) /\ Quieter(rt[n], rt[n]) /\ rt' = [rt EXCEPT ![n] = rt[n]]
  BY <1>1, <1>2, TablesLeft
<1>8. QED
  BY <1>1, <1>2, <1>6, <1>7, HandlerStep DEF nodeVars, IInv, Vehicles

LEMMA KnownRequestInv ==
  ASSUME IInv, NEW n, NEW d, DropKnownRequest(n, d)
  PROVE  IInv'
<1> DEFINE u == UpdateRouteToNeighbor(rt[n], d.src)
<1>1. /\ Arrives(n, d) /\ Local(n, d) /\ rt' = [rt EXCEPT ![n] = u]
      /\ air' = air \ {d} /\ UNCHANGED <<nodeVars, search, loopback, queue, rerrCount>>
  BY DEF DropKnownRequest, IsRequest
<1>2. n \in Node /\ d.src \in Node \ {n} /\ seqNo \in Numbers /\ TableOK(n, rt[n], seqNo)
  BY <1>1, Incoming
<1>3. TableOK(n, u, seqNo) /\ Quieter(rt[n], u)
  BY <1>2, HeardOK
<1> HIDE DEF u
<1>4. QED
  BY <1>1, <1>2, <1>3, HandlerStep DEF nodeVars, search, IInv, Vehicles, AirOK, LoopbackOK

\* What every request that is seen for the first time comes with.
LEMMA TakeOK ==
  ASSUME IInv, NEW n, NEW d, TakeRequest(n, d)
  PROVE  /\ n \in Node /\ d \in air /\ d.src \in Node \ {n} /\ links \in Topologies
         /\ seqNo \in Numbers /\ seqNo[n] \in Nat /\ RreqOK(d.src, d.body, seqNo)
         /\ TableOK(n, Requested(n, d), seqNo)
         /\ Quieter(rt[n], Requested(n, d))
         /\ LET back == Requested(n, d)[d.body.origin]
            IN  /\ EntryOK(n, d.body.origin, back, seqNo) /\ back.next = d.src
                /\ back.hop \in Nat \ {0} /\ back.seq \in Nat /\ back.seq <= seqNo[d.body.origin]
         /\ nb' \in [Node -> SUBSET (Node \cup {Null})]
         /\ UNCHANGED <<links, up, htimer, requestId, timer, delayed, rreqCount, queue, rerrCount>>
         /\ bcast \subseteq Node /\ rerrCount \in [Node -> 0 .. RerrRateLimit]
<1>1. /\ Arrives(n, d) /\ Local(n, d) /\ d.body \notin Packet /\ d.body.type = "RREQ"
      /\ nb' = [nb EXCEPT ![n] = NbUpdate(n, d.src)]
      /\ UNCHANGED <<links, up, htimer, requestId, timer, delayed, rreqCount, queue, rerrCount>>
  BY DEF TakeRequest, IsRequest
<1>2. /\ n \in Node /\ d \in air /\ d.src \in Node \ {n} /\ links \in Topologies /\ seqNo \in Numbers
      /\ BodyOK(d.src, d.body, seqNo) /\ TableOK(n, rt[n], seqNo)
      /\ nb \in [Node -> SUBSET (Node \cup {Null})]
      /\ bcast \subseteq Node /\ rerrCount \in [Node -> 0 .. RerrRateLimit]
  BY <1>1, Incoming
<1>3. RreqOK(d.src, d.body, seqNo)
  BY <1>1, <1>2, BodyIs
<1>4. /\ TableOK(n, Requested(n, d), seqNo) /\ Quieter(rt[n], Requested(n, d))
      /\ EntryOK(n, d.body.origin, Requested(n, d)[d.body.origin], seqNo)
      /\ Requested(n, d)[d.body.origin].next = d.src
      /\ Requested(n, d)[d.body.origin].seq <= seqNo[d.body.origin]
  BY <1>2, <1>3, RequestedOK
<1>5. Requested(n, d)[d.body.origin].hop \in Nat \ {0} /\ Requested(n, d)[d.body.origin].seq \in Nat
  BY <1>4 DEF EntryOK, Entry
<1>6. nb' \in [Node -> SUBSET (Node \cup {Null})] /\ seqNo[n] \in Nat
  BY <1>1, <1>2 DEF NbUpdate, Numbers
<1>7. QED
  BY <1>1, <1>2, <1>3, <1>4, <1>5, <1>6

LEMMA RrepMade ==
  ASSUME NEW n \in Node, NEW q, NEW dst \in Node, NEW seq \in Nat, seq <= q[dst], NEW origin \in Node,
         NEW hop \in Nat, NEW ttl \in Nat, NEW ack \in BOOLEAN, (hop = 0 \/ dst = origin) => n = dst
  PROVE  BodyOK(n, Rrep(dst, seq, origin, hop, ttl, ack), q)
<1> DEFINE m == Rrep(dst, seq, origin, hop, ttl, ack)
<1>1. m \in Replies /\ m.hop = hop /\ m.dst = dst /\ m.origin = origin /\ m.dstSeq = seq
  BY DEF Rrep, Replies
<1> HIDE DEF m
<1>2. RrepOK(n, m, q)
  BY <1>1 DEF RrepOK
<1>3. QED
  BY <1>2 DEF BodyOK, m

\* The destination answers with the number it has: nobody can ask for the next one.
LEMMA AnswerRequestInv ==
  ASSUME IInv, NEW n, NEW d, AnswerRequest(n, d)
  PROVE  IInv'
<1> DEFINE m == d.body
           u == Requested(n, d)
           back == u[m.origin]
           number == IF ~m.unknown /\ m.dstSeq = seqNo[n] + 1 THEN seqNo[n] + 1 ELSE seqNo[n]
           reply == SendReply(n, number, back, m.origin)
<1>1. /\ TakeRequest(n, d) /\ m.dst = n /\ rt' = [rt EXCEPT ![n] = u]
      /\ seqNo' = [seqNo EXCEPT ![n] = number] /\ RouteOutput(n, u, {reply}, {d}, {})
      /\ UNCHANGED bcast
  BY DEF AnswerRequest, IsMyOwnAddress
<1>2. /\ n \in Node /\ d.src \in Node \ {n} /\ seqNo \in Numbers /\ seqNo[n] \in Nat
      /\ RreqOK(d.src, m, seqNo) /\ TableOK(n, u, seqNo) /\ Quieter(rt[n], u)
      /\ back.next = d.src /\ back.hop \in Nat
      /\ nb' \in [Node -> SUBSET (Node \cup {Null})] /\ bcast \subseteq Node
      /\ rerrCount \in [Node -> 0 .. RerrRateLimit]
      /\ UNCHANGED <<links, up, htimer, requestId, timer, delayed, rreqCount, queue, rerrCount>>
  BY <1>1, TakeOK
<1> HIDE DEF u, back
<1>3. number = seqNo[n] /\ m.origin \in Node /\ m.dst # m.origin
  <2>1. m.dstSeq \in Nat /\ (~m.unknown => m.dstSeq <= seqNo[n]) /\ m.origin \in Node /\ m.dst # m.origin
    BY <1>1, <1>2 DEF RreqOK, Requests
  <2>2. QED
    BY <1>2, <2>1
<1> HIDE DEF number
<1>4. UNCHANGED seqNo
  BY <1>1, <1>2, <1>3 DEF Numbers
<1>5. WaitingOK(n, reply, seqNo)
  <2>1. BodyOK(n, Rrep(n, number, m.origin, 0, back.hop, FALSE), seqNo)
    <3>1. /\ number \in Nat /\ number <= seqNo[n] /\ m.origin \in Node /\ back.hop \in Nat
          /\ 0 \in Nat /\ FALSE \in BOOLEAN /\ (0 = 0 \/ n = m.origin) => n = n
      BY <1>2, <1>3
    <3> HIDE DEF m
    <3>2. QED
      BY <1>2, <3>1, RrepMade
  <2>2. QED
    BY <1>2, <2>1, DatagramOK DEF SendReply
<1> HIDE DEF reply
<1>6. AirOK' /\ LoopbackOK'
  BY <1>1, <1>2, <1>4, <1>5, RouteOutputOK
<1>7. QED
  BY <1>1, <1>2, <1>4, <1>6, HandlerStep DEF search

\* A vehicle with a route answers for the destination, and may tell the destination.
LEMMA AnswerForDestinationInv ==
  ASSUME IInv, NEW n, NEW d, AnswerForDestination(n, d)
  PROVE  IInv'
<1> DEFINE m == d.body
           t == Requested(n, d)
           toDst == t[m.dst]
           back == t[m.origin]
           mid == InsertPrecursor(t, m.dst, back.next)
           after == InsertPrecursor(mid, m.origin, toDst.next)
           reply == Rrep(m.dst, toDst.seq, m.origin, toDst.hop, back.hop, toDst.hop = 1)
           grat == Rrep(m.origin, back.seq, m.dst, back.hop, toDst.hop, FALSE)
           sent == {Datagram(n, back.next, reply)}
                     \cup (IF GratuitousReply THEN {Datagram(n, toDst.next, grat)} ELSE {})
<1>1. /\ TakeRequest(n, d) /\ m.dst # n /\ Valid(t, m.dst)
      /\ Suffices(Lookup(t, m.dst), m)
      /\ rt' = [rt EXCEPT ![n] = after] /\ RouteOutput(n, after, sent, {d}, {})
      /\ UNCHANGED <<seqNo, bcast>>
  BY DEF AnswerForDestination, IsMyOwnAddress, SendReplyByIntermediateNode
<1>2. /\ n \in Node /\ d.src \in Node \ {n} /\ seqNo \in Numbers
      /\ RreqOK(d.src, m, seqNo) /\ TableOK(n, t, seqNo) /\ Quieter(rt[n], t)
      /\ back.next = d.src /\ back.hop \in Nat \ {0} /\ back.seq \in Nat /\ back.seq <= seqNo[m.origin]
      /\ nb' \in [Node -> SUBSET (Node \cup {Null})] /\ bcast \subseteq Node
      /\ rerrCount \in [Node -> 0 .. RerrRateLimit]
      /\ UNCHANGED <<links, up, htimer, requestId, timer, delayed, rreqCount, queue, rerrCount>>
  BY <1>1, TakeOK
<1>3. m.dst \in Node /\ m.origin \in Node /\ m.dst # m.origin
  BY <1>2 DEF RreqOK, Requests
<1>4. toDst.valid /\ EntryOK(n, m.dst, toDst, seqNo) /\ toDst.flag = "VALID"
  BY <1>1, <1>2, <1>3 DEF Valid, Suffices, Lookup, TableOK
<1>5. /\ toDst.seq \in Nat /\ toDst.seq <= seqNo[m.dst] /\ toDst.hop \in Nat \ {0}
      /\ toDst.next \in Node \ {n} /\ (toDst.hop = 1) \in BOOLEAN
  BY <1>4, Constants DEF EntryOK, Entry
<1> HIDE DEF t, back, toDst, m
<1>6. BodyOK(n, reply, seqNo)
  <2>1. (toDst.hop = 0 \/ m.dst = m.origin) => n = m.dst
    BY <1>3, <1>5
  <2>2. back.hop \in Nat /\ toDst.hop \in Nat
    BY <1>2, <1>5
  <2>3. QED
    BY <1>2, <1>3, <1>5, <2>1, <2>2, RrepMade
<1>7. BodyOK(n, grat, seqNo)
  <2>1. (back.hop = 0 \/ m.origin = m.dst) => n = m.origin
    BY <1>2, <1>3
  <2>2. back.hop \in Nat /\ toDst.hop \in Nat /\ FALSE \in BOOLEAN
    BY <1>2, <1>5
  <2>3. QED
    BY <1>2, <1>3, <1>5, <2>1, <2>2, RrepMade
<1> HIDE DEF reply, grat
<1>8. \A x \in sent : WaitingOK(n, x, seqNo)
  <2>1. WaitingOK(n, Datagram(n, back.next, reply), seqNo)
    BY <1>2, <1>6, DatagramOK
  <2>2. WaitingOK(n, Datagram(n, toDst.next, grat), seqNo)
    BY <1>2, <1>5, <1>7, DatagramOK
  <2>3. QED
    BY <2>1, <2>2
<1>9. TableOK(n, mid, seqNo) /\ Quieter(t, mid)
  BY <1>2, InsertPrecursorOK
<1> HIDE DEF sent, mid
<1>10. TableOK(n, after, seqNo) /\ Quieter(mid, after)
  BY <1>2, <1>5, <1>9, InsertPrecursorOK
<1> HIDE DEF after
<1>11. AirOK' /\ LoopbackOK'
  BY <1>1, <1>2, <1>8, RouteOutputOK
<1>12. Quieter(rt[n], after)
  BY <1>2, <1>9, <1>10 DEF Quieter
<1>13. QED
  BY <1>1, <1>2, <1>10, <1>11, <1>12, HandlerStep DEF search

LEMMA ForwardRequestInv ==
  ASSUME IInv, NEW n, NEW d, ForwardRequest(n, d)
  PROVE  IInv'
<1> DEFINE m == d.body
           t == Requested(n, d)
           toDst == Lookup(t, m.dst)
           newer == t[m.dst] # Null /\ Suffices(toDst, m)
           number == IF newer THEN toDst.seq ELSE m.dstSeq
           unknown == IF newer THEN FALSE ELSE m.unknown
           onward == [m EXCEPT !.hop = m.hop + 1, !.ttl = m.ttl - 1, !.dstSeq = number, !.unknown = unknown]
           drop == toDst.next = d.src \/ m.ttl < 2
           casts == IF drop THEN {} ELSE Broadcast(n, onward)
<1>1. /\ TakeRequest(n, d) /\ rt' = [rt EXCEPT ![n] = t]
      /\ air' = (air \ {d}) \cup casts
      /\ bcast' = IF drop THEN bcast ELSE bcast \cup {n}
      /\ UNCHANGED <<seqNo, loopback>>
  BY DEF ForwardRequest
<1>2. /\ n \in Node /\ d.src \in Node \ {n} /\ seqNo \in Numbers /\ links \in Topologies
      /\ RreqOK(d.src, m, seqNo) /\ TableOK(n, t, seqNo) /\ Quieter(rt[n], t)
      /\ nb' \in [Node -> SUBSET (Node \cup {Null})] /\ bcast \subseteq Node
      /\ rerrCount \in [Node -> 0 .. RerrRateLimit]
      /\ UNCHANGED <<links, up, htimer, requestId, timer, delayed, rreqCount, queue, rerrCount>>
  BY <1>1, TakeOK
<1> HIDE DEF t
<1>3. m \in Requests /\ m.dst \in Node /\ m.origin \in Node /\ m.hop \in Nat /\ m.ttl \in Nat
      /\ m.dstSeq \in Nat /\ m.unknown \in BOOLEAN
      /\ m.hop + m.ttl <= NetDiameter /\ (~m.unknown => m.dstSeq <= seqNo[m.dst])
  BY <1>2 DEF RreqOK, Requests
<1>4. number \in Nat /\ unknown \in BOOLEAN /\ (~unknown => number <= seqNo[m.dst])
  <2>1. CASE newer
    <3>1. EntryOK(n, m.dst, toDst, seqNo) /\ toDst.valid
      BY <1>2, <1>3, <2>1 DEF TableOK, Lookup, Suffices
    <3>2. toDst.seq \in Nat /\ toDst.seq <= seqNo[m.dst]
      BY <3>1 DEF EntryOK, Entry
    <3>3. QED
      BY <2>1, <3>2
  <2>2. CASE ~newer
    BY <1>3, <2>2
  <2>3. QED
    BY <2>1, <2>2
<1> HIDE DEF number, unknown, newer
<1>5. \A x \in casts : FlyingOK(x, seqNo)
  <2>1. CASE drop
    BY <2>1
  <2>2. CASE ~drop
    <3>1. m.ttl >= 2
      BY <1>3, <2>2
    <3>2. /\ onward \in Requests /\ onward.hop = m.hop + 1 /\ onward.ttl = m.ttl - 1
          /\ onward.dst = m.dst /\ onward.origin = m.origin /\ onward.originSeq = m.originSeq
          /\ onward.dstSeq = number /\ onward.unknown = unknown
      <4>1. m.hop + 1 \in Nat /\ m.ttl - 1 \in Nat
        BY <1>3, <3>1
      <4> DEFINE h == m.hop + 1
                 l == m.ttl - 1
      <4>2. h \in Nat /\ l \in Nat /\ onward = [m EXCEPT !.hop = h, !.ttl = l, !.dstSeq = number, !.unknown = unknown]
        BY <4>1
      <4> HIDE DEF h, l, m, onward
      <4>3. QED
        <5>1. onward \in Requests
          BY <1>3, <1>4, <4>2 DEF Requests
        <5>2. /\ onward.hop = h /\ onward.ttl = l /\ onward.dst = m.dst /\ onward.origin = m.origin
              /\ onward.originSeq = m.originSeq /\ onward.dstSeq = number /\ onward.unknown = unknown
          BY <1>3, <4>2 DEF Requests
        <5>3. QED
          BY <5>1, <5>2 DEF h, l
    <3>3. m.dst # m.origin /\ m.originSeq <= seqNo[m.origin]
      BY <1>2 DEF RreqOK
    <3>4. onward.ttl # 0 /\ onward.hop # 0 /\ onward.hop + onward.ttl <= NetDiameter
      <4>1. m.hop + 1 + (m.ttl - 1) = m.hop + m.ttl /\ m.ttl - 1 # 0 /\ m.hop + 1 # 0
        BY <1>3, <3>1
      <4>2. QED
        BY <1>3, <3>2, <4>1
    <3> HIDE DEF onward, m
    <3>5. RreqOK(n, onward, seqNo)
      BY <1>4, <3>2, <3>3, <3>4 DEF RreqOK
    <3>6. BodyOK(n, onward, seqNo)
      BY <3>5 DEF BodyOK
    <3>7. \A x \in Broadcast(n, onward) : FlyingOK(x, seqNo)
      BY <1>2, <3>6, BroadcastOK
    <3>8. QED
      BY <2>2, <3>7
  <2>3. QED
    BY <2>1, <2>2
<1> HIDE DEF casts, drop
<1>6. AirOK' /\ LoopbackOK'
  BY <1>1, <1>2, <1>5 DEF IInv, AirOK, LoopbackOK
<1>7. bcast' \subseteq Node
  BY <1>1, <1>2
<1>8. QED
  BY <1>1, <1>2, <1>6, <1>7, HandlerStep DEF search

LEMMA ReplyComes ==
  ASSUME IInv, NEW n, NEW d, IsReply(n, d)
  PROVE  /\ n \in Node /\ d \in air /\ d.src \in Node \ {n} /\ links \in Topologies
         /\ seqNo \in Numbers /\ RrepOK(d.src, d.body, seqNo)
         /\ d.body \in Replies /\ d.body.dst \in Node /\ d.body.origin \in Node
         /\ TableOK(n, rt[n], seqNo) /\ TableOK(n, Replied(n, d), seqNo)
         /\ Quieter(rt[n], Replied(n, d))
         /\ [nb EXCEPT ![n] = Neighbors(n, d)] \in [Node -> SUBSET (Node \cup {Null})]
         /\ bcast \subseteq Node /\ rerrCount \in [Node -> 0 .. RerrRateLimit]
         /\ \A x \in SendReplyAck(n, d) : WaitingOK(n, x, seqNo)
<1>1. Arrives(n, d) /\ Local(n, d) /\ d.body \notin Packet /\ d.body.type = "RREP"
  BY DEF IsReply
<1>2. /\ n \in Node /\ d \in air /\ d.src \in Node \ {n} /\ links \in Topologies /\ seqNo \in Numbers
      /\ BodyOK(d.src, d.body, seqNo) /\ TableOK(n, rt[n], seqNo)
      /\ nb \in [Node -> SUBSET (Node \cup {Null})]
      /\ bcast \subseteq Node /\ rerrCount \in [Node -> 0 .. RerrRateLimit]
  BY <1>1, Incoming
<1>3. RrepOK(d.src, d.body, seqNo)
  BY <1>1, <1>2, BodyIs
<1>4. d.body \in Replies /\ d.body.dst \in Node /\ d.body.origin \in Node
  BY <1>3 DEF RrepOK, Replies
<1>5. TableOK(n, Replied(n, d), seqNo) /\ Quieter(UpdateRouteToNeighbor(rt[n], d.src), Replied(n, d))
  BY <1>2, <1>3, RepliedOK
<1>6. Quieter(rt[n], UpdateRouteToNeighbor(rt[n], d.src))
  BY <1>2, HeardOK
<1>7. Quieter(rt[n], Replied(n, d))
  BY <1>5, <1>6 DEF Quieter
<1>8. Neighbors(n, d) \subseteq Node \cup {Null}
  BY <1>2, NeighborsOK
<1>9. \A x \in SendReplyAck(n, d) : WaitingOK(n, x, seqNo)
  <2>1. BodyOK(n, RrepAck, seqNo)
    BY DEF BodyOK
  <2>2. WaitingOK(n, Datagram(n, d.src, RrepAck), seqNo)
    BY <1>2, <2>1, DatagramOK
  <2>3. QED
    BY <2>2 DEF SendReplyAck
<1>10. QED
  BY <1>2, <1>3, <1>4, <1>5, <1>7, <1>8, <1>9

\* At the vehicle that asked, the search is over and the packets are sent.
LEMMA ReplyArrivesInv ==
  ASSUME IInv, NEW n, NEW d, ReplyArrives(n, d)
  PROVE  IInv'
<1> DEFINE m == d.body
           h == UpdateRouteToNeighbor(rt[n], d.src)
           inSearch == Lookup(h, m.dst).flag = "IN_SEARCH"
           e == Route(d.src, m.hop + 1, m.dstSeq, TRUE)
           u == Replied(n, d)
           t == IF inSearch THEN Update(u, m.dst, e) ELSE u
           casts == SendPacketFromQueue(n, m.dst, t[m.dst].next)
<1>1. /\ IsReply(n, d) /\ rt' = [rt EXCEPT ![n] = t]
      /\ timer' = [timer EXCEPT ![n] = IF inSearch THEN timer[n] \ {m.dst} ELSE timer[n]]
      /\ queue' = [queue EXCEPT ![n] = @ \ Waiting(n, m.dst)]
      /\ nb' = [nb EXCEPT ![n] = Neighbors(n, d)]
      /\ RouteOutput(n, u, SendReplyAck(n, d), {d}, casts)
      /\ UNCHANGED <<links, up, htimer, bcast, seqNo, requestId, delayed, rreqCount, rerrCount>>
  BY DEF ReplyArrives
<1>2. /\ n \in Node /\ d.src \in Node \ {n} /\ seqNo \in Numbers /\ m.dst \in Node
      /\ TableOK(n, rt[n], seqNo) /\ TableOK(n, u, seqNo) /\ Quieter(rt[n], u)
      /\ [nb EXCEPT ![n] = Neighbors(n, d)] \in [Node -> SUBSET (Node \cup {Null})]
      /\ \A x \in SendReplyAck(n, d) : WaitingOK(n, x, seqNo)
      /\ RrepOK(d.src, m, seqNo)
  BY <1>1, ReplyComes
<1>3. /\ Quieter(h, u) /\ EntryOK(n, m.dst, e, seqNo) /\ e.flag = "VALID"
  BY <1>2, RepliedOK
<1>4. Quieter(rt[n], h) /\ TableOK(n, h, seqNo)
  BY <1>2, HeardOK
<1> HIDE DEF h, u, m, e
<1>5. /\ TableOK(n, t, seqNo) /\ Quieter(u, t)
      /\ inSearch => (t[m.dst] # Null => t[m.dst].flag # "IN_SEARCH")
  <2>1. CASE inSearch
    <3>1. /\ TableOK(n, Update(u, m.dst, e), seqNo) /\ Quieter(u, Update(u, m.dst, e))
          /\ u[m.dst] # Null => Update(u, m.dst, e)[m.dst].flag = e.flag
      BY <1>2, <1>3, UpdateOK
    <3>2. u[m.dst] = Null => Update(u, m.dst, e) = u
      BY DEF Update
    <3>3. QED
      BY <1>3, <2>1, <3>1, <3>2
  <2>2. CASE ~inSearch
    BY <1>2, <2>2 DEF Quieter
  <2>3. QED
    BY <2>1, <2>2
<1>6. ~Searching(t, m.dst)
  <2>1. CASE inSearch
    BY <1>5, <2>1 DEF Searching
  <2>2. CASE ~inSearch
    <3>1. ~Searching(h, m.dst)
      BY <2>2 DEF Searching, Lookup
    <3>2. QED
      BY <1>2, <1>3, <2>2, <3>1 DEF Quieter
  <2>3. QED
    BY <2>1, <2>2
<1>7. Quieter(rt[n], t)
  BY <1>2, <1>5 DEF Quieter
<1>8. \A x \in casts : FlyingOK(x, seqNo)
  BY <1>2, SentFromQueueOK
<1> HIDE DEF casts, t, inSearch
<1>9. AirOK' /\ LoopbackOK'
  BY <1>1, <1>2, <1>8, RouteOutputOK
<1>10. timer' = [timer EXCEPT ![n] = @ \ {m.dst}] \/ UNCHANGED timer
  BY <1>1 DEF IInv, Counters
<1>11. /\ QueueOK' /\ timer' \in [Node -> SUBSET Node] /\ \A k \in Node : k \notin timer'[k]
       /\ \A k, x \in Node : Awaited(k, x) /\ ~(k = n /\ x = m.dst) => Awaited(k, x)'
       /\ \A k \in Node : \A x \in queue'[k] : Awaited(k, x.to)'
  BY <1>1, <1>2, <1>10, Emptied
<1>12. Tables'
  BY <1>1, <1>2, <1>5 DEF IInv, Tables, TableOK
<1>13. Searches'
  <2>1. \A k, x \in Node : Searching(rt[k], x)' => Searching(rt[k], x) /\ ~(k = n /\ x = m.dst)
    BY <1>1, <1>2, <1>6, <1>7 DEF IInv, Tables, Quieter, Searching
  <2>2. QED
    BY <1>11, <2>1 DEF IInv, Searches
<1>14. Vehicles'
  BY <1>1, <1>2 DEF IInv, Vehicles
<1>15. Counters'
  BY <1>1, <1>11 DEF IInv, Counters
<1>16. QED
  BY <1>9, <1>11, <1>12, <1>13, <1>14, <1>15 DEF IInv

\* A reply on its way notes precursors and goes on by the way back.
LEMMA ForwardReplyInv ==
  ASSUME IInv, NEW n, NEW d, ForwardReply(n, d)
  PROVE  IInv'
<1> DEFINE m == d.body
           u == Replied(n, d)
           back == Lookup(u, m.origin)
           lost == u[m.origin] = Null \/ back.flag = "IN_SEARCH"
           onward == [m EXCEPT !.hop = @ + 1, !.ttl = @ - 1, !.ack = FALSE]
           on == IF lost \/ m.ttl < 2 THEN {} ELSE {Datagram(n, back.next, onward)}
           t == IF lost THEN u ELSE NotePrecursors(u, m)
<1>1. /\ IsReply(n, d) /\ m.origin # n /\ ~IsHello(m) /\ rt' = [rt EXCEPT ![n] = t]
      /\ nb' = [nb EXCEPT ![n] = Neighbors(n, d)]
      /\ RouteOutput(n, u, SendReplyAck(n, d) \cup on, {d}, {})
      /\ UNCHANGED <<links, up, htimer, bcast, search, queue, rerrCount>>
  BY DEF ForwardReply, IsMyOwnAddress
<1>2. /\ n \in Node /\ d.src \in Node \ {n} /\ seqNo \in Numbers /\ m \in Replies
      /\ m.dst \in Node /\ m.origin \in Node
      /\ TableOK(n, rt[n], seqNo) /\ TableOK(n, u, seqNo) /\ Quieter(rt[n], u)
      /\ [nb EXCEPT ![n] = Neighbors(n, d)] \in [Node -> SUBSET (Node \cup {Null})]
      /\ \A x \in SendReplyAck(n, d) : WaitingOK(n, x, seqNo)
      /\ bcast \subseteq Node /\ rerrCount \in [Node -> 0 .. RerrRateLimit]
      /\ RrepOK(d.src, m, seqNo)
  BY <1>1, ReplyComes
<1> HIDE DEF u
<1>3. TableOK(n, t, seqNo) /\ Quieter(rt[n], t)
  <2>1. CASE lost
    BY <1>2, <2>1
  <2>2. CASE ~lost
    <3>1. u[m.origin] # Null /\ u[m.origin].flag # "IN_SEARCH"
      BY <2>2 DEF Lookup
    <3> HIDE DEF m
    <3>2. TableOK(n, NotePrecursors(u, m), seqNo) /\ Quieter(u, NotePrecursors(u, m))
      BY <1>2, <3>1, NotePrecursorsOK
    <3>3. QED
      BY <1>2, <2>2, <3>2 DEF Quieter
  <2>3. QED
    BY <2>1, <2>2
<1>4. \A x \in on : WaitingOK(n, x, seqNo)
  <2>1. CASE lost \/ m.ttl < 2
    BY <2>1
  <2>2. CASE ~lost /\ ~(m.ttl < 2)
    <3>1. EntryOK(n, m.origin, back, seqNo) /\ back.flag # "IN_SEARCH"
      BY <1>2, <2>2 DEF Lookup, TableOK
    <3>2. back.next \in Node \ {n}
      BY <3>1 DEF EntryOK, Entry
    <3> HIDE DEF back
    <3>3. m.hop \in Nat /\ m.ttl \in Nat /\ m.hop + 1 \in Nat /\ m.hop + 1 # 0 /\ m.ttl - 1 \in Nat
      <4>1. m.hop \in Nat /\ m.ttl \in Nat
        BY <1>2 DEF Replies
      <4>2. QED
        BY <2>2, <4>1
    <3> DEFINE h == m.hop + 1
               l == m.ttl - 1
    <3>4. h \in Nat /\ h # 0 /\ l \in Nat /\ onward = [m EXCEPT !.hop = h, !.ttl = l, !.ack = FALSE]
      BY <3>3
    <3> HIDE DEF h, l, m, onward
    <3>5. onward \in Replies
      BY <1>2, <3>4 DEF Replies
    <3>6. onward.hop = h /\ onward.dst = m.dst /\ onward.origin = m.origin /\ onward.dstSeq = m.dstSeq
      BY <1>2, <3>4 DEF Replies
    <3>7. m.dst # m.origin /\ m.dstSeq <= seqNo[m.dst]
      BY <1>1, <1>2 DEF IsHello, RrepOK
    <3>8. RrepOK(n, onward, seqNo)
      BY <3>4, <3>5, <3>6, <3>7 DEF RrepOK
    <3>9. BodyOK(n, onward, seqNo)
      BY <3>8 DEF BodyOK
    <3>10. WaitingOK(n, Datagram(n, back.next, onward), seqNo)
      BY <1>2, <3>2, <3>9, DatagramOK
    <3>11. QED
      BY <2>2, <3>10
  <2>3. QED
    BY <2>1, <2>2
<1> HIDE DEF on, t
<1>5. AirOK' /\ LoopbackOK'
  <2>1. \A x \in SendReplyAck(n, d) \cup on : WaitingOK(n, x, seqNo)
    BY <1>2, <1>4
  <2>2. UNCHANGED seqNo
    BY <1>1 DEF search
  <2> DEFINE ds == SendReplyAck(n, d) \cup on
  <2> HIDE DEF ds
  <2>3. (\A x \in ds : WaitingOK(n, x, seqNo)) /\ RouteOutput(n, u, ds, {d}, {})
    BY <1>1, <2>1 DEF ds
  <2>4. QED
    BY <1>2, <2>2, <2>3, RouteOutputOK
<1>6. nb' \in [Node -> SUBSET (Node \cup {Null})] /\ bcast' \subseteq Node
      /\ rerrCount' \in [Node -> 0 .. RerrRateLimit]
  BY <1>1, <1>2
<1>7. QED
  BY <1>1, <1>2, <1>3, <1>5, <1>6, HandlerStep

LEMMA ReplyAckInv ==
  ASSUME IInv, NEW n, NEW d, ReceiveReplyAck(n, d)
  PROVE  IInv'
<1> DEFINE u == UpdateRouteToNeighbor(rt[n], d.src)
           e == [u[d.src] EXCEPT !.flag = "VALID"]
           t == Update(u, d.src, e)
<1>1. /\ Arrives(n, d) /\ Local(n, d) /\ rt' = [rt EXCEPT ![n] = t]
      /\ nb' = [nb EXCEPT ![n] = Neighbors(n, d)] /\ air' = air \ {d}
      /\ UNCHANGED <<links, up, htimer, bcast, search, loopback, queue, rerrCount>>
  BY DEF ReceiveReplyAck
<1>2. /\ n \in Node /\ d.src \in Node \ {n} /\ seqNo \in Numbers /\ TableOK(n, rt[n], seqNo)
      /\ nb \in [Node -> SUBSET (Node \cup {Null})]
      /\ bcast \subseteq Node /\ rerrCount \in [Node -> 0 .. RerrRateLimit]
  BY <1>1, Incoming
<1>3. /\ TableOK(n, u, seqNo) /\ Quieter(rt[n], u) /\ EntryOK(n, d.src, u[d.src], seqNo)
      /\ u[d.src].next = d.src
  BY <1>2, HeardOK
<1> HIDE DEF u
<1>4. EntryOK(n, d.src, e, seqNo) /\ e.flag = "VALID"
  BY <1>2, <1>3, Constants DEF EntryOK, Entry
<1> HIDE DEF e
<1>5. TableOK(n, t, seqNo) /\ Quieter(u, t)
  BY <1>2, <1>3, <1>4, UpdateOK
<1> HIDE DEF t
<1>6. Quieter(rt[n], t)
  BY <1>3, <1>5 DEF Quieter
<1>7. AirOK' /\ LoopbackOK'
  BY <1>1 DEF IInv, AirOK, LoopbackOK, search
<1>8. nb' \in [Node -> SUBSET (Node \cup {Null})]
  <2>1. Neighbors(n, d) \subseteq Node \cup {Null}
    BY <1>2, NeighborsOK
  <2>2. QED
    BY <1>1, <1>2, <2>1
<1>9. QED
  BY <1>1, <1>2, <1>5, <1>6, <1>7, <1>8, HandlerStep

LEMMA ReceiveHelloInv ==
  ASSUME IInv, NEW n, NEW d, ReceiveHello(n, d)
  PROVE  IInv'
<1> DEFINE m == d.body
           u == UpdateRouteToNeighbor(rt[n], d.src)
           e == [Lookup(u, m.dst) EXCEPT !.flag = "VALID", !.next = m.dst, !.hop = 1,
                                         !.seq = m.dstSeq, !.valid = TRUE]
           t == Update(u, m.dst, e)
<1>1. /\ IsReply(n, d) /\ IsHello(m) /\ rt' = [rt EXCEPT ![n] = t]
      /\ nb' = [nb EXCEPT ![n] = IF EnableHello THEN NbUpdate(n, m.dst) ELSE @] /\ air' = air \ {d}
      /\ UNCHANGED <<links, up, htimer, bcast, search, loopback, queue, rerrCount>>
  BY DEF ReceiveHello
<1>2. /\ n \in Node /\ d.src \in Node \ {n} /\ seqNo \in Numbers /\ m \in Replies /\ m.dst \in Node
      /\ TableOK(n, rt[n], seqNo) /\ RrepOK(d.src, m, seqNo)
      /\ bcast \subseteq Node /\ rerrCount \in [Node -> 0 .. RerrRateLimit]
  BY <1>1, ReplyComes
<1>3. m.dst = d.src /\ m.dstSeq \in Nat /\ m.dstSeq <= seqNo[m.dst]
  BY <1>1, <1>2 DEF RrepOK, IsHello, Replies
<1>4. /\ TableOK(n, u, seqNo) /\ Quieter(rt[n], u) /\ EntryOK(n, d.src, u[d.src], seqNo)
  BY <1>2, HeardOK
<1> HIDE DEF u, m
<1>5. EntryOK(n, m.dst, e, seqNo) /\ e.flag = "VALID"
  <2>1. Lookup(u, m.dst) \in Entry /\ n \notin Lookup(u, m.dst).pre
    <3>1. CASE u[m.dst] # Null
      BY <1>3, <1>4, <3>1 DEF EntryOK, Lookup
    <3>2. CASE u[m.dst] = Null
      BY <3>2 DEF Lookup, Route, Entry
    <3>3. QED
      BY <3>1, <3>2
  <2> DEFINE l == Lookup(u, m.dst)
  <2> HIDE DEF l
  <2>2. e = [l EXCEPT !.flag = "VALID", !.next = m.dst, !.hop = 1, !.seq = m.dstSeq, !.valid = TRUE]
        /\ l \in Entry /\ n \notin l.pre
    BY <2>1 DEF l
  <2> HIDE DEF e
  <2>3. e \in Entry /\ e.flag = "VALID" /\ e.next = m.dst /\ e.hop = 1 /\ e.seq = m.dstSeq /\ e.pre = l.pre
    BY <1>2, <1>3, <2>2 DEF Entry
  <2>4. QED
    BY <1>2, <1>3, <2>2, <2>3, Constants DEF EntryOK
<1> HIDE DEF e
<1>6. TableOK(n, t, seqNo) /\ Quieter(u, t)
  BY <1>2, <1>4, <1>5, UpdateOK
<1> HIDE DEF t
<1>7. Quieter(rt[n], t)
  BY <1>4, <1>6 DEF Quieter
<1>8. AirOK' /\ LoopbackOK'
  BY <1>1 DEF IInv, AirOK, LoopbackOK, search
<1>9. nb' \in [Node -> SUBSET (Node \cup {Null})]
  BY <1>1, <1>2 DEF NbUpdate, IInv, Vehicles
<1>10. QED
  BY <1>1, <1>2, <1>6, <1>7, <1>8, <1>9, HandlerStep

\* What was reached over the sender of a route error is no longer reached.
LEMMA ReceiveErrorInv ==
  ASSUME IInv, NEW n, NEW d, ReceiveError(n, d)
  PROVE  IInv'
<1> DEFINE u == UpdateRouteToNeighbor(rt[n], d.src)
           ds == d.body.dsts \cap DestinationsWithNextHop(u, d.src)
           pre == Precursors(u, ds)
           t == InvalidateRoutesWithDst(u, ds)
<1>1. /\ Arrives(n, d) /\ Local(n, d) /\ rt' = [rt EXCEPT ![n] = t]
      /\ nb' = [nb EXCEPT ![n] = Neighbors(n, d)]
      /\ \/ air' = air \ {d} /\ UNCHANGED <<loopback, rerrCount>>
         \/ SendRerrMessage(n, u, ds, pre, {d})
      /\ UNCHANGED <<links, up, htimer, bcast, search, queue>>
  BY DEF ReceiveError
<1>2. /\ n \in Node /\ d.src \in Node \ {n} /\ seqNo \in Numbers /\ TableOK(n, rt[n], seqNo)
      /\ nb \in [Node -> SUBSET (Node \cup {Null})] /\ rerrCount \in [Node -> 0 .. RerrRateLimit]
      /\ bcast \subseteq Node
  BY <1>1, Incoming
<1>3. TableOK(n, u, seqNo) /\ Quieter(rt[n], u)
  BY <1>2, HeardOK
<1>4. ds \in SUBSET Node
  BY DEF DestinationsWithNextHop
<1> HIDE DEF u, ds
<1>5. pre \in SUBSET ((Node \ {n}) \cup {Null})
  BY <1>2, <1>3, <1>4, PrecursorsOK
<1>6. TableOK(n, t, seqNo) /\ Quieter(u, t)
  BY <1>2, <1>3, InvalidateOK
<1> HIDE DEF pre, t
<1>7. Quieter(rt[n], t)
  BY <1>3, <1>6 DEF Quieter
<1>8. AirOK' /\ LoopbackOK' /\ rerrCount' \in [Node -> 0 .. RerrRateLimit]
  <2>1. UNCHANGED seqNo
    BY <1>1 DEF search
  <2>2. CASE air' = air \ {d} /\ UNCHANGED <<loopback, rerrCount>>
    BY <1>2, <2>1, <2>2 DEF IInv, AirOK, LoopbackOK
  <2>3. CASE SendRerrMessage(n, u, ds, pre, {d})
    BY <1>2, <1>4, <1>5, <2>1, <2>3, SendRerrOK
  <2>4. QED
    BY <1>1, <2>2, <2>3
<1>9. nb' \in [Node -> SUBSET (Node \cup {Null})] /\ bcast' \subseteq Node
  <2>1. Neighbors(n, d) \subseteq Node \cup {Null}
    BY <1>2, NeighborsOK
  <2>2. QED
    BY <1>1, <1>2, <2>1
<1>10. QED
  BY <1>1, <1>2, <1>6, <1>7, <1>8, <1>9, HandlerStep

LEMMA CloseLinkInv ==
  ASSUME IInv, NEW n \in Node, NEW m, CloseLink(n, m)
  PROVE  IInv'
<1> DEFINE ds == {m} \cup DestinationsWithNextHop(rt[n], m)
           pre == Precursors(rt[n], ds)
           t == InvalidateRoutesWithDst(rt[n], ds)
<1>1. /\ nb' = [nb EXCEPT ![n] = @ \ {m}]
      /\ \/ UNCHANGED <<rt, air, loopback, rerrCount>>
         \/ /\ m \in Node /\ SendRerrMessage(n, rt[n], ds, pre, {})
            /\ rt' = [rt EXCEPT ![n] = t]
      /\ UNCHANGED <<links, up, htimer, bcast, search, queue>>
  BY DEF CloseLink, NbPurge
<1>2. TableOK(n, rt[n], seqNo) /\ UNCHANGED seqNo
  BY <1>1 DEF IInv, Tables, search
<1>3. nb' \in [Node -> SUBSET (Node \cup {Null})] /\ bcast' \subseteq Node
  BY <1>1 DEF IInv, Vehicles
<1>4. CASE UNCHANGED <<rt, air, loopback, rerrCount>>
  <2>1. AirOK' /\ LoopbackOK' /\ rerrCount' \in [Node -> 0 .. RerrRateLimit]
    BY <1>2, <1>4 DEF IInv, AirOK, LoopbackOK, Vehicles
  <2>2. TableOK(n, rt[n], seqNo) /\ Quieter(rt[n], rt[n]) /\ rt' = [rt EXCEPT ![n] = rt[n]]
    BY <1>4, TablesLeft
  <2>3. QED
    BY <1>1, <1>3, <2>1, <2>2, HandlerStep
<1>5. CASE /\ m \in Node /\ SendRerrMessage(n, rt[n], ds, pre, {})
           /\ rt' = [rt EXCEPT ![n] = t]
  <2>1. ds \in SUBSET Node
    BY <1>5 DEF DestinationsWithNextHop
  <2> HIDE DEF ds
  <2>2. pre \in SUBSET ((Node \ {n}) \cup {Null})
    <3>1. seqNo \in Numbers
      BY DEF IInv, Counters, Numbers
    <3>2. QED
      BY <1>2, <2>1, PrecursorsOK
  <2>3. TableOK(n, t, seqNo) /\ Quieter(rt[n], t)
    BY <1>2, InvalidateOK
  <2> HIDE DEF pre, t
  <2>4. AirOK' /\ LoopbackOK' /\ rerrCount' \in [Node -> 0 .. RerrRateLimit]
    BY <1>2, <1>5, <2>1, <2>2, SendRerrOK
  <2>5. QED
    BY <1>1, <1>3, <1>5, <2>3, <2>4, HandlerStep
<1>6. QED
  BY <1>1, <1>4, <1>5
-----------------------------------------------------------------------------
(* The invariant holds in every state *)

LEMMA InitInv == Init => IInv
<1> SUFFICES ASSUME Init PROVE IInv
  OBVIOUS
<1>1. Vehicles /\ Counters
  BY Constants DEF Init, Vehicles, Counters, Hellos
<1>2. Tables
  BY DEF Init, FirstRoutes, Tables, TableOK
<1>3. AirOK /\ LoopbackOK /\ QueueOK
  BY DEF Init, AirOK, LoopbackOK, QueueOK
<1>4. Searches
  BY DEF Init, FirstRoutes, Searches, Searching
<1>5. QED
  BY <1>1, <1>2, <1>3, <1>4 DEF IInv

LEMMA ReceiveInv ==
  ASSUME IInv, NEW n, NEW d, Receive(n, d)
  PROVE  IInv'
BY DataInv, ForwardFailsInv, KnownRequestInv, AnswerRequestInv, AnswerForDestinationInv,
   ForwardRequestInv, ReplyArrivesInv, ForwardReplyInv, ReplyAckInv, ReceiveHelloInv,
   ReceiveErrorInv
   DEF Receive

LEMMA NextInv == IInv /\ [Next]_vars => IInv'
<1> SUFFICES ASSUME IInv, [Next]_vars PROVE IInv'
  OBVIOUS
<1>1. ASSUME NEW p \in Packet, SendData(p) PROVE IInv'
  BY <1>1, SendDataInv
<1>2. ASSUME NEW n \in Node, NEW d \in loopback[n], DeferredRouteOutput(n, d) PROVE IInv'
  BY <1>2, DeferredInv
<1>3. ASSUME NEW n \in Node, NEW dst \in Node,
             RunDelayed(n, dst) \/ RouteRequestTimerExpire(n, dst) \/ Expire(n, dst)
      PROVE  IInv'
  BY <1>3, RunDelayedInv, SearchSucceededInv, SearchAgainInv, SearchFailedInv, ExpireInv
     DEF RouteRequestTimerExpire
<1>4. ASSUME NEW n \in Node, RateLimitTimerExpire(n) \/ HelloTimerExpire(n) PROVE IInv'
  BY <1>4, RateLimitInv, HelloInv
<1>5. ASSUME NEW n \in Node, InterfaceDown(n) \/ RemoveAddress(n) PROVE IInv'
  BY <1>5, InterfaceDownInv DEF RemoveAddress
<1>6. ASSUME NEW n \in Node, InterfaceUp(n) \/ AddAddress(n) PROVE IInv'
  BY <1>6, TrafficInv DEF AddAddress
<1>7. ASSUME NEW d \in air, Receive(d.hop, d) PROVE IInv'
  BY <1>7, ReceiveInv
<1>8. ASSUME NEW d \in air, Lose(d) PROVE IInv'
  BY <1>8, TrafficInv
<1>9. ASSUME NEW n \in Node, NEW m \in nb[n], CloseLink(n, m) PROVE IInv'
  BY <1>9, CloseLinkInv
<1>10. CASE Move
  BY <1>10, TrafficInv
<1>11. CASE UNCHANGED vars
  <2>1. Vehicles' /\ Counters' /\ Tables'
    BY <1>11 DEF vars, nodeVars, search, IInv, Vehicles, Counters, Tables
  <2>2. AirOK' /\ LoopbackOK' /\ QueueOK'
    BY <1>11 DEF vars, nodeVars, search, IInv, AirOK, LoopbackOK, QueueOK
  <2>3. Searches'
    BY <1>11 DEF vars, nodeVars, search, IInv, Searches, Awaited
  <2>4. QED
    BY <2>1, <2>2, <2>3 DEF IInv
<1>12. QED
  BY <1>1, <1>2, <1>3, <1>4, <1>5, <1>6, <1>7, <1>8, <1>9, <1>10, <1>11 DEF Next

\* What the theorems below follow from.
THEOREM Invariant == Spec => []IInv
BY InitInv, NextInv, PTL DEF Spec

\* Route discovery keeps to its types in every run: entries lead to vehicles or nowhere,
\* a search never exceeds the network diameter, the rate limits are kept, and what waits
\* at a vehicle is its own.
THEOREM TypeCorrect == Spec => []TypeOK
<1>1. IInv => TypeOK
  <2> SUFFICES ASSUME IInv PROVE TypeOK
    OBVIOUS
  <2>1. links \in Topologies /\ up \subseteq Node /\ htimer \subseteq up /\ bcast \subseteq Node
    BY DEF IInv, Vehicles
  <2>2. ASSUME NEW n \in Node
        PROVE  /\ \A d \in Node : rt[n][d] = Null \/ rt[n][d] \in Entry
               /\ \A d \in Node : rt[n][d] # Null /\ rt[n][d].flag = "IN_SEARCH" => rt[n][d].hop <= NetDiameter
    BY DEF IInv, Tables, TableOK, EntryOK
  <2>3. ASSUME NEW n \in Node
        PROVE  /\ rreqCount[n] <= RreqRateLimit /\ rerrCount[n] <= RerrRateLimit
               /\ nb[n] \subseteq Node \cup {Null} /\ timer[n] \subseteq Node \ {n}
    BY Constants DEF IInv, Vehicles, Counters
  <2>4. ASSUME NEW n \in Node, NEW d \in loopback[n] \cup queue[n]
        PROVE  d.hop = Null /\ d.src = n /\ d.to \in Node \ {n}
    BY DEF IInv, LoopbackOK, QueueOK, WaitingOK
  <2>5. ASSUME NEW d \in air PROVE d.src \in Node /\ d.hop \in Node /\ d.to \in Node \cup {All}
    BY DEF IInv, AirOK, FlyingOK
  <2>6. QED
    BY <2>1, <2>2, <2>3, <2>4, <2>5 DEF TypeOK
<1>2. QED
  BY <1>1, Invariant, PTL

\* No packet is left in a queue that nobody will look at again, however requests,
\* replies, errors, timers and put-off calls interleave (RouteRequestTimerExpire).
THEOREM NeverStranded == Spec => []NoPacketStranded
<1>1. IInv => NoPacketStranded
  BY DEF IInv, Searches, Awaited, NoPacketStranded
<1>2. QED
  BY <1>1, Invariant, PTL

\* No table of any vehicle holds a number its owner has not reached, whatever is lost,
\* reordered or late.
THEOREM NumbersOwned == Spec => []SeqNoOwned
<1>1. IInv => SeqNoOwned
  BY DEF IInv, Tables, TableOK, EntryOK, SeqNoOwned
<1>2. QED
  BY <1>1, Invariant, PTL

\* A valid route always leads to another vehicle, and one of one hop to the destination.
THEOREM RoutesComplete == Spec => []ValidRouteComplete
<1>1. IInv => ValidRouteComplete
  <2> SUFFICES ASSUME IInv, NEW n \in Node, NEW d \in Node, Valid(rt[n], d)
               PROVE  /\ rt[n][d].next \in Node \ {n} /\ rt[n][d].hop > 0
                      /\ rt[n][d].hop = 1 => rt[n][d].next = d
    BY DEF ValidRouteComplete
  <2>1. EntryOK(n, d, rt[n][d], seqNo) /\ rt[n][d].flag = "VALID"
    BY DEF IInv, Tables, TableOK, Valid
  <2>2. rt[n][d].hop \in Nat /\ rt[n][d].next \in Node \cup {Null}
    BY <2>1 DEF EntryOK, Entry
  <2>3. QED
    BY <2>1, <2>2 DEF EntryOK
<1>2. QED
  BY <1>1, Invariant, PTL
=============================================================================
