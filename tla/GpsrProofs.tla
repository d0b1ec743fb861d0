----------------------------- MODULE GpsrProofs -----------------------------
(***************************************************************************)
(* Proofs about Gpsr for any vehicles, packets, positions, layouts, queues  *)
(* and applications: types, packets that wait, choices that come nearer,    *)
(* the cache of losses, the rate of the OnOffApplication.                   *)
(*                                                                          *)
(* First what the operators do: angles around a vehicle are a strict weak   *)
(* order, so the right-hand rule has a first turn; the next hop is nearer;  *)
(* headers survive the wire.  Then the inductive invariant IInv, what the   *)
(* steps have in common, a lemma for every action, and the theorems.        *)
(***************************************************************************)
EXTENDS Gpsr, FilterProofs, FiniteSetTheorems, SequenceTheorems

\* What is said of the interfaces is said of the three variables.
USE DEF iface, IsMyOwnAddress, FindSocketWithInterfaceAddress, IsUp, SetUp, SetDown, AddAddress, RemoveAddress

(***************************************************************************)
(* Positions and angles                                                     *)
(***************************************************************************)

Position == Int \X Int

LEMMA MinusType ==
  ASSUME NEW a \in Position, NEW b \in Position
  PROVE  Minus(a, b) \in Position
BY DEF Position, Minus

LEMMA DistanceType ==
  ASSUME NEW a \in Position, NEW b \in Position
  PROVE  Distance(a, b) \in Nat
<1>1. a[1] - b[1] \in Int /\ a[2] - b[2] \in Int
  BY DEF Position
<1>2. \A x, y \in Int : x * x + y * y \in Nat
  OBVIOUS
<1>3. QED
  BY <1>1, <1>2 DEF Distance, Minus, Dot

\* Seen from the centre: v comes before w when one turns clockwise from r.
FirstHalf(v, r)     == Cross(v, r) > 0 \/ (Cross(v, r) = 0 /\ Dot(v, r) < 0)
Sooner(v, w, r)     == \/ FirstHalf(v, r) /\ ~FirstHalf(w, r)
                       \/ (FirstHalf(v, r) <=> FirstHalf(w, r)) /\ Cross(w, v) > 0
HasDirection(v, r)  == Cross(v, r) # 0 \/ Dot(v, r) < 0

LEMMA CrossDot ==
  ASSUME NEW v \in Position, NEW w \in Position
  PROVE  Cross(v, w) \in Int /\ Dot(v, w) \in Int /\ Cross(w, v) = -Cross(v, w)
<1>1. v[1] \in Int /\ v[2] \in Int /\ w[1] \in Int /\ w[2] \in Int
  BY DEF Position
<1>2. QED
  BY <1>1 DEF Cross, Dot

\* Two identities of plane geometry.
LEMMA Determinants ==
  ASSUME NEW v \in Position, NEW w \in Position, NEW x \in Position, NEW r \in Position
  PROVE  /\ Cross(x, r) * Cross(w, v) = Cross(w, r) * Cross(x, v) + Cross(v, r) * Cross(w, x)
         /\ Cross(w, v) * Dot(r, r) = Cross(w, r) * Dot(v, r) - Dot(w, r) * Cross(v, r)
<1>1. /\ v[1] \in Int /\ v[2] \in Int /\ w[1] \in Int /\ w[2] \in Int
      /\ x[1] \in Int /\ x[2] \in Int /\ r[1] \in Int /\ r[2] \in Int
  BY DEF Position
<1>2. QED
  BY <1>1 DEF Cross, Dot

LEMMA Signs ==
  ASSUME NEW a \in Int, NEW b \in Int
  PROVE  /\ a > 0 /\ b > 0 => a * b > 0
         /\ a >= 0 /\ b >= 0 => a * b >= 0
         /\ a <= 0 /\ b <= 0 => a * b >= 0
         /\ a < 0 /\ b < 0 => a * b > 0
         /\ a < 0 /\ b > 0 => a * b < 0
         /\ a >= 0 /\ b <= 0 => a * b <= 0
         /\ a <= 0 /\ b >= 0 => a * b <= 0
OBVIOUS

\* What comes after v and not after w is not between them: turning is a weak order.
LEMMA Turning ==
  ASSUME NEW v \in Position, NEW w \in Position, NEW x \in Position, NEW r \in Position,
         HasDirection(x, r), Sooner(v, w, r)
  PROVE  ~Sooner(w, v, r) /\ (Sooner(v, x, r) \/ Sooner(x, w, r))
<1> DEFINE cv == Cross(v, r)  cw == Cross(w, r)  cx == Cross(x, r)
           dv == Dot(v, r)  dw == Dot(w, r)  dx == Dot(x, r)  rr == Dot(r, r)
           wv == Cross(w, v)  xv == Cross(x, v)  wx == Cross(w, x)
<1>1. /\ cv \in Int /\ cw \in Int /\ cx \in Int /\ dv \in Int /\ dw \in Int /\ dx \in Int
      /\ rr \in Int /\ wv \in Int /\ xv \in Int /\ wx \in Int
  BY CrossDot
<1>2. cx * wv = cw * xv + cv * wx
  BY Determinants
<1>3. wv * rr = cw * dv - dw * cv
  BY Determinants
<1>4. xv * rr = cx * dv - dx * cv
  BY Determinants
<1>5. rr >= 0
  <2>1. \A a, b \in Int : a * a + b * b >= 0
    OBVIOUS
  <2>2. r[1] \in Int /\ r[2] \in Int
    BY DEF Position
  <2>3. QED
    BY <2>1, <2>2 DEF Dot
<1>6. rr = 0 => dx = 0
  <2>1. \A a, b \in Int : a * a + b * b = 0 => a = 0 /\ b = 0
    <3>1. \A a \in Int : a * a >= 0 /\ (a * a = 0 => a = 0) /\ a * a \in Int
      OBVIOUS
    <3>2. QED
      BY <3>1
  <2>2. r[1] \in Int /\ r[2] \in Int /\ x[1] \in Int /\ x[2] \in Int
    BY DEF Position
  <2>3. rr = 0 => r[1] = 0 /\ r[2] = 0
    BY <2>1, <2>2 DEF Dot
  <2>4. \A a, b, c, d \in Int : c = 0 /\ d = 0 => a * c + b * d = 0
    OBVIOUS
  <2>5. rr = 0 => x[1] * r[1] + x[2] * r[2] = 0
    BY <2>2, <2>3, <2>4
  <2>6. QED
    BY <2>5 DEF Dot
<1>7. ~Sooner(w, v, r)
  <2>1. Cross(v, w) = -Cross(w, v) /\ Cross(w, v) \in Int
    BY CrossDot
  <2>2. QED
    BY <2>1 DEF Sooner
<1>8. CASE ~(FirstHalf(v, r) <=> FirstHalf(w, r))
  BY <1>1, <1>7, <1>8 DEF Sooner, FirstHalf
<1>9. CASE (FirstHalf(v, r) <=> FirstHalf(w, r)) /\ ~(FirstHalf(v, r) <=> FirstHalf(x, r))
  BY <1>1, <1>7, <1>9 DEF Sooner, FirstHalf
<1>10. CASE (FirstHalf(v, r) <=> FirstHalf(w, r)) /\ (FirstHalf(v, r) <=> FirstHalf(x, r))
  <2>1. wv > 0
    BY <1>10 DEF Sooner
  <2> SUFFICES ASSUME xv <= 0, wx <= 0 PROVE FALSE
    BY <1>1, <1>7, <1>10 DEF Sooner, FirstHalf
  <2>2. CASE ~FirstHalf(v, r)
    <3>1. cv <= 0 /\ cw <= 0 /\ cx < 0
      BY <1>1, <1>10, <2>2 DEF FirstHalf, HasDirection
    <3> HIDE DEF cv, cw, cx, wv, xv, wx
    <3>2. cx * wv < 0
      BY <1>1, <2>1, <3>1, Signs
    <3>3. cw * xv >= 0 /\ cv * wx >= 0 /\ cw * xv \in Int /\ cv * wx \in Int
      BY <1>1, <3>1, Signs
    <3>4. QED
      BY <1>2, <3>2, <3>3
  <2>3. CASE FirstHalf(v, r)
    <3>1. cv >= 0 /\ cw >= 0 /\ cx >= 0 /\ (cx = 0 => dx < 0) /\ (cv = 0 => dv < 0)
      BY <1>1, <1>10, <2>3 DEF FirstHalf
    <3> HIDE DEF cv, cw, cx, dv, dw, dx, wv, xv, wx, rr
    <3>2. cw * xv <= 0 /\ cv * wx <= 0 /\ cw * xv \in Int /\ cv * wx \in Int
      BY <1>1, <3>1, Signs
    <3>3. cx = 0
      <4>1. cx > 0 => cx * wv > 0
        BY <1>1, <2>1, Signs
      <4>2. QED
        BY <1>1, <1>2, <3>1, <3>2, <4>1
    <3>4. dx < 0 /\ rr > 0
      BY <1>1, <1>5, <1>6, <3>1, <3>3
    <3>5. xv * rr <= 0 /\ wv * rr > 0 /\ xv * rr \in Int /\ wv * rr \in Int
      BY <1>1, <2>1, <3>4, Signs
    <3>6. cv = 0
      <4>1. cx * dv = 0
        BY <1>1, <3>3
      <4>2. cv > 0 => dx * cv < 0
        BY <1>1, <3>4, Signs
      <4>3. dx * cv \in Int
        BY <1>1
      <4>4. QED
        BY <1>1, <1>4, <3>1, <3>5, <4>1, <4>2, <4>3
    <3>7. cw * dv <= 0 /\ cw * dv \in Int /\ dw * cv = 0
      BY <1>1, <3>1, <3>6, Signs
    <3>8. QED
      BY <1>3, <3>5, <3>7
  <2>4. QED
    BY <2>2, <2>3
<1>11. QED
  BY <1>7, <1>8, <1>9, <1>10

-----------------------------------------------------------------------------
\* A finite set that is totally ordered has a first element.
LEMMA FirstOf ==
  ASSUME NEW T, IsFiniteSet(T), T # {}, NEW R,
         \A a \in T : <<a, a>> \notin R,
         \A a, b \in T : a # b => <<a, b>> \in R \/ <<b, a>> \in R,
         \A a, b, c \in T : <<a, b>> \in R /\ <<b, c>> \in R => <<a, c>> \in R
  PROVE  \E m \in T : \A o \in T \ {m} : <<m, o>> \in R
<1> DEFINE Below(m) == {o \in T : <<o, m>> \in R}
           Sizes == {Cardinality(Below(m)) : m \in T}
<1>1. \A m \in T : IsFiniteSet(Below(m)) /\ Cardinality(Below(m)) \in Nat
  <2> TAKE m \in T
  <2>1. Below(m) \in SUBSET T
    OBVIOUS
  <2>2. IsFiniteSet(Below(m))
    BY <2>1, FS_Subset
  <2>3. QED
    BY <2>2, FS_CardinalityType
<1>2. Sizes \in SUBSET Nat /\ Sizes # {}
  <2> HIDE DEF Below
  <2>1. QED
    BY <1>1
<1>3. PICK least \in Sizes : \A k \in Sizes : least <= k
  <2> HIDE DEF Sizes
  <2>1. QED
    BY <1>2, Least
<1>4. PICK m \in T : least = Cardinality(Below(m))
  OBVIOUS
<1>5. ASSUME NEW o \in T \ {m} PROVE <<m, o>> \in R
  <2> SUFFICES ASSUME <<m, o>> \notin R PROVE FALSE
    OBVIOUS
  <2>1. <<o, m>> \in R
    OBVIOUS
  <2>2. Below(o) \subseteq Below(m)
    BY <2>1
  <2>3. o \in Below(m) /\ o \notin Below(o)
    BY <2>1
  <2> HIDE DEF Below
  <2>4. Cardinality(Below(o)) <= Cardinality(Below(m)) /\ Cardinality(Below(o)) # Cardinality(Below(m))
    BY <1>1, <2>2, <2>3, FS_Subset
  <2>5. Cardinality(Below(m)) <= Cardinality(Below(o))
    BY <1>3, <1>4
  <2>6. QED
    BY <1>1, <2>4, <2>5
<1>6. QED
  BY <1>5

-----------------------------------------------------------------------------
(***************************************************************************)
(* The position table                                                       *)
(***************************************************************************)

Entry == [pos : Position, old : BOOLEAN]

\* The tables that vehicle n may have.
TablesOf(n) == {t \in [Node -> {None} \cup Entry] : t[n] = None}

LEMMA Addresses ==
  /\ Node \subseteq Nat \ {0} /\ IsFiniteSet(Node)
  /\ \A p \in Packet : Src[p] \in Node /\ Dst[p] \in Node /\ Src[p] # Dst[p]
  /\ Layouts \subseteq [Node -> Position]
  /\ Ttl \in Nat \ {0} /\ MaxQueueLen \in Nat \ {0} /\ MaxEvents \in Nat
BY GpsrAssumption DEF GpsrAssumption, Position

\* What a packet's place may be, all told apart.
LEMMA PlacesDiffer ==
  /\ None \notin Node /\ Fresh \notin Node /\ Loopback \notin Node /\ Queued \notin Node
  /\ Delivered \notin Node /\ Lost \notin Node /\ GivenUp \notin Node
  /\ None # Fresh /\ None # Loopback /\ None # Queued
  /\ Fresh # Loopback /\ Fresh # Queued /\ Loopback # Queued
  /\ Fresh \notin Outcomes /\ Loopback \notin Outcomes /\ Queued \notin Outcomes
<1> DEFINE s == <<None, Fresh, Loopback, Queued, Delivered, Lost, GivenUp>>
<1>1. \A i, j \in 1 .. 7 : s[i] = s[j] => i = j
  BY GpsrAssumption DEF GpsrAssumption, IsInjective
<1>2. /\ s[1] = None /\ s[2] = Fresh /\ s[3] = Loopback /\ s[4] = Queued
      /\ s[5] = Delivered /\ s[6] = Lost /\ s[7] = GivenUp
  OBVIOUS
<1>3. {None, Fresh, Loopback, Queued, Delivered, Lost, GivenUp} \cap Node = {}
  BY GpsrAssumption DEF GpsrAssumption
<1> HIDE DEF s
<1>4. /\ None # Fresh /\ None # Loopback /\ None # Queued
      /\ Fresh # Loopback /\ Fresh # Queued /\ Loopback # Queued
      /\ Fresh # Delivered /\ Fresh # Lost /\ Fresh # GivenUp
      /\ Loopback # Delivered /\ Loopback # Lost /\ Loopback # GivenUp
      /\ Queued # Delivered /\ Queued # Lost /\ Queued # GivenUp
  BY <1>1, <1>2
<1>5. QED
  BY <1>3, <1>4 DEF Outcomes

LEMMA Neighbours ==
  ASSUME NEW n \in Node, NEW t \in TablesOf(n), NEW m \in Neighbors(t)
  PROVE  m \in Node /\ m # n /\ m \in Nat /\ t[m] \in Entry /\ t[m].pos \in Position
<1>1. m \in Node /\ t[m] # None /\ t \in [Node -> {None} \cup Entry] /\ t[n] = None
  BY DEF Neighbors, TablesOf
<1>2. t[m] \in Entry
  BY <1>1
<1>3. t[m].pos \in Position
  BY <1>2 DEF Entry
<1>4. QED
  BY <1>1, <1>2, <1>3, Addresses

LEMMA PurgeType ==
  ASSUME NEW n \in Node, NEW t \in TablesOf(n)
  PROVE  /\ Purge(t) \in TablesOf(n)
         /\ \A m \in Neighbors(Purge(t)) : m \in Neighbors(t) /\ Purge(t)[m] = t[m]
BY DEF Purge, TablesOf, Neighbors

\* The least address of a set of vehicles.
LEMMA LeastAddress ==
  ASSUME NEW S \in SUBSET Node, S # {}
  PROVE  Min(S) \in S
<1>1. S \in SUBSET Nat
  BY Addresses
<1>2. \E m \in S : \A k \in S : m <= k
  BY <1>1, Least
<1>3. QED
  BY <1>2 DEF Min

\* The best neighbour is a neighbour and nearer than the vehicle itself.
LEMMA BestIsNearer ==
  ASSUME NEW n \in Node, NEW t \in TablesOf(n), NEW position \in Position, NEW nodePos \in Position,
         NEW hop, hop = BestNeighbor(t, position, nodePos), hop # None
  PROVE  hop \in Neighbors(t) /\ Distance(t[hop].pos, position) < Distance(nodePos, position)
<1> DEFINE d(m) == Distance(t[m].pos, position)
           nearest == {m \in Neighbors(t) : \A o \in Neighbors(t) : d(m) <= d(o)}
<1>1. hop = IF nearest = {} THEN None
            ELSE IF d(Min(nearest)) < Distance(nodePos, position) THEN Min(nearest) ELSE None
  BY DEF BestNeighbor
<1>2. nearest \in SUBSET Node
  BY DEF Neighbors
<1>3. nearest # {} => Min(nearest) \in nearest
  <2> HIDE DEF nearest
  <2>1. QED
    BY <1>2, LeastAddress
<1>4. hop \in nearest /\ d(hop) < Distance(nodePos, position)
  BY <1>1, <1>3
<1>5. QED
  BY <1>4

\* The next hop is another vehicle: the destination or one that is nearer to it.
LEMMA NextHopIsNearer ==
  ASSUME NEW n \in Node, pos \in Layouts, NEW t \in TablesOf(n), NEW d \in Node, d # n,
         NEW position \in Position, NEW hop, hop = NextHop(n, t, d, position), hop # None
  PROVE  /\ hop \in Neighbors(t) /\ hop \in Node \ {n}
         /\ hop # d => Distance(t[hop].pos, position) < Distance(pos[n], position)
<1>1. pos[n] \in Position
  BY Addresses
<1>2. (hop = d /\ d \in Neighbors(t)) \/ hop = BestNeighbor(t, position, pos[n])
  BY DEF NextHop, IsNeighbour, Neighbors
<1>3. CASE hop = d /\ d \in Neighbors(t)
  BY <1>3
<1>4. CASE hop = BestNeighbor(t, position, pos[n])
  <2>1. hop \in Neighbors(t) /\ Distance(t[hop].pos, position) < Distance(pos[n], position)
    BY <1>1, <1>4, BestIsNearer
  <2>2. QED
    BY <2>1, Neighbours
<1>5. QED
  BY <1>2, <1>3, <1>4

\* Among neighbours that have an angle there is a first one.
LEMMA FirstTurnExists ==
  ASSUME NEW n \in Node, NEW t \in TablesOf(n), NEW turns \in SUBSET Neighbors(t), turns # {},
         NEW previousHop \in Position, NEW nodePos \in Position,
         \A m \in turns : HasAngle(nodePos, previousHop, t[m].pos)
  PROVE  FirstTurn(t, turns, previousHop, nodePos) \in turns
<1> DEFINE r == Minus(previousHop, nodePos)
           v(m) == Minus(t[m].pos, nodePos)
           Smaller(a, b) == SmallerAngle(nodePos, previousHop, t[a].pos, t[b].pos)
           R == {e \in turns \X turns : \/ Smaller(e[1], e[2])
                                        \/ e[1] < e[2] /\ ~Smaller(e[2], e[1])}
<1>1. r \in Position /\ \A m \in turns : v(m) \in Position /\ m \in Nat
  BY MinusType, Neighbours
<1>2. \A a, b \in turns : Smaller(a, b) <=> Sooner(v(a), v(b), r)
  BY DEF SmallerAngle, Sooner, FirstHalf
<1>3. \A a \in turns : HasDirection(v(a), r)
  BY DEF HasAngle, HasDirection
<1> HIDE DEF r, v
<1>4. \A a, b, c \in turns : Smaller(a, b) => ~Smaller(b, a) /\ (Smaller(a, c) \/ Smaller(c, b))
  <2> TAKE a, b, c \in turns
  <2>1. Sooner(v(a), v(b), r) => ~Sooner(v(b), v(a), r) /\ (Sooner(v(a), v(c), r) \/ Sooner(v(c), v(b), r))
    BY <1>1, <1>3, Turning
  <2>2. QED
    BY <1>2, <2>1
<1> HIDE DEF Smaller
<1>5. IsFiniteSet(turns)
  <2>1. turns \in SUBSET Node
    BY DEF Neighbors
  <2>2. QED
    BY <2>1, FS_Subset, Addresses
<1>6. \A a, b \in turns : <<a, b>> \in R <=> Smaller(a, b) \/ (a < b /\ ~Smaller(b, a))
  OBVIOUS
<1> HIDE DEF R
<1>7. \A a \in turns : <<a, a>> \notin R
  BY <1>1, <1>4, <1>6
<1>8. \A a, b \in turns : a # b => <<a, b>> \in R \/ <<b, a>> \in R
  BY <1>1, <1>6
<1>9. \A a, b, c \in turns : <<a, b>> \in R /\ <<b, c>> \in R => <<a, c>> \in R
  BY <1>1, <1>4, <1>6
<1>10. PICK m \in turns : \A o \in turns \ {m} : <<m, o>> \in R
  BY <1>5, <1>7, <1>8, <1>9, FirstOf
<1>11. \A o \in turns \ {m} : Smaller(m, o) \/ (m < o /\ ~Smaller(o, m))
  BY <1>6, <1>10
<1>12. FirstTurn(t, turns, previousHop, nodePos) =
         CHOOSE k \in turns : \A o \in turns \ {k} : Smaller(k, o) \/ (k < o /\ ~Smaller(o, k))
  BY DEF FirstTurn, Smaller
<1>13. QED
  BY <1>11, <1>12

\* The right-hand rule names a neighbour unless there is none.
LEMMA BestAngleIsNeighbour ==
  ASSUME NEW n \in Node, NEW t \in TablesOf(n), NEW previousHop \in Position, NEW nodePos \in Position
  PROVE  /\ BestAngle(t, previousHop, nodePos) \in Neighbors(t) \cup {None}
         /\ BestAngle(t, previousHop, nodePos) = None => Neighbors(t) = {}
<1> DEFINE turns == Turns(t, previousHop, nodePos)
<1>1. /\ turns \in SUBSET Neighbors(t) /\ Neighbors(t) \in SUBSET Node
      /\ \A m \in turns : HasAngle(nodePos, previousHop, t[m].pos)
  BY DEF Turns, RngPlanarize, Neighbors
<1>2. BestAngle(t, previousHop, nodePos) =
        CASE turns # {}                       -> FirstTurn(t, turns, previousHop, nodePos)
          [] turns = {} /\ Neighbors(t) # {}  -> Min(Neighbors(t))
          [] Neighbors(t) = {}                -> None
  BY DEF BestAngle
<1> HIDE DEF turns
<1>3. CASE turns # {}
  <2>1. FirstTurn(t, turns, previousHop, nodePos) \in turns
    BY <1>1, <1>3, FirstTurnExists
  <2>2. BestAngle(t, previousHop, nodePos) = FirstTurn(t, turns, previousHop, nodePos)
    BY <1>1, <1>2, <1>3
  <2>3. QED
    BY <1>1, <2>1, <2>2, Neighbours, PlacesDiffer
<1>4. CASE turns = {} /\ Neighbors(t) # {}
  <2>1. Min(Neighbors(t)) \in Neighbors(t)
    BY <1>1, <1>4, LeastAddress
  <2>2. BestAngle(t, previousHop, nodePos) = Min(Neighbors(t))
    BY <1>2, <1>4
  <2>3. QED
    BY <2>1, <2>2, Neighbours, PlacesDiffer
<1>5. CASE turns = {} /\ Neighbors(t) = {}
  BY <1>2, <1>5
<1>6. QED
  BY <1>3, <1>4, <1>5

-----------------------------------------------------------------------------
(***************************************************************************)
(* Headers and packets                                                      *)
(***************************************************************************)

Header == [src : Position, dst : Position, updated : {Earlier, ThisSecond}, rec : Position,
           inRec : BOOLEAN, last : Position]

PlacesOfPackets == Node \cup Outcomes \cup {Fresh, Loopback, Queued}

PacketState == [place : PlacesOfPackets, ttl : 0 .. Ttl, chose : Seq(Node), hdr : Header]

LEMMA OriginType == Origin \in Position
BY DEF Origin, Position

LEMMA HeaderFields ==
  ASSUME NEW h \in Header
  PROVE  /\ h.src \in Position /\ h.dst \in Position /\ h.rec \in Position /\ h.last \in Position
         /\ h.updated \in {Earlier, ThisSecond} /\ h.inRec \in BOOLEAN
BY DEF Header

LEMMA HeaderType ==
  ASSUME NEW src \in Position, NEW dst \in Position, NEW updated \in {Earlier, ThisSecond},
         NEW rec \in Position, NEW inRec \in BOOLEAN, NEW last \in Position
  PROVE  PositionHeader(src, dst, updated, rec, inRec, last) \in Header
BY DEF PositionHeader, Header

LEMMA PacketFields ==
  ASSUME NEW r \in PacketState
  PROVE  /\ r.place \in PlacesOfPackets /\ r.ttl \in 0 .. Ttl /\ r.ttl \in Nat
         /\ r.chose \in Seq(Node) /\ r.hdr \in Header
         /\ r = [place |-> r.place, ttl |-> r.ttl, chose |-> r.chose, hdr |-> r.hdr]
BY Addresses DEF PacketState

\* A pair is a sequence of two numbers.
LEMMA Pair ==
  ASSUME NEW v \in Position
  PROVE  v \in Seq(Int) /\ Len(v) = 2 /\ v[1] \in Int /\ v[2] \in Int /\ v = <<v[1], v[2]>>
<1>1. v = <<v[1], v[2]>> /\ v[1] \in Int /\ v[2] \in Int
  BY DEF Position
<1>2. <<v[1], v[2]>> \in Seq(Int) /\ Len(<<v[1], v[2]>>) = 2
  BY <1>1
<1>3. QED
  BY <1>1, <1>2

\* A header on the wire: n numbers.
IsWire(s, n) == s \in Seq(Int) /\ Len(s) = n /\ n \in Nat

\* w is the n numbers of s with the k of v behind them.
Follows(w, s, n, v, k) ==
  /\ IsWire(w, n + k)
  /\ \A i \in 1 .. n : w[i] = s[i]
  /\ \A i \in 1 .. k : w[n + i] = v[i]

LEMMA AppendNumbers ==
  ASSUME NEW s, NEW n, IsWire(s, n), NEW v, NEW k, IsWire(v, k)
  PROVE  Follows(s \o v, s, n, v, k)
<1>1. s \in Seq(Int) /\ Len(s) = n /\ n \in Nat /\ v \in Seq(Int) /\ Len(v) = k /\ k \in Nat
  BY DEF IsWire
<1>2. /\ s \o v \in Seq(Int) /\ Len(s \o v) = Len(s) + Len(v)
      /\ \A i \in 1 .. Len(s) + Len(v) : (s \o v)[i] = IF i <= Len(s) THEN s[i] ELSE v[i - Len(s)]
  BY <1>1, ConcatProperties
<1> DEFINE w == s \o v
<1>3. IsWire(w, n + k)
  BY <1>1, <1>2 DEF IsWire
<1>4. \A i \in 1 .. n + k : w[i] = IF i <= n THEN s[i] ELSE v[i - n]
  BY <1>1, <1>2
<1> HIDE DEF w
<1>5. ASSUME NEW i \in 1 .. n PROVE w[i] = s[i]
  <2>1. i \in 1 .. n + k /\ i <= n
    BY <1>1
  <2>2. QED
    BY <1>4, <2>1
<1>6. ASSUME NEW i \in 1 .. k PROVE w[n + i] = v[i]
  <2>1. n + i \in 1 .. n + k /\ ~(n + i <= n) /\ (n + i) - n = i
    BY <1>1
  <2>2. QED
    BY <1>4, <2>1
<1>7. QED
  BY <1>3, <1>5, <1>6 DEF w, Follows

LEMMA WirePair ==
  ASSUME NEW v \in Position
  PROVE  IsWire(v, 2)
BY Pair DEF IsWire

LEMMA WireNumber ==
  ASSUME NEW k \in Int
  PROVE  IsWire(<<k>>, 1) /\ <<k>>[1] = k
BY DEF IsWire

LEMMA TailOf ==
  ASSUME NEW s, NEW n \in Nat, IsWire(s, n + 1)
  PROVE  \A i \in 1 .. n : Tail(s)[i] = s[i + 1]
<1>1. s \in Seq(Int) /\ Len(s) = n + 1
  BY DEF IsWire
<1>2. s # <<>>
  <2>1. Len(<<>>) = 0
    OBVIOUS
  <2>2. QED
    BY <1>1, <2>1
<1>3. Len(Tail(s)) = Len(s) - 1 /\ \A i \in 1 .. Len(Tail(s)) : Tail(s)[i] = s[i + 1]
  BY <1>1, <1>2, HeadTailProperties
<1>4. QED
  BY <1>1, <1>3

\* What the receiver reads of a position header is what the sender wrote.
LEMMA HeaderSurvives ==
  ASSUME NEW h \in Header
  PROVE  DeserializePosition(Tail(SerializePosition(h))) = h
<1> DEFINE flag == IF h.inRec THEN 1 ELSE 0
           w0 == SerializeType("pos")
           w1 == w0 \o h.src
           w2 == w1 \o h.dst
           w3 == w2 \o <<h.updated>>
           w4 == w3 \o h.rec
           w5 == w4 \o <<flag>>
           w6 == w5 \o h.last
           wire == Tail(w6)
<1>1. h.updated \in Int /\ flag \in Int /\ (flag # 0 <=> h.inRec)
  BY HeaderFields DEF Earlier, ThisSecond
<1>2. SerializePosition(h) = w6
  BY DEF SerializePosition
<1> HIDE DEF flag
<1>20. /\ IsWire(h.src, 2) /\ IsWire(h.dst, 2) /\ IsWire(h.rec, 2) /\ IsWire(h.last, 2)
      /\ IsWire(<<h.updated>>, 1) /\ IsWire(<<flag>>, 1)
  BY <1>1, HeaderFields, WirePair, WireNumber
<1>3. IsWire(w0, 1)
  BY WireNumber DEF SerializeType, MessageTypes
<1> HIDE DEF w0
<1>4. /\ IsWire(w1, 3)
      /\ \A i \in 1 .. 1 : w1[i] = w0[i]
      /\ \A i \in 1 .. 2 : w1[1 + i] = h.src[i]
  <2>1. Follows(w0 \o h.src, w0, 1, h.src, 2)
    BY <1>3, <1>20, AppendNumbers
  <2>2. /\ IsWire(w0 \o h.src, 1 + 2)
        /\ \A i \in 1 .. 1 : (w0 \o h.src)[i] = w0[i]
        /\ \A i \in 1 .. 2 : (w0 \o h.src)[1 + i] = h.src[i]
    BY <2>1 DEF Follows
  <2>3. 1 + 2 = 3
    OBVIOUS
  <2>4. QED
    BY <2>2, <2>3
<1> HIDE DEF w1
<1>5. /\ IsWire(w2, 5)
      /\ \A i \in 1 .. 3 : w2[i] = w1[i]
      /\ \A i \in 1 .. 2 : w2[3 + i] = h.dst[i]
  <2>1. Follows(w1 \o h.dst, w1, 3, h.dst, 2)
    BY <1>4, <1>20, AppendNumbers
  <2>2. /\ IsWire(w1 \o h.dst, 3 + 2)
        /\ \A i \in 1 .. 3 : (w1 \o h.dst)[i] = w1[i]
        /\ \A i \in 1 .. 2 : (w1 \o h.dst)[3 + i] = h.dst[i]
    BY <2>1 DEF Follows
  <2>3. 3 + 2 = 5
    OBVIOUS
  <2>4. QED
    BY <2>2, <2>3
<1> HIDE DEF w2
<1>6. /\ IsWire(w3, 6)
      /\ \A i \in 1 .. 5 : w3[i] = w2[i]
      /\ \A i \in 1 .. 1 : w3[5 + i] = <<h.updated>>[i]
  <2>1. Follows(w2 \o <<h.updated>>, w2, 5, <<h.updated>>, 1)
    BY <1>5, <1>20, AppendNumbers
  <2>2. /\ IsWire(w2 \o <<h.updated>>, 5 + 1)
        /\ \A i \in 1 .. 5 : (w2 \o <<h.updated>>)[i] = w2[i]
        /\ \A i \in 1 .. 1 : (w2 \o <<h.updated>>)[5 + i] = <<h.updated>>[i]
    BY <2>1 DEF Follows
  <2>3. 5 + 1 = 6
    OBVIOUS
  <2>4. QED
    BY <2>2, <2>3
<1> HIDE DEF w3
<1>7. /\ IsWire(w4, 8)
      /\ \A i \in 1 .. 6 : w4[i] = w3[i]
      /\ \A i \in 1 .. 2 : w4[6 + i] = h.rec[i]
  <2>1. Follows(w3 \o h.rec, w3, 6, h.rec, 2)
    BY <1>6, <1>20, AppendNumbers
  <2>2. /\ IsWire(w3 \o h.rec, 6 + 2)
        /\ \A i \in 1 .. 6 : (w3 \o h.rec)[i] = w3[i]
        /\ \A i \in 1 .. 2 : (w3 \o h.rec)[6 + i] = h.rec[i]
    BY <2>1 DEF Follows
  <2>3. 6 + 2 = 8
    OBVIOUS
  <2>4. QED
    BY <2>2, <2>3
<1> HIDE DEF w4
<1>8. /\ IsWire(w5, 9)
      /\ \A i \in 1 .. 8 : w5[i] = w4[i]
      /\ \A i \in 1 .. 1 : w5[8 + i] = <<flag>>[i]
  <2>1. Follows(w4 \o <<flag>>, w4, 8, <<flag>>, 1)
    BY <1>7, <1>20, AppendNumbers
  <2>2. /\ IsWire(w4 \o <<flag>>, 8 + 1)
        /\ \A i \in 1 .. 8 : (w4 \o <<flag>>)[i] = w4[i]
        /\ \A i \in 1 .. 1 : (w4 \o <<flag>>)[8 + i] = <<flag>>[i]
    BY <2>1 DEF Follows
  <2>3. 8 + 1 = 9
    OBVIOUS
  <2>4. QED
    BY <2>2, <2>3
<1> HIDE DEF w5
<1>9. /\ IsWire(w6, 11)
      /\ \A i \in 1 .. 9 : w6[i] = w5[i]
      /\ \A i \in 1 .. 2 : w6[9 + i] = h.last[i]
  <2>1. Follows(w5 \o h.last, w5, 9, h.last, 2)
    BY <1>8, <1>20, AppendNumbers
  <2>2. /\ IsWire(w5 \o h.last, 9 + 2)
        /\ \A i \in 1 .. 9 : (w5 \o h.last)[i] = w5[i]
        /\ \A i \in 1 .. 2 : (w5 \o h.last)[9 + i] = h.last[i]
    BY <2>1 DEF Follows
  <2>3. 9 + 2 = 11
    OBVIOUS
  <2>4. QED
    BY <2>2, <2>3
<1> HIDE DEF w6
<1>10. \A i \in 1 .. 10 : wire[i] = w6[i + 1]
  <2>1. IsWire(w6, 10 + 1)
    BY <1>9
  <2>2. QED
    BY <2>1, TailOf
<1> HIDE DEF wire
<1>11. /\ wire[1] = h.src[1] /\ wire[2] = h.src[2] /\ wire[3] = h.dst[1] /\ wire[4] = h.dst[2]
       /\ wire[5] = h.updated /\ wire[6] = h.rec[1] /\ wire[7] = h.rec[2] /\ wire[8] = flag
       /\ wire[9] = h.last[1] /\ wire[10] = h.last[2]
  <2>1. w1[2] = h.src[1] /\ w1[3] = h.src[2]
    <3>1. w1[1 + 1] = h.src[1] /\ w1[1 + 2] = h.src[2]
      BY <1>4
    <3>2. QED
      BY <3>1
  <2>2. w2[2] = h.src[1] /\ w2[3] = h.src[2] /\ w2[4] = h.dst[1] /\ w2[5] = h.dst[2]
    <3>1. w2[2] = w1[2] /\ w2[3] = w1[3] /\ w2[3 + 1] = h.dst[1] /\ w2[3 + 2] = h.dst[2]
      BY <1>5
    <3>2. QED
      BY <2>1, <3>1
  <2>3. w3[2] = w2[2] /\ w3[3] = w2[3] /\ w3[4] = w2[4] /\ w3[5] = w2[5] /\ w3[6] = h.updated
    <3>1. w3[5 + 1] = <<h.updated>>[1]
      BY <1>6
    <3>2. QED
      BY <1>1, <1>6, <3>1, WireNumber
  <2>4. \A i \in 2 .. 6 : w4[i] = w3[i]
    BY <1>7
  <2>5. w4[7] = h.rec[1] /\ w4[8] = h.rec[2]
    <3>1. w4[6 + 1] = h.rec[1] /\ w4[6 + 2] = h.rec[2]
      BY <1>7
    <3>2. QED
      BY <3>1
  <2>6. (\A i \in 2 .. 8 : w5[i] = w4[i]) /\ w5[9] = flag
    <3>1. w5[8 + 1] = <<flag>>[1]
      BY <1>8
    <3>2. QED
      BY <1>1, <1>8, <3>1, WireNumber
  <2>7. (\A i \in 2 .. 9 : w6[i] = w5[i]) /\ w6[10] = h.last[1] /\ w6[11] = h.last[2]
    <3>1. w6[9 + 1] = h.last[1] /\ w6[9 + 2] = h.last[2]
      BY <1>9
    <3>2. QED
      BY <1>9, <3>1
  <2>8. /\ w6[2] = h.src[1] /\ w6[3] = h.src[2] /\ w6[4] = h.dst[1] /\ w6[5] = h.dst[2]
        /\ w6[6] = h.updated /\ w6[7] = h.rec[1] /\ w6[8] = h.rec[2] /\ w6[9] = flag
    BY <2>2, <2>3, <2>4, <2>5, <2>6, <2>7
  <2>9. /\ wire[1] = w6[2] /\ wire[2] = w6[3] /\ wire[3] = w6[4] /\ wire[4] = w6[5]
        /\ wire[5] = w6[6] /\ wire[6] = w6[7] /\ wire[7] = w6[8] /\ wire[8] = w6[9]
        /\ wire[9] = w6[10] /\ wire[10] = w6[11]
    BY <1>10
  <2>10. QED
    BY <2>7, <2>8, <2>9
<1>12. DeserializePosition(wire) = PositionHeader(h.src, h.dst, h.updated, h.rec, h.inRec, h.last)
  <2>1. \A v \in Position : <<v[1], v[2]>> = v
    BY DEF Position
  <2>2. (wire[8] # 0) = h.inRec
    <3>1. h.inRec \in BOOLEAN
      BY HeaderFields
    <3>2. CASE h.inRec
      BY <1>1, <1>11, <3>2
    <3>3. CASE ~h.inRec
      BY <1>1, <1>11, <3>1, <3>3
    <3>4. QED
      BY <3>2, <3>3
  <2>3. /\ <<wire[1], wire[2]>> = h.src /\ <<wire[3], wire[4]>> = h.dst
        /\ <<wire[6], wire[7]>> = h.rec /\ <<wire[9], wire[10]>> = h.last
    BY <1>11, <2>1, HeaderFields
  <2>4. QED
    BY <1>11, <2>2, <2>3 DEF DeserializePosition
<1>13. PositionHeader(h.src, h.dst, h.updated, h.rec, h.inRec, h.last) = h
  BY DEF PositionHeader, Header
<1>14. QED
  BY <1>2, <1>12, <1>13 DEF wire

\* And of a hello.
LEMMA HelloSurvives ==
  ASSUME NEW position \in Position
  PROVE  DeserializeHello(Tail(SerializeHello(position))) = position
<1> DEFINE w == SerializeType("hello") \o position
<1>1. IsWire(SerializeType("hello"), 1)
  BY WireNumber DEF SerializeType, MessageTypes
<1>2. Follows(w, SerializeType("hello"), 1, position, 2)
  BY <1>1, WirePair, AppendNumbers
<1> HIDE DEF w
<1>3. Tail(w)[1] = position[1] /\ Tail(w)[2] = position[2]
  <2>1. IsWire(w, 2 + 1)
    BY <1>2 DEF Follows
  <2>2. \A i \in 1 .. 2 : Tail(w)[i] = w[i + 1]
    BY <2>1, TailOf
  <2>3. Tail(w)[1] = w[1 + 1] /\ Tail(w)[2] = w[2 + 1]
    <3>1. 1 \in 1 .. 2 /\ 2 \in 1 .. 2
      OBVIOUS
    <3>2. QED
      BY <2>2, <3>1
  <2>4. w[1 + 1] = position[1] /\ w[1 + 2] = position[2] /\ 1 + 2 = 2 + 1
    BY <1>2 DEF Follows
  <2>5. QED
    BY <2>3, <2>4
<1>4. <<position[1], position[2]>> = position
  BY DEF Position
<1>5. QED
  BY <1>3, <1>4 DEF DeserializeHello, SerializeHello, w

LEMMA ReceivedIsSent ==
  ASSUME NEW r \in PacketState
  PROVE  Received(r) = r
<1> DEFINE h == DeserializePosition(Tail(SerializePosition(r.hdr)))
<1>1. h = r.hdr
  BY PacketFields, HeaderSurvives
<1> HIDE DEF h
<1>2. [r EXCEPT !.hdr = h] = r
  BY <1>1 DEF PacketState
<1>3. QED
  BY <1>2 DEF Received, h

\* What IP makes of a packet that has a next hop.
LEMMA Forwarded ==
  ASSUME NEW r \in PacketState, r.ttl >= 1, NEW hop \in Node
  PROVE  /\ IpForward(r, hop) \in PacketState
         /\ IpForward(r, hop).place \in {hop, Lost}
         /\ IpForward(r, hop).place \in Node => IpForward(r, hop).ttl >= 1
         /\ IpForward(r, hop).chose = r.chose /\ IpForward(r, hop).hdr = r.hdr
<1> DEFINE f == IpForward(r, hop)
<1>1. r.ttl \in Nat /\ r.ttl \in 0 .. Ttl /\ r.ttl - 1 \in 0 .. Ttl /\ 0 \in 0 .. Ttl
  BY Addresses, PacketFields
<1>2. Lost \in PlacesOfPackets /\ hop \in PlacesOfPackets /\ Lost \notin Node
  BY PlacesDiffer DEF PlacesOfPackets, Outcomes
<1>3. CASE r.ttl = 1
  <2>1. f = [r EXCEPT !.place = Lost, !.ttl = 0]
    BY <1>3 DEF IpForward
  <2>2. QED
    BY <1>1, <1>2, <2>1 DEF PacketState
<1>4. CASE r.ttl # 1
  <2>1. f = [r EXCEPT !.place = hop, !.ttl = @ - 1]
    BY <1>4 DEF IpForward
  <2>2. r.ttl - 1 >= 1
    BY <1>1, <1>4
  <2>3. QED
    BY <1>1, <1>2, <2>1, <2>2 DEF PacketState
<1>5. QED
  BY <1>3, <1>4

-----------------------------------------------------------------------------
(***************************************************************************)
(* The inductive invariant                                                  *)
(***************************************************************************)

\* A packet that is not done with can still be forwarded.
PacketOK(r) == r \in PacketState /\ (r.place \notin Outcomes => r.ttl >= 1)

\* While no vehicle moves: the vehicles that chose a next hop for p, or began a recovery,
\* are each nearer to the destination than those before; and so will the next one be,
\* which a packet in greedy mode is at already and a packet in recovery mode looks for.
Way(p, m) == Distance(pos[m], pos[Dst[p]])

Descends(p, chose) ==
  \A i, j \in 1 .. Len(chose) : i < j => Way(p, chose[j]) < Way(p, chose[i])

OnItsWay(p, r) ==
  IF r.hdr.inRec
    THEN \A i \in 1 .. Len(r.chose) : Distance(r.hdr.rec, pos[Dst[p]]) <= Way(p, r.chose[i])
    ELSE r.place = Dst[p] \/ \A i \in 1 .. Len(r.chose) : Way(p, r.place) < Way(p, r.chose[i])

AtSource(r) == r.place \in {Loopback, Queued}

Course(p, r) ==
  /\ Descends(p, r.chose)
  /\ AtSource(r) \/ r.place = Fresh => r.chose = <<>>
  /\ AtSource(r) => ~r.hdr.inRec
  /\ AtSource(r) \/ r.place \in Node => r.hdr.dst = pos[Dst[p]]
  /\ r.place \in Node => OnItsWay(p, r)

\* A vehicle takes part while its interface is up and has its address.
Interfaces ==
  running \in SUBSET Node /\ addressed \in SUBSET Node /\ up = running \cap addressed

Vehicles ==
  /\ pos \in Layouts /\ Interfaces /\ timer \in SUBSET Node
  /\ moved \in BOOLEAN /\ spent \in 0 .. MaxEvents

Tables ==
  /\ table \in [Node -> [Node -> {None} \cup Entry]]
  /\ \A n \in Node : table[n] \in TablesOf(n)
  /\ ~moved => \A n, m \in Node : table[n][m] # None => table[n][m].pos = pos[m]

Packets ==
  /\ pk \in [Packet -> PacketState]
  /\ \A p \in Packet : PacketOK(pk[p])
  /\ ~moved => \A p \in Packet : Course(p, pk[p])

\* The packets in the queue of n wait at n, for destinations that are listed.
QueueOK(n, q, listed, waits) ==
  /\ q \in Seq(Packet) /\ Len(q) <= MaxQueueLen
  /\ IsInjective(q)
  /\ \A p \in ToSet(q) : Src[p] = n /\ p \in waits /\ Dst[p] \in ToSet(listed)

Waiting == {p \in Packet : pk[p].place = Queued}

Queues ==
  /\ queue \in [Node -> Seq(Packet)]
  /\ addresses \in [Node -> Seq(Node)]
  /\ \A n \in Node : /\ ToSet(addresses[n]) \subseteq Node \ {n}
                     /\ QueueOK(n, queue[n], addresses[n], Waiting)
                     /\ queue[n] # <<>> => n \in timer
  /\ \A p \in Waiting : p \in ToSet(queue[Src[p]])

\* The OnOffApplication runs both timers while it is on: what is due of a packet is what
\* its timer has still to wait for.
OnOffOK(a) ==
  /\ a \in [state : {"new", "open", "closed"}, send : Int, startStop : Int, next : {"start", "stop"},
            since : Nat, residual : Nat, sent : Nat, on : Nat]
  /\ KeepsRate(a) /\ a.sent <= MaxPackets
  /\ a.state = "new" => a.sent = 0
  /\ a.startStop # Idle => a.state = "open" /\ a.sent < MaxPackets
  /\ a.send # Idle <=> a.startStop # Idle /\ a.next = "stop"
  /\ IF a.send = Idle THEN a.since = 0
     ELSE a.send >= 0 /\ a.send + a.residual + a.since = PacketBits

EchoOK(e) ==
  /\ e \in [state : {"new", "open", "closed"}, send : Int, sent : Nat]
  /\ e.sent <= EchoCount
  /\ e.state = "new" => e.sent = 0
  /\ e.send # Idle => e.state = "open" /\ e.sent < EchoCount

IInv == Vehicles /\ Tables /\ Packets /\ Queues /\ OnOffOK(onoff) /\ EchoOK(echo)

-----------------------------------------------------------------------------
(***************************************************************************)
(* What is made of a packet                                                 *)
(***************************************************************************)

Good(p, r) == PacketOK(r) /\ (~moved => Course(p, r))

\* A packet that ends is done with, however it was.
LEMMA EndGood ==
  ASSUME NEW p \in Packet, NEW r \in PacketState, Good(p, r), NEW o \in Outcomes
  PROVE  /\ [r EXCEPT !.place = o] \in PacketState
         /\ Good(p, [r EXCEPT !.place = o])
         /\ [r EXCEPT !.place = o].place # Queued
<1> DEFINE s == [r EXCEPT !.place = o]
<1>1. o \notin Node /\ o # Fresh /\ o # Loopback /\ o # Queued
  BY PlacesDiffer DEF Outcomes
<1>2. s \in PacketState /\ s.place = o /\ s.chose = r.chose
  BY <1>1 DEF PacketState, PlacesOfPackets
<1> HIDE DEF s
<1>3. PacketOK(s)
  BY <1>1, <1>2 DEF PacketOK
<1>4. Course(p, r) => Course(p, s)
  BY <1>1, <1>2 DEF Course, AtSource
<1>5. QED
  BY <1>1, <1>2, <1>3, <1>4 DEF Good, s

LEMMA PacketsKept ==
  ASSUME pos' = pos, moved' = moved, pk' \in [Packet -> PacketState],
         \A p \in Packet : Good(p, pk'[p])
  PROVE  Packets'
<1>1. \A p \in Packet : PacketOK(pk'[p])
  BY DEF Good
<1>2. ASSUME ~moved, NEW p \in Packet PROVE Course(p, pk[p])'
  <2>1. Course(p, pk'[p])
    BY <1>2 DEF Good
  <2>2. QED
    BY <2>1 DEF Course, Descends, OnItsWay, Way, AtSource
<1>3. QED
  BY <1>1, <1>2 DEF Packets, PacketOK

\* A radio may lose what it sends, and changes nothing else.
LEMMA Sent ==
  ASSUME NEW n, NEW new \in [Packet -> PacketState], Send(n, new),
         \A p \in Packet : Good(p, new[p]), pos' = pos, moved' = moved
  PROVE  /\ Packets'
         /\ \A p \in Packet : new[p] = pk[p] => pk'[p] = pk[p]
         /\ \A p \in Packet : pk'[p].place = Queued <=> new[p].place = Queued
<1> DEFINE Sends(p)  == new[p].place \in Node /\ new[p] # pk[p]
           Missed(p) == new[p].place \notin HeardBy(n, DataLoss)
<1>1. pk' = [p \in Packet |-> IF p \in {q \in Packet : Sends(q)} /\ Missed(p)
                              THEN [new[p] EXCEPT !.place = Lost] ELSE new[p]]
  BY DEF Send
<1>2. \A p \in Packet : Sends(p) => new[p].place \in Node /\ new[p] # pk[p]
  OBVIOUS
<1> HIDE DEF Sends, Missed
<1>3. ASSUME NEW p \in Packet
      PROVE  /\ pk'[p] \in PacketState /\ Good(p, pk'[p])
             /\ new[p] = pk[p] => pk'[p] = pk[p]
             /\ pk'[p].place = Queued <=> new[p].place = Queued
  <2>1. new[p] \in PacketState /\ Good(p, new[p])
    OBVIOUS
  <2>2. CASE Sends(p) /\ Missed(p)
    <3>1. pk'[p] = [new[p] EXCEPT !.place = Lost]
      BY <1>1, <2>2
    <3>2. new[p].place # Queued /\ new[p] # pk[p]
      BY <1>2, <2>2, PlacesDiffer
    <3>3. Lost \in Outcomes
      BY DEF Outcomes
    <3>4. Good(p, pk'[p]) /\ pk'[p] \in PacketState /\ pk'[p].place # Queued
      BY <2>1, <3>1, <3>3, EndGood
    <3>5. QED
      BY <3>2, <3>4
  <2>3. CASE ~(Sends(p) /\ Missed(p))
    <3>1. pk'[p] = new[p]
      BY <1>1, <2>3
    <3>2. QED
      BY <2>1, <3>1
  <2>4. QED
    BY <2>2, <2>3
<1>4. pk' \in [Packet -> PacketState]
  BY <1>1, <1>3
<1>5. QED
  BY <1>3, <1>4, PacketsKept

LEMMA WayType ==
  ASSUME pos \in Layouts, NEW p \in Packet, NEW m \in Node
  PROVE  Way(p, m) \in Nat
<1>1. pos[m] \in Position /\ pos[Dst[p]] \in Position
  BY Addresses
<1>2. QED
  BY <1>1, DistanceType DEF Way

\* n is nearer to the destination than every vehicle that has chosen for the packet.
Nearer(p, chose, n) ==
  Descends(p, chose) /\ \A i \in 1 .. Len(chose) : Way(p, n) < Way(p, chose[i])

LEMMA ChoosesNext ==
  ASSUME pos \in Layouts, NEW p \in Packet, NEW n \in Node, NEW chose \in Seq(Node),
         Nearer(p, chose, n)
  PROVE  /\ Append(chose, n) \in Seq(Node)
         /\ Descends(p, Append(chose, n))
         /\ \A i \in 1 .. Len(Append(chose, n)) : Way(p, n) <= Way(p, Append(chose, n)[i])
<1> DEFINE c == Append(chose, n)
           N == Len(chose)
<1>1. /\ N \in Nat /\ c \in Seq(Node) /\ Len(c) = N + 1 /\ c[N + 1] = n
      /\ \A i \in 1 .. N : c[i] = chose[i] /\ chose[i] \in Node
  OBVIOUS
<1>2. \A i \in 1 .. N : Way(p, n) < Way(p, c[i])
  BY <1>1 DEF Nearer
<1>3. \A i, j \in 1 .. N : i < j => Way(p, c[j]) < Way(p, c[i])
  BY <1>1 DEF Nearer, Descends
<1> HIDE DEF c, N
<1>4. Way(p, n) \in Nat /\ \A i \in 1 .. N : Way(p, c[i]) \in Nat
  BY <1>1, WayType
<1>5. \A i, j \in 1 .. N + 1 : i < j => Way(p, c[j]) < Way(p, c[i])
  <2> SUFFICES ASSUME NEW i \in 1 .. N + 1, NEW j \in 1 .. N + 1, i < j
               PROVE  Way(p, c[j]) < Way(p, c[i])
    OBVIOUS
  <2>1. i \in 1 .. N /\ (j \in 1 .. N \/ j = N + 1)
    BY <1>1
  <2>2. QED
    BY <1>1, <1>2, <1>3, <2>1
<1>6. \A i \in 1 .. N + 1 : Way(p, n) <= Way(p, c[i])
  <2> SUFFICES ASSUME NEW i \in 1 .. N + 1 PROVE Way(p, n) <= Way(p, c[i])
    OBVIOUS
  <2>1. i \in 1 .. N \/ i = N + 1
    BY <1>1
  <2>2. QED
    BY <1>1, <1>2, <1>4, <2>1
<1>7. QED
  BY <1>1, <1>5, <1>6 DEF Descends, c

LEMMA ChosenState ==
  ASSUME NEW r \in PacketState, NEW n \in Node, NEW h \in Header
  PROVE  /\ [Chosen(r, n) EXCEPT !.hdr = h] \in PacketState
         /\ [Chosen(r, n) EXCEPT !.hdr = h].chose = Append(r.chose, n)
         /\ [Chosen(r, n) EXCEPT !.hdr = h].hdr = h
         /\ [Chosen(r, n) EXCEPT !.hdr = h].ttl = r.ttl
         /\ Chosen(r, n) \in PacketState /\ Chosen(r, n).hdr = r.hdr
<1>1. r.chose \in Seq(Node)
  BY DEF PacketState
<1>2. Append(r.chose, n) \in Seq(Node)
  BY <1>1
<1>3. QED
  BY <1>2 DEF Chosen, PacketState

\* A packet for which n chooses a nearer next hop.
LEMMA GreedyGood ==
  ASSUME Vehicles, NEW p \in Packet, NEW n \in Node, NEW r \in PacketState, r.ttl >= 1,
         NEW hop \in Node, NEW h \in Header,
         ~moved => /\ Nearer(p, r.chose, n) /\ h.dst = pos[Dst[p]] /\ ~h.inRec
                   /\ hop = Dst[p] \/ Way(p, hop) < Way(p, n)
  PROVE  Good(p, IpForward([Chosen(r, n) EXCEPT !.hdr = h], hop))
<1> DEFINE s == [Chosen(r, n) EXCEPT !.hdr = h]
           f == IpForward(s, hop)
<1>1. s \in PacketState /\ s.chose = Append(r.chose, n) /\ s.hdr = h /\ s.ttl >= 1
  BY ChosenState
<1> HIDE DEF s
<1>2. /\ f \in PacketState /\ f.place \in {hop, Lost} /\ (f.place \in Node => f.ttl >= 1)
      /\ f.chose = s.chose /\ f.hdr = s.hdr
  BY <1>1, Forwarded
<1> HIDE DEF f
<1>3. ~AtSource(f) /\ f.place # Fresh /\ (f.place \in Node => f.place = hop)
      /\ (f.place \notin Outcomes => f.place \in Node)
  BY <1>2, PlacesDiffer DEF AtSource, Outcomes
<1>4. PacketOK(f)
  BY <1>2, <1>3 DEF PacketOK
<1>5. ASSUME ~moved PROVE Course(p, f)
  <2>1. r.chose \in Seq(Node) /\ pos \in Layouts
    BY PacketFields DEF Vehicles
  <2>2. Nearer(p, r.chose, n)
    BY <1>5
  <2> DEFINE c == Append(r.chose, n)
  <2>3. c \in Seq(Node) /\ Descends(p, c) /\ \A i \in 1 .. Len(c) : Way(p, n) <= Way(p, c[i])
    BY <2>1, <2>2, ChoosesNext
  <2>4. f.chose = c
    BY <1>1, <1>2
  <2> HIDE DEF c
  <2>5. Way(p, hop) \in Nat /\ Way(p, n) \in Nat /\ \A i \in 1 .. Len(c) : Way(p, c[i]) \in Nat
    BY <2>1, <2>3, WayType
  <2>6. hop # Dst[p] => \A i \in 1 .. Len(c) : Way(p, hop) < Way(p, c[i])
    BY <1>5, <2>3, <2>5
  <2>7. f.hdr.dst = pos[Dst[p]] /\ ~f.hdr.inRec
    BY <1>1, <1>2, <1>5
  <2>8. f.place \in Node => OnItsWay(p, f)
    BY <1>3, <2>4, <2>6, <2>7 DEF OnItsWay
  <2>9. QED
    BY <1>3, <2>3, <2>4, <2>7, <2>8 DEF Course
<1>6. QED
  BY <1>4, <1>5 DEF Good, f, s

\* The right-hand rule: the header says so, the rest of the packet stays as it is.
LEMMA RecoveryPacket ==
  ASSUME Vehicles, NEW n \in Node, NEW t \in TablesOf(n), NEW r \in PacketState, r.ttl >= 1
  PROVE  /\ RecoveryMode(r, n, t) \in PacketState
         /\ RecoveryMode(r, n, t).place \in Node \cup {Lost, GivenUp}
         /\ RecoveryMode(r, n, t).place \in Node => RecoveryMode(r, n, t).ttl >= 1
         /\ RecoveryMode(r, n, t).chose = r.chose
         /\ RecoveryMode(r, n, t).hdr.dst = r.hdr.dst
         /\ RecoveryMode(r, n, t).hdr.rec = r.hdr.rec
         /\ RecoveryMode(r, n, t).hdr.inRec
<1> DEFINE h    == [r.hdr EXCEPT !.inRec = TRUE, !.last = pos[n]]
           s    == [r EXCEPT !.hdr = h]
           best == BestAngle(t, r.hdr.last, pos[n])
           g    == [s EXCEPT !.place = GivenUp]
           f    == IpForward(s, best)
<1>1. RecoveryMode(r, n, t) = IF best = None THEN g ELSE f
  BY DEF RecoveryMode
<1>2. r.hdr \in Header /\ pos[n] \in Position
  BY PacketFields, Addresses DEF Vehicles
<1>3. h \in Header /\ h.dst = r.hdr.dst /\ h.rec = r.hdr.rec /\ h.inRec
  BY <1>2 DEF Header
<1>4. best \in Neighbors(t) \cup {None}
  BY <1>2, HeaderFields, BestAngleIsNeighbour
<1> HIDE DEF h, best
<1>5. s \in PacketState /\ s.ttl >= 1 /\ s.chose = r.chose /\ s.hdr = h
  BY <1>3 DEF PacketState
<1> HIDE DEF s
<1>6. GivenUp \in PlacesOfPackets /\ GivenUp \notin Node
  BY PlacesDiffer DEF PlacesOfPackets, Outcomes
<1>7. CASE best = None
  <2>1. g \in PacketState /\ g.place = GivenUp /\ g.chose = s.chose /\ g.hdr = s.hdr
    BY <1>5, <1>6 DEF PacketState
  <2>2. RecoveryMode(r, n, t) = g
    BY <1>1, <1>7
  <2> HIDE DEF g
  <2>3. QED
    BY <1>3, <1>5, <1>6, <2>1, <2>2
<1>8. CASE best # None
  <2>1. best \in Node
    BY <1>4, <1>8, Neighbours
  <2>2. /\ f \in PacketState /\ f.place \in {best, Lost} /\ (f.place \in Node => f.ttl >= 1)
        /\ f.chose = s.chose /\ f.hdr = s.hdr
    BY <1>5, <2>1, Forwarded
  <2>3. RecoveryMode(r, n, t) = f
    BY <1>1, <1>8
  <2> HIDE DEF f
  <2>4. QED
    BY <1>3, <1>5, <2>1, <2>2, <2>3
<1>9. QED
  BY <1>7, <1>8

\* It keeps a packet on its way.
LEMMA RecoveryGood ==
  ASSUME Vehicles, NEW p \in Packet, NEW n \in Node, NEW t \in TablesOf(n),
         NEW r \in PacketState, r.ttl >= 1,
         ~moved => /\ Descends(p, r.chose) /\ r.hdr.dst = pos[Dst[p]]
                   /\ \A i \in 1 .. Len(r.chose) :
                        Distance(r.hdr.rec, pos[Dst[p]]) <= Way(p, r.chose[i])
  PROVE  Good(p, RecoveryMode(r, n, t))
<1> DEFINE f == RecoveryMode(r, n, t)
<1>1. /\ f \in PacketState /\ f.place \in Node \cup {Lost, GivenUp}
      /\ (f.place \in Node => f.ttl >= 1)
      /\ f.chose = r.chose /\ f.hdr.dst = r.hdr.dst /\ f.hdr.rec = r.hdr.rec /\ f.hdr.inRec
  BY RecoveryPacket
<1> HIDE DEF f
<1>2. ~AtSource(f) /\ f.place # Fresh /\ (f.place \notin Outcomes => f.place \in Node)
  BY <1>1, PlacesDiffer DEF AtSource, Outcomes
<1>3. PacketOK(f)
  BY <1>1, <1>2 DEF PacketOK
<1>4. ASSUME ~moved PROVE Course(p, f)
  BY <1>1, <1>2, <1>4 DEF Course, OnItsWay
<1>5. QED
  BY <1>3, <1>4 DEF Good, f

\* And so does beginning it.
LEMMA BeginsRecovery ==
  ASSUME Vehicles, NEW p \in Packet, NEW n \in Node, NEW t \in TablesOf(n),
         NEW r \in PacketState, r.ttl >= 1, NEW h \in Header, h.rec = pos[n],
         ~moved => Nearer(p, r.chose, n) /\ h.dst = pos[Dst[p]]
  PROVE  Good(p, RecoveryMode([Chosen(r, n) EXCEPT !.hdr = h], n, t))
<1> DEFINE s == [Chosen(r, n) EXCEPT !.hdr = h]
<1>1. s \in PacketState /\ s.chose = Append(r.chose, n) /\ s.hdr = h /\ s.ttl >= 1
  BY ChosenState
<1> HIDE DEF s
<1>2. ASSUME ~moved
      PROVE  /\ Descends(p, s.chose) /\ s.hdr.dst = pos[Dst[p]]
             /\ \A i \in 1 .. Len(s.chose) : Distance(s.hdr.rec, pos[Dst[p]]) <= Way(p, s.chose[i])
  <2>1. r.chose \in Seq(Node) /\ pos \in Layouts
    BY PacketFields DEF Vehicles
  <2>2. Nearer(p, r.chose, n)
    BY <1>2
  <2> DEFINE c == Append(r.chose, n)
  <2>3. Descends(p, c) /\ \A i \in 1 .. Len(c) : Way(p, n) <= Way(p, c[i])
    BY <2>1, <2>2, ChoosesNext
  <2>4. s.chose = c
    BY <1>1
  <2> HIDE DEF c
  <2>5. Distance(s.hdr.rec, pos[Dst[p]]) = Way(p, n)
    BY <1>1 DEF Way
  <2>6. QED
    BY <1>1, <1>2, <2>3, <2>4, <2>5
<1>3. Good(p, RecoveryMode(s, n, t))
  BY <1>1, <1>2, RecoveryGood
<1>4. QED
  BY <1>3 DEF s

-----------------------------------------------------------------------------
(***************************************************************************)
(* What the steps have in common                                            *)
(***************************************************************************)

World == Vehicles /\ Tables /\ Packets /\ Queues

\* A table that holds no more than that of n.
PartOf(n, t) ==
  t \in TablesOf(n) /\ \A m \in Neighbors(t) : m \in Neighbors(table[n]) /\ t[m] = table[n][m]

LEMMA Parts ==
  ASSUME Tables, NEW n \in Node
  PROVE  PartOf(n, table[n]) /\ PartOf(n, Purge(table[n]))
<1>1. table[n] \in TablesOf(n)
  BY DEF Tables
<1>2. QED
  BY <1>1, PurgeType DEF PartOf

LEMMA TablesKept ==
  ASSUME Tables, NEW n \in Node, NEW t, PartOf(n, t), table' = [table EXCEPT ![n] = t],
         pos' = pos, moved' = moved
  PROVE  Tables'
<1>1. t \in [Node -> {None} \cup Entry] /\ t \in TablesOf(n)
  BY DEF PartOf, TablesOf
<1>2. /\ table' \in [Node -> [Node -> {None} \cup Entry]]
      /\ \A k \in Node : table'[k] = IF k = n THEN t ELSE table[k]
  BY <1>1 DEF Tables
<1>3. \A k \in Node : table'[k] \in TablesOf(k)
  BY <1>1, <1>2 DEF Tables
<1>4. ASSUME ~moved, NEW k \in Node, NEW m \in Node, table'[k][m] # None
      PROVE  table'[k][m].pos = pos[m]
  <2>1. CASE k = n
    <3>1. m \in Neighbors(t) /\ table'[k] = t
      BY <1>2, <1>4, <2>1 DEF Neighbors
    <3>2. m \in Neighbors(table[n]) /\ t[m] = table[n][m]
      BY <3>1 DEF PartOf
    <3>3. table[n][m] # None
      BY <3>2 DEF Neighbors
    <3>4. QED
      BY <1>4, <3>1, <3>2, <3>3 DEF Tables
  <2>2. CASE k # n
    BY <1>2, <1>4, <2>2 DEF Tables
  <2>3. QED
    BY <2>1, <2>2
<1>5. QED
  BY <1>2, <1>3, <1>4 DEF Tables, TablesOf

LEMMA QueuesKept ==
  ASSUME Queues, UNCHANGED <<queue, addresses, timer>>,
         \A p \in Packet : pk'[p].place = Queued <=> pk[p].place = Queued
  PROVE  Queues'
<1>1. Waiting' = Waiting
  BY DEF Waiting
<1>2. QED
  BY <1>1 DEF Queues, QueueOK

LEMMA SentOne ==
  ASSUME Packets, NEW n, NEW p \in Packet, NEW r \in PacketState, Good(p, r), SendOne(n, p, r),
         pos' = pos, moved' = moved, pk[p].place # Queued, r.place # Queued
  PROVE  Packets' /\ \A q \in Packet : pk'[q].place = Queued <=> pk[q].place = Queued
<1> DEFINE new == [pk EXCEPT ![p] = r]
<1>1. Send(n, new)
  BY DEF SendOne
<1>2. new \in [Packet -> PacketState] /\ new[p] = r /\ \A q \in Packet \ {p} : new[q] = pk[q]
  BY DEF Packets
<1> HIDE DEF new
<1>3. \A q \in Packet : Good(q, new[q])
  BY <1>2 DEF Packets, Good
<1>4. Packets' /\ \A q \in Packet : pk'[q].place = Queued <=> new[q].place = Queued
  BY <1>1, <1>2, <1>3, Sent
<1>5. QED
  BY <1>2, <1>4

\* A packet that was not in a queue ends.
LEMMA PacketEnds ==
  ASSUME World, NEW p \in Packet, NEW o \in Outcomes, pk[p].place # Queued,
         pk' = [pk EXCEPT ![p].place = o], UNCHANGED <<pos, iface, moved, queue, addresses, timer>>
  PROVE  Packets' /\ Queues'
<1> DEFINE s == [pk[p] EXCEPT !.place = o]
<1>1. pk \in [Packet -> PacketState] /\ \A q \in Packet : Good(q, pk[q])
  BY DEF World, Packets, Good
<1>2. s \in PacketState /\ Good(p, s) /\ s.place # Queued
  BY <1>1, EndGood
<1>3. pk' = [pk EXCEPT ![p] = s]
  OBVIOUS
<1> HIDE DEF s
<1>4. /\ pk' \in [Packet -> PacketState]
      /\ pk'[p] = s /\ \A q \in Packet \ {p} : pk'[q] = pk[q]
  BY <1>1, <1>2, <1>3
<1>5. \A q \in Packet : Good(q, pk'[q])
  BY <1>1, <1>2, <1>4
<1>6. Packets'
  BY <1>4, <1>5, PacketsKept
<1>7. \A q \in Packet : pk'[q].place = Queued <=> pk[q].place = Queued
  BY <1>2, <1>4
<1>8. QED
  BY <1>6, <1>7, QueuesKept DEF World

\* The next hop that a vehicle chooses, by its table or a purged one.
LEMMA NextIsNearer ==
  ASSUME World, NEW n \in Node, NEW t, PartOf(n, t), NEW d \in Node, d # n,
         NEW position \in Position, ~moved => position = pos[d],
         NEW hop, hop = NextHop(n, t, d, position), hop # None
  PROVE  /\ hop \in Node
         /\ ~moved => hop = d \/ Distance(pos[hop], pos[d]) < Distance(pos[n], pos[d])
<1>1. t \in TablesOf(n) /\ pos \in Layouts
  BY DEF PartOf, World, Vehicles
<1>2. /\ hop \in Neighbors(t) /\ hop \in Node \ {n}
      /\ hop # d => Distance(t[hop].pos, position) < Distance(pos[n], position)
  BY <1>1, NextHopIsNearer
<1>3. ASSUME ~moved PROVE t[hop].pos = pos[hop]
  <2>1. hop \in Neighbors(table[n]) /\ t[hop] = table[n][hop]
    BY <1>2 DEF PartOf
  <2>2. QED
    BY <1>2, <1>3, <2>1 DEF World, Tables, Neighbors
<1>4. QED
  BY <1>2, <1>3

-----------------------------------------------------------------------------
(***************************************************************************)
(* A source sends                                                           *)
(***************************************************************************)

LEMMA RouteOutputInv ==
  ASSUME World, NEW p \in Packet, RouteOutput(p)
  PROVE  World'
<1> DEFINE n == Src[p]
           t == IF IsNeighbour(table[n], Dst[p]) THEN table[n] ELSE Purge(table[n])
           h == AddHeaders(p)
           r == [pk[p] EXCEPT !.hdr = h]
           hop == NextHop(n, t, Dst[p], GetPosition(Dst[p]))
           x == IF hop # None THEN [Chosen(r, n) EXCEPT !.place = hop] ELSE [r EXCEPT !.place = Loopback]
<1>1. /\ pk[p].place = Fresh /\ table' = [table EXCEPT ![n] = t] /\ SendOne(n, p, x)
      /\ UNCHANGED <<pos, iface, queue, addresses, timer, moved, spent>>
  BY DEF RouteOutput
<1>2. /\ n \in Node /\ Dst[p] \in Node /\ Dst[p] # n
      /\ pos[n] \in Position /\ pos[Dst[p]] \in Position
  BY Addresses DEF World, Vehicles
<1>3. PartOf(n, t)
  BY <1>2, Parts DEF World
<1>4. /\ h \in Header /\ h.dst = pos[Dst[p]] /\ ~h.inRec
  <2>1. h \in Header
    BY <1>2, OriginType, HeaderType DEF AddHeaders, GetPosition
  <2>2. QED
    BY <2>1 DEF AddHeaders, GetPosition, PositionHeader
<1>5. /\ pk[p] \in PacketState /\ pk[p].ttl >= 1
      /\ ~moved => pk[p].chose = <<>>
  <2>1. pk[p].place \notin Outcomes
    BY <1>1, PlacesDiffer
  <2>2. QED
    BY <1>1, <2>1 DEF World, Packets, PacketOK, Course
<1>6. r \in PacketState /\ r.ttl = pk[p].ttl /\ r.chose = pk[p].chose /\ r.hdr = h
  BY <1>4, <1>5 DEF PacketState
<1>7. /\ hop # None => hop \in Node
      /\ hop # None /\ ~moved => (hop = Dst[p] \/ Way(p, hop) < Way(p, n))
  <2>1. GetPosition(Dst[p]) \in Position /\ (~moved => GetPosition(Dst[p]) = pos[Dst[p]])
    BY <1>2 DEF GetPosition
  <2> HIDE DEF n, t
  <2>2. hop # None => /\ hop \in Node
                      /\ ~moved => hop = Dst[p] \/ Distance(pos[hop], pos[Dst[p]]) < Distance(pos[n], pos[Dst[p]])
    BY <1>2, <1>3, <2>1, NextIsNearer
  <2>3. QED
    BY <2>2 DEF Way
<1> HIDE DEF hop, t, h, r
<1>8. x \in PacketState /\ x.place # Queued /\ Good(p, x)
  <2>1. CASE hop # None
    <3> DEFINE s == [Chosen(r, n) EXCEPT !.place = hop]
    <3>1. Chosen(r, n) \in PacketState /\ Chosen(r, n).chose = Append(r.chose, n)
          /\ Chosen(r, n).hdr = r.hdr /\ Chosen(r, n).ttl = r.ttl
      <4>1. Append(r.chose, n) \in Seq(Node)
        BY <1>2, <1>6 DEF PacketState
      <4>2. QED
        BY <1>6, <4>1 DEF Chosen, PacketState
    <3>2. hop \in PlacesOfPackets /\ hop \in Node
      BY <1>7, <2>1 DEF PlacesOfPackets
    <3>3. /\ s \in PacketState /\ s.place = hop /\ s.chose = Append(r.chose, n)
          /\ s.hdr = r.hdr /\ s.ttl = r.ttl
      BY <3>1, <3>2 DEF PacketState
    <3>4. x = s
      BY <2>1
    <3> HIDE DEF s
    <3>5. ~AtSource(s) /\ s.place # Fresh /\ s.place # Queued
      BY <3>2, <3>3, PlacesDiffer DEF AtSource
    <3>6. ASSUME ~moved PROVE Course(p, s)
      <4>1. s.chose = Append(<<>>, n)
        BY <1>5, <1>6, <3>3, <3>6
      <4>2. Len(Append(<<>>, n)) = 1 /\ Append(<<>>, n)[1] = n
        OBVIOUS
      <4>3. Descends(p, s.chose)
        BY <4>1, <4>2 DEF Descends
      <4>4. OnItsWay(p, s)
        BY <1>4, <1>6, <1>7, <2>1, <3>3, <3>6, <4>1, <4>2 DEF OnItsWay
      <4>5. QED
        BY <1>4, <1>6, <3>3, <3>5, <4>3, <4>4 DEF Course
    <3>7. PacketOK(s)
      BY <1>5, <1>6, <3>3 DEF PacketOK
    <3>8. QED
      BY <3>3, <3>4, <3>5, <3>6, <3>7 DEF Good
  <2>2. CASE hop = None
    <3> DEFINE s == [r EXCEPT !.place = Loopback]
    <3>1. /\ s \in PacketState /\ s.place = Loopback /\ s.chose = r.chose
          /\ s.hdr = r.hdr /\ s.ttl = r.ttl
      BY <1>6 DEF PacketState, PlacesOfPackets
    <3>2. x = s
      BY <2>2
    <3> HIDE DEF s
    <3>3. s.place # Queued /\ s.place \notin Node
      BY <3>1, PlacesDiffer
    <3>4. ASSUME ~moved PROVE Course(p, s)
      <4>1. s.chose = <<>>
        BY <1>5, <1>6, <3>1, <3>4
      <4>2. Descends(p, s.chose)
        BY <4>1 DEF Descends
      <4>3. QED
        BY <1>4, <1>6, <3>1, <3>3, <4>1, <4>2 DEF Course
    <3>5. PacketOK(s)
      BY <1>5, <1>6, <3>1 DEF PacketOK
    <3>6. QED
      BY <3>1, <3>2, <3>3, <3>4, <3>5 DEF Good
  <2>3. QED
    BY <2>1, <2>2
<1> HIDE DEF x
<1>9. pk[p].place # Queued
  BY <1>1, PlacesDiffer
<1>10. Packets' /\ \A q \in Packet : pk'[q].place = Queued <=> pk[q].place = Queued
  BY <1>1, <1>8, <1>9, SentOne DEF World
<1>11. Queues'
  BY <1>1, <1>10, QueuesKept DEF World
<1>12. Tables'
  BY <1>1, <1>2, <1>3, TablesKept DEF World
<1>13. Vehicles'
  BY <1>1 DEF World, Vehicles, Interfaces
<1>14. QED
  BY <1>10, <1>11, <1>12, <1>13 DEF World

LEMMA RouteOutputFailsInv ==
  ASSUME World, NEW p \in Packet, RouteOutputFails(p)
  PROVE  World'
<1>1. /\ pk[p].place = Fresh /\ pk' = [pk EXCEPT ![p].place = Lost]
      /\ UNCHANGED <<pos, iface, table, queue, addresses, timer, moved, spent>>
  BY DEF RouteOutputFails
<1>2. Lost \in Outcomes /\ pk[p].place # Queued
  BY <1>1, PlacesDiffer DEF Outcomes
<1>3. Packets' /\ Queues'
  BY <1>1, <1>2, PacketEnds
<1>4. QED
  BY <1>1, <1>3 DEF World, Vehicles, Interfaces, Tables, TablesOf

-----------------------------------------------------------------------------
(***************************************************************************)
(* The queue                                                                *)
(***************************************************************************)

\* A packet is taken in; the oldest may have to go.
LEMMA Enqueued ==
  ASSUME NEW q \in Seq(Packet), Len(q) <= MaxQueueLen, IsInjective(q),
         NEW p \in Packet, p \notin ToSet(q)
  PROVE  /\ Enqueue(q, p) \in Seq(Packet) /\ Len(Enqueue(q, p)) <= MaxQueueLen
         /\ Enqueue(q, p) # <<>>
         /\ IsInjective(Enqueue(q, p))
         /\ ToSet(Enqueue(q, p)) = (ToSet(q) \ Displaced(q)) \cup {p}
         /\ Displaced(q) \in SUBSET ToSet(q)
<1>1. MaxQueueLen \in Nat /\ MaxQueueLen # 0 /\ Len(q) \in Nat
  BY Addresses
<1>2. CASE Len(q) = MaxQueueLen
  <2>1. q # <<>>
    BY <1>1, <1>2
  <2>2. /\ Tail(q) \in Seq(Packet) /\ Len(Tail(q)) = Len(q) - 1
        /\ IsInjective(Tail(q)) /\ ToSet(Tail(q)) = ToSet(q) \ {Head(q)} /\ Head(q) \in ToSet(q)
    BY <2>1, Shortened
  <2> DEFINE s == Tail(q)
  <2> HIDE DEF s
  <2>3. p \notin ToSet(s) /\ s \in Seq(Packet) /\ IsInjective(s)
    BY <2>2 DEF s
  <2>4. /\ Append(s, p) \in Seq(Packet) /\ Len(Append(s, p)) = Len(s) + 1
        /\ IsInjective(Append(s, p)) /\ ToSet(Append(s, p)) = ToSet(s) \cup {p}
    BY <2>3, Appended
  <2>5. Enqueue(q, p) = Append(s, p) /\ Displaced(q) = {Head(q)}
    BY <1>2 DEF Enqueue, Displaced, s
  <2>6. Len(Append(s, p)) = MaxQueueLen
    BY <1>1, <1>2, <2>2, <2>4 DEF s
  <2>7. Append(s, p) # <<>>
    BY <2>3, AppendProperties
  <2>8. ToSet(Append(s, p)) = (ToSet(q) \ {Head(q)}) \cup {p}
    BY <2>2, <2>4 DEF s
  <2>9. {Head(q)} \in SUBSET ToSet(q)
    BY <2>2
  <2>10. MaxQueueLen <= MaxQueueLen
    BY <1>1
  <2>11. QED
    BY <2>4, <2>5, <2>6, <2>7, <2>8, <2>9, <2>10
<1>3. CASE Len(q) # MaxQueueLen
  <2>1. /\ Append(q, p) \in Seq(Packet) /\ Len(Append(q, p)) = Len(q) + 1
        /\ IsInjective(Append(q, p)) /\ ToSet(Append(q, p)) = ToSet(q) \cup {p}
    BY Appended
  <2>2. Enqueue(q, p) = Append(q, p) /\ Displaced(q) = {}
    BY <1>3 DEF Enqueue, Displaced
  <2>3. Len(Append(q, p)) <= MaxQueueLen
    BY <1>1, <1>3, <2>1
  <2>4. Append(q, p) # <<>>
    BY AppendProperties
  <2>5. QED
    BY <2>1, <2>2, <2>3, <2>4
<1>4. QED
  BY <1>2, <1>3

\* Its destination is listed, and those listed before still are.
LEMMA Inserted ==
  ASSUME NEW n \in Node, addresses[n] \in Seq(Node), NEW d \in Node
  PROVE  /\ InsertAddress(n, d) \in Seq(Node)
         /\ ToSet(InsertAddress(n, d)) = ToSet(addresses[n]) \cup {d}
<1> DEFINE a == addresses[n]
           b == <<d>> \o a
<1>1. a \in Seq(Node)
  OBVIOUS
<1>2. InsertAddress(n, d) = IF a # <<>> /\ Head(a) = d THEN a ELSE b
  BY DEF InsertAddress
<1> HIDE DEF a
<1>3. CASE a # <<>> /\ Head(a) = d
  <2>1. Len(a) # 0 /\ Len(a) \in Nat /\ a[1] = d
    BY <1>1, <1>3
  <2>2. 1 \in 1 .. Len(a)
    BY <2>1
  <2>3. d \in ToSet(a)
    BY <1>1, <2>1, <2>2, Members
  <2>4. ToSet(a) = ToSet(a) \cup {d}
    BY <2>3
  <2>5. QED
    BY <1>1, <1>2, <1>3, <2>4 DEF a
<1>4. CASE ~(a # <<>> /\ Head(a) = d)
  <2>1. <<d>> \in Seq(Node) /\ Len(<<d>>) = 1 /\ <<d>>[1] = d
    OBVIOUS
  <2>2. /\ b \in Seq(Node) /\ Len(b) = Len(<<d>>) + Len(a)
        /\ \A i \in 1 .. Len(<<d>>) + Len(a) : b[i] = IF i <= Len(<<d>>) THEN <<d>>[i] ELSE a[i - Len(<<d>>)]
    BY <1>1, <2>1, ConcatProperties
  <2> DEFINE N == Len(a)
  <2>3. N \in Nat
    BY <1>1
  <2>4. Len(b) = 1 + N /\ \A i \in 1 .. 1 + N : b[i] = IF i <= 1 THEN d ELSE a[i - 1]
    <3>1. \A i \in 1 .. 1 + N : i <= 1 => i = 1
      BY <2>3
    <3>2. QED
      BY <2>1, <2>2, <3>1
  <2> HIDE DEF b
  <2>5. ASSUME NEW x PROVE x \in ToSet(b) <=> x \in ToSet(a) \/ x = d
    <3>1. x \in ToSet(b) <=> \E i \in 1 .. 1 + N : b[i] = x
      BY <2>2, <2>4, Members
    <3>2. x \in ToSet(a) <=> \E i \in 1 .. N : a[i] = x
      BY <1>1, Members
    <3> HIDE DEF N
    <3>3. \A i \in 1 .. N : i + 1 \in 1 .. 1 + N /\ b[i + 1] = a[i]
      <4>1. \A i \in 1 .. N : i + 1 \in 1 .. 1 + N /\ ~(i + 1 <= 1) /\ (i + 1) - 1 = i
        BY <2>3
      <4>2. QED
        BY <2>4, <4>1
    <3>4. 1 \in 1 .. 1 + N /\ b[1] = d
      <4>1. 1 \in 1 .. 1 + N /\ 1 <= 1
        BY <2>3
      <4>2. QED
        BY <2>4, <4>1
    <3>5. \A i \in 1 .. 1 + N : b[i] = d \/ (i - 1 \in 1 .. N /\ b[i] = a[i - 1])
      <4>1. \A i \in 1 .. 1 + N : i <= 1 \/ i - 1 \in 1 .. N
        BY <2>3
      <4>2. QED
        BY <2>4, <4>1
    <3>6. QED
      BY <3>1, <3>2, <3>3, <3>4, <3>5
  <2>6. ToSet(b) = ToSet(a) \cup {d}
    BY <2>5
  <2>7. QED
    BY <1>2, <1>4, <2>2, <2>6 DEF a
<1>5. QED
  BY <1>3, <1>4

-----------------------------------------------------------------------------
(***************************************************************************)
(* Packets that wait                                                        *)
(***************************************************************************)

\* At the source a packet has no choices behind it.
LEMMA AtSourceGood ==
  ASSUME Packets, NEW p \in Packet, AtSource(pk[p])
  PROVE  /\ pk[p] \in PacketState /\ pk[p].ttl >= 1
         /\ ~moved => /\ pk[p].chose = <<>> /\ ~pk[p].hdr.inRec
                      /\ pk[p].hdr.dst = pos[Dst[p]]
<1>1. pk[p].place \notin Outcomes
  BY PlacesDiffer DEF AtSource
<1>2. QED
  BY <1>1 DEF Packets, PacketOK, Course

LEMMA DeferredInv ==
  ASSUME World, NEW p \in Packet, DeferredRouteOutput(p)
  PROVE  World'
<1> DEFINE n == Src[p]
           q == queue[n]
           out == Displaced(q)
           e == Enqueue(q, p)
           a == InsertAddress(n, Dst[p])
           s == [pk[p] EXCEPT !.place = Queued]
<1>1. /\ pk[p].place = Loopback
      /\ timer' = TimerStarted(n)
      /\ queue' = [queue EXCEPT ![n] = e]
      /\ pk' = [k \in Packet |-> IF k \in out THEN [pk[k] EXCEPT !.place = Lost]
                                 ELSE IF k = p THEN s ELSE pk[k]]
      /\ addresses' = [addresses EXCEPT ![n] = a]
      /\ UNCHANGED <<pos, iface, table, moved, spent>>
  BY DEF DeferredRouteOutput
<1>2. n \in Node /\ Dst[p] \in Node /\ Dst[p] # n
  BY Addresses
<1> HIDE DEF n
<1>3. /\ QueueOK(n, q, addresses[n], Waiting) /\ addresses[n] \in Seq(Node)
      /\ ToSet(addresses[n]) \subseteq Node \ {n}
  BY <1>2 DEF World, Queues
<1>4. /\ q \in Seq(Packet) /\ Len(q) <= MaxQueueLen /\ IsInjective(q)
      /\ \A k \in ToSet(q) : Src[k] = n /\ k \in Waiting /\ Dst[k] \in ToSet(addresses[n])
  BY <1>3 DEF QueueOK
<1>5. p \notin Waiting /\ p \notin ToSet(q) /\ AtSource(pk[p])
  BY <1>1, <1>4, PlacesDiffer DEF Waiting, AtSource
<1> HIDE DEF q
<1>6. /\ e \in Seq(Packet) /\ Len(e) <= MaxQueueLen /\ e # <<>> /\ IsInjective(e)
      /\ ToSet(e) = (ToSet(q) \ out) \cup {p}
      /\ out \in SUBSET ToSet(q)
  BY <1>4, <1>5, Enqueued
<1>7. a \in Seq(Node) /\ ToSet(a) = ToSet(addresses[n]) \cup {Dst[p]}
  BY <1>2, <1>3, Inserted
<1> HIDE DEF e, a, out
<1>8. /\ pk[p] \in PacketState /\ pk[p].ttl >= 1
      /\ ~moved => pk[p].chose = <<>> /\ ~pk[p].hdr.inRec /\ pk[p].hdr.dst = pos[Dst[p]]
  BY <1>5, AtSourceGood DEF World
<1>9. /\ s \in PacketState /\ s.place = Queued /\ s.chose = pk[p].chose
      /\ s.hdr = pk[p].hdr /\ s.ttl = pk[p].ttl
  BY <1>8 DEF PacketState, PlacesOfPackets
<1> HIDE DEF s
<1>10. Good(p, s)
  <2>1. PacketOK(s)
    BY <1>8, <1>9 DEF PacketOK
  <2>2. AtSource(s) /\ s.place \notin Node
    BY <1>9, PlacesDiffer DEF AtSource
  <2>3. ASSUME ~moved PROVE Course(p, s)
    <3>1. s.chose = <<>>
      BY <1>8, <1>9, <2>3
    <3>2. Descends(p, s.chose)
      BY <3>1 DEF Descends
    <3>3. QED
      BY <1>8, <1>9, <2>2, <2>3, <3>1, <3>2 DEF Course
  <2>4. QED
    BY <2>1, <2>3 DEF Good
<1>11. \A k \in Packet : pk[k] \in PacketState /\ Good(k, pk[k])
  BY DEF World, Packets, Good
<1>12. p \notin out
  BY <1>5, <1>6
<1>13. ASSUME NEW k \in Packet
       PROVE  /\ pk'[k] \in PacketState /\ Good(k, pk'[k])
              /\ k \in out => pk'[k].place # Queued
              /\ k \notin out /\ k # p => pk'[k] = pk[k]
              /\ k = p => pk'[k].place = Queued
  <2>1. CASE k \in out
    <3>1. pk'[k] = [pk[k] EXCEPT !.place = Lost] /\ Lost \in Outcomes
      BY <1>1, <2>1 DEF Outcomes
    <3>2. QED
      BY <1>11, <1>12, <2>1, <3>1, EndGood
  <2>2. CASE k = p
    <3>1. pk'[k] = s
      BY <1>1, <1>12, <2>2
    <3>2. QED
      BY <1>9, <1>10, <1>12, <2>2, <3>1
  <2>3. CASE k \notin out /\ k # p
    <3>1. pk'[k] = pk[k]
      BY <1>1, <2>3
    <3>2. QED
      BY <1>11, <2>3, <3>1
  <2>4. QED
    BY <2>1, <2>2, <2>3
<1>14. Packets'
  <2>1. pk' \in [Packet -> PacketState]
    BY <1>1, <1>13
  <2>2. QED
    BY <1>1, <1>13, <2>1, PacketsKept
<1>15. Waiting' = (Waiting \ out) \cup {p}
  <2>1. \A k \in Packet : pk'[k].place = Queued <=> (pk[k].place = Queued /\ k \notin out) \/ k = p
    BY <1>13
  <2>2. QED
    BY <2>1 DEF Waiting
<1>16. Queues'
  <2>1. /\ queue' \in [Node -> Seq(Packet)]
        /\ \A k \in Node : queue'[k] = IF k = n THEN e ELSE queue[k]
    BY <1>1, <1>2, <1>6 DEF World, Queues
  <2>2. /\ addresses' \in [Node -> Seq(Node)]
        /\ \A k \in Node : addresses'[k] = IF k = n THEN a ELSE addresses[k]
    BY <1>1, <1>2, <1>7 DEF World, Queues
  <2>3. timer \subseteq timer' /\ n \in timer'
    <3>1. queue[n] # <<>> => n \in timer
      BY <1>2 DEF World, Queues
    <3>2. QED
      BY <1>1, <3>1 DEF TimerStarted
  <2>4. QueueOK(n, e, a, Waiting')
    <3>1. \A k \in ToSet(e) : Src[k] = n /\ k \in Waiting' /\ Dst[k] \in ToSet(a)
      BY <1>4, <1>6, <1>7, <1>15 DEF n
    <3>2. QED
      BY <1>6, <3>1 DEF QueueOK
  <2>5. ASSUME NEW k \in Node, k # n PROVE QueueOK(k, queue[k], addresses[k], Waiting')
    <3>1. QueueOK(k, queue[k], addresses[k], Waiting)
      BY DEF World, Queues
    <3>2. \A r \in ToSet(queue[k]) : Src[r] = k /\ r \in Waiting
      BY <3>1 DEF QueueOK
    <3>3. \A r \in ToSet(queue[k]) : r \in Waiting'
      BY <1>4, <1>6, <1>15, <2>5, <3>2
    <3>4. QED
      BY <3>1, <3>3 DEF QueueOK
  <2>6. ASSUME NEW k \in Node
        PROVE  /\ ToSet(addresses'[k]) \subseteq Node \ {k}
               /\ QueueOK(k, queue'[k], addresses'[k], Waiting')
               /\ queue'[k] # <<>> => k \in timer'
    <3>1. CASE k = n
      BY <1>2, <1>3, <1>7, <2>1, <2>2, <2>3, <2>4, <3>1
    <3>2. CASE k # n
      <4>1. queue'[k] = queue[k] /\ addresses'[k] = addresses[k]
        BY <2>1, <2>2, <3>2
      <4>2. ToSet(addresses[k]) \subseteq Node \ {k} /\ (queue[k] # <<>> => k \in timer)
        BY DEF World, Queues
      <4>3. QED
        BY <2>3, <2>5, <3>2, <4>1, <4>2
    <3>3. QED
      BY <3>1, <3>2
  <2>7. ASSUME NEW k \in Waiting' PROVE k \in ToSet(queue'[Src[k]])
    <3>1. k \in Packet /\ Src[k] \in Node
      BY Addresses DEF Waiting
    <3>2. CASE k = p
      BY <1>2, <1>6, <2>1, <3>2 DEF n
    <3>3. CASE k # p
      <4>1. k \in Waiting /\ k \notin out
        BY <1>15, <2>7, <3>3
      <4>2. k \in ToSet(queue[Src[k]])
        BY <4>1 DEF World, Queues
      <4>3. CASE Src[k] = n
        <5>1. k \in ToSet(e)
          BY <1>6, <4>1, <4>2, <4>3 DEF q
        <5>2. QED
          BY <2>1, <3>1, <4>3, <5>1
      <4>4. CASE Src[k] # n
        BY <2>1, <3>1, <4>2, <4>4
      <4>5. QED
        BY <4>3, <4>4
    <3>4. QED
      BY <3>2, <3>3
  <2>8. QED
    BY <2>1, <2>2, <2>6, <2>7 DEF Queues, QueueOK
<1>17. Vehicles' /\ Tables'
  <2>1. timer' \in SUBSET Node
    BY <1>1, <1>2 DEF World, Vehicles, TimerStarted
  <2>2. QED
    BY <1>1, <2>1 DEF World, Vehicles, Interfaces, Tables, TablesOf
<1>18. QED
  BY <1>14, <1>16, <1>17 DEF World

\* The queue empties: whatever waits at n is for a listed address.
LEMMA AllDequeued ==
  ASSUME Queues, NEW n \in Node
  PROVE  /\ Dequeued(n) = ToSet(queue[n])
         /\ Filter(queue[n], Packet \ Dequeued(n)) = <<>>
<1> DEFINE q == queue[n]
           T == Packet \ Dequeued(n)
           r == Filter(q, T)
<1>1. q \in Seq(Packet) /\ \A p \in ToSet(q) : Dst[p] \in ToSet(addresses[n])
  BY DEF Queues, QueueOK
<1>2. Dequeued(n) = ToSet(q)
  BY <1>1 DEF Dequeued
<1>3. \A i \in 1 .. Len(q) : q[i] \notin T
  BY <1>1, <1>2, Members
<1> HIDE DEF q, T
<1>4. r \in Seq(Packet) /\ \E g : Picks(q, T, Len(q), g, r)
  BY <1>1, FilterPicks
<1>5. PICK g : Picks(q, T, Len(q), g, r)
  BY <1>4
<1> HIDE DEF r
<1>6. Len(r) = 0
  <2> SUFFICES ASSUME Len(r) # 0 PROVE FALSE
    OBVIOUS
  <2>1. 1 \in 1 .. Len(r)
    BY <1>4
  <2>2. g[1] \in 1 .. Len(q) /\ r[1] = q[g[1]] /\ r[1] \in T
    BY <1>5, <2>1 DEF Picks
  <2>3. QED
    BY <1>3, <2>2
<1>7. r = <<>>
  BY <1>4, <1>6
<1>8. QED
  BY <1>2, <1>7 DEF q, T, r

LEMMA QueuedGood ==
  ASSUME World, NEW n \in Node, NEW p \in ToSet(queue[n])
  PROVE  /\ p \in Packet
         /\ Good(p, SendPacketFromQueue(n, ServedAt(n, Dst[p]), pk[p]))
         /\ SendPacketFromQueue(n, ServedAt(n, Dst[p]), pk[p]).place # Queued
<1> DEFINE k == ServedAt(n, Dst[p])
           t == TableFor(n, k)
           r == pk[p]
           d == addresses[n][k]
           hop == NextHop(n, t, d, GetPosition(d))
           h == [r.hdr EXCEPT !.rec = pos[n], !.inRec = TRUE]
<1>1. /\ p \in Packet /\ Src[p] = n /\ p \in Waiting /\ Dst[p] \in ToSet(addresses[n])
      /\ addresses[n] \in Seq(Node)
  <2>1. QueueOK(n, queue[n], addresses[n], Waiting) /\ addresses[n] \in Seq(Node)
    BY DEF World, Queues
  <2>2. QED
    BY <2>1, Members DEF QueueOK
<1>2. k \in 1 .. Len(addresses[n]) /\ d = Dst[p]
  <2> DEFINE S == {i \in DOMAIN addresses[n] : addresses[n][i] = Dst[p]}
  <2>1. S # {} /\ S \in SUBSET Nat
    BY <1>1, Members
  <2>2. \E i \in S : \A j \in S : i <= j
    <3> HIDE DEF S
    <3>1. QED
      BY <2>1, Least
  <2>3. Min(S) \in S
    <3> HIDE DEF S
    <3>1. QED
      BY <2>2 DEF Min
  <2>4. QED
    BY <1>1, <2>3 DEF ServedAt
<1>3. PartOf(n, t)
  BY Parts DEF World, TableFor
<1>4. AtSource(r)
  BY <1>1 DEF Waiting, AtSource
<1>5. /\ r \in PacketState /\ r.ttl >= 1
      /\ ~moved => r.chose = <<>> /\ ~r.hdr.inRec /\ r.hdr.dst = pos[Dst[p]]
  BY <1>1, <1>4, AtSourceGood DEF World
<1>6. /\ Dst[p] \in Node /\ Dst[p] # n /\ pos[n] \in Position /\ pos[Dst[p]] \in Position
  BY <1>1, Addresses DEF World, Vehicles
<1>7. ~moved => Nearer(p, r.chose, n)
  <2>1. Len(<<>>) = 0
    OBVIOUS
  <2>2. QED
    BY <1>5, <2>1 DEF Nearer, Descends
<1>8. SendPacketFromQueue(n, k, r) = IF hop # None THEN SendOn(r, n, hop) ELSE SendInRecovery(r, n, t)
  BY DEF SendPacketFromQueue
<1>9. hop # None => /\ hop \in Node
                    /\ ~moved => hop = Dst[p] \/ Way(p, hop) < Way(p, n)
  <2>1. hop = NextHop(n, t, Dst[p], pos[Dst[p]])
    BY <1>2 DEF GetPosition
  <2> HIDE DEF hop, t
  <2>2. hop # None => /\ hop \in Node
                      /\ ~moved => hop = Dst[p] \/ Distance(pos[hop], pos[Dst[p]]) < Distance(pos[n], pos[Dst[p]])
    BY <1>3, <1>6, <2>1, NextIsNearer
  <2>3. QED
    BY <2>2 DEF Way
<1> HIDE DEF hop, t, k, d
<1>10. CASE hop # None
  <2>1. r.hdr \in Header
    BY <1>5, PacketFields
  <2>2. [Chosen(r, n) EXCEPT !.hdr = r.hdr] = Chosen(r, n)
    BY <1>5, <2>1, ChosenState DEF PacketState
  <2>3. Good(p, IpForward([Chosen(r, n) EXCEPT !.hdr = r.hdr], hop))
    BY <1>1, <1>5, <1>7, <1>9, <1>10, <2>1, GreedyGood DEF World
  <2> DEFINE f == IpForward(Chosen(r, n), hop)
  <2>4. f.place \in {hop, Lost}
    <3>1. Chosen(r, n).ttl >= 1 /\ Chosen(r, n) \in PacketState
      BY <1>5, <2>1, <2>2, ChosenState
    <3>2. QED
      BY <1>9, <1>10, <3>1, Forwarded
  <2>5. SendPacketFromQueue(n, k, r) = f
    BY <1>8, <1>10 DEF SendOn
  <2>6. f.place # Queued
    BY <1>9, <1>10, <2>4, PlacesDiffer DEF Outcomes
  <2>7. Good(p, f)
    BY <2>2, <2>3
  <2> HIDE DEF f
  <2>8. QED
    BY <1>1, <2>5, <2>6, <2>7 DEF k
<1>11. CASE hop = None
  <2>1. r.hdr \in Header
    BY <1>5, PacketFields
  <2>2. h \in Header /\ h.rec = pos[n] /\ h.dst = r.hdr.dst
    BY <1>6, <2>1 DEF Header
  <2>3. [Chosen(r, n) EXCEPT !.hdr.rec = pos[n], !.hdr.inRec = TRUE] = [Chosen(r, n) EXCEPT !.hdr = h]
    <3> DEFINE c == Chosen(r, n)
    <3>1. c \in PacketState /\ c.hdr = r.hdr /\ r.hdr \in Header
      BY <1>1, <1>5, <2>1, ChosenState
    <3> HIDE DEF c
    <3>2. [c EXCEPT !.hdr.rec = pos[n], !.hdr.inRec = TRUE] =
            [c EXCEPT !.hdr = [c.hdr EXCEPT !.rec = pos[n], !.inRec = TRUE]]
      BY <3>1 DEF PacketState, Header
    <3>3. QED
      BY <3>1, <3>2 DEF c
  <2> DEFINE s == [Chosen(r, n) EXCEPT !.hdr = h]
             f == RecoveryMode(s, n, t)
  <2>4. SendPacketFromQueue(n, k, r) = f
    BY <1>8, <1>11, <2>3 DEF SendInRecovery
  <2> HIDE DEF h
  <2>5. t \in TablesOf(n)
    BY <1>3 DEF PartOf
  <2>6. Good(p, f)
    BY <1>1, <1>5, <1>7, <2>2, <2>5, BeginsRecovery DEF World
  <2>7. s \in PacketState /\ s.ttl >= 1
    BY <1>5, <2>2, ChosenState
  <2> HIDE DEF s
  <2>8. f.place \in Node \cup {Lost, GivenUp}
    BY <2>5, <2>7, RecoveryPacket DEF World
  <2> HIDE DEF f
  <2>9. f.place # Queued
    BY <2>8, PlacesDiffer DEF Outcomes
  <2>10. QED
    BY <1>1, <2>4, <2>6, <2>9 DEF k
<1>12. QED
  BY <1>10, <1>11

LEMMA CheckQueueInv ==
  ASSUME World, NEW n \in Node, CheckQueue(n)
  PROVE  World'
<1> DEFINE out == ToSet(queue[n])
           t == TableFor(n, Len(addresses[n]))
           new == [p \in Packet |-> IF p \in out THEN SendPacketFromQueue(n, ServedAt(n, Dst[p]), pk[p])
                                    ELSE pk[p]]
<1>1. /\ timer' = timer \ {n}
      /\ addresses' = [addresses EXCEPT ![n] = <<>>]
      /\ UNCHANGED <<pos, iface, moved, spent>>
      /\ table' = [table EXCEPT ![n] = t]
      /\ queue' = [queue EXCEPT ![n] = <<>>]
      /\ Send(n, new)
  <2>1. Dequeued(n) = out /\ Filter(queue[n], Packet \ Dequeued(n)) = <<>>
    BY AllDequeued DEF World
  <2>2. queue' = [queue EXCEPT ![n] = Filter(queue[n], Packet \ Dequeued(n))]
    BY DEF CheckQueue
  <2>3. Send(n, new)
    BY <2>1 DEF CheckQueue
  <2>4. QED
    BY <2>1, <2>2, <2>3 DEF CheckQueue
<1>2. \A p \in out : /\ p \in Packet /\ Src[p] = n /\ p \in Waiting
                     /\ Good(p, new[p]) /\ new[p].place # Queued
  <2> TAKE p \in out
  <2>1. p \in Packet /\ Src[p] = n /\ p \in Waiting
    <3>1. QueueOK(n, queue[n], addresses[n], Waiting)
      BY DEF World, Queues
    <3>2. QED
      BY <3>1, Members DEF QueueOK
  <2>2. new[p] = SendPacketFromQueue(n, ServedAt(n, Dst[p]), pk[p])
    BY <2>1
  <2> HIDE DEF new
  <2>3. QED
    BY <2>1, <2>2, QueuedGood
<1>3. \A p \in Packet \ out : new[p] = pk[p] /\ Good(p, new[p])
  BY DEF World, Packets, Good
<1>4. \A p \in Packet : Good(p, new[p])
  BY <1>2, <1>3
<1>5. new \in [Packet -> PacketState]
  <2>1. \A p \in Packet : new[p] \in PacketState
    BY <1>4 DEF Good, PacketOK
  <2>2. QED
    BY <2>1
<1> HIDE DEF new
<1>6. /\ Packets'
      /\ \A p \in Packet : pk'[p].place = Queued <=> new[p].place = Queued
  BY <1>1, <1>4, <1>5, Sent
<1>7. Waiting' = Waiting \ out
  <2>1. \A p \in Packet : pk'[p].place = Queued <=> pk[p].place = Queued /\ p \notin out
    BY <1>2, <1>3, <1>6
  <2>2. QED
    BY <2>1 DEF Waiting
<1>8. Queues'
  <2>1. <<>> \in Seq(Packet) /\ <<>> \in Seq(Node) /\ Len(<<>>) = 0
    OBVIOUS
  <2>2. /\ queue' \in [Node -> Seq(Packet)]
        /\ \A k \in Node : queue'[k] = IF k = n THEN <<>> ELSE queue[k]
    BY <1>1, <2>1 DEF World, Queues
  <2>3. /\ addresses' \in [Node -> Seq(Node)]
        /\ \A k \in Node : addresses'[k] = IF k = n THEN <<>> ELSE addresses[k]
    BY <1>1, <2>1 DEF World, Queues
  <2>4. ToSet(<<>>) = {}
    BY DEF ToSet
  <2>5. QueueOK(n, <<>>, <<>>, Waiting')
    <3>1. Len(<<>>) <= MaxQueueLen
      BY <2>1, Addresses
    <3>2. IsInjective(<<>>)
      BY DEF IsInjective
    <3>3. QED
      BY <2>1, <2>4, <3>1, <3>2 DEF QueueOK
  <2>6. ASSUME NEW k \in Node, k # n PROVE QueueOK(k, queue[k], addresses[k], Waiting')
    <3>1. QueueOK(k, queue[k], addresses[k], Waiting)
      BY DEF World, Queues
    <3>2. \A r \in ToSet(queue[k]) : Src[r] = k /\ r \in Waiting
      BY <3>1 DEF QueueOK
    <3>3. \A r \in ToSet(queue[k]) : r \in Waiting'
      BY <1>2, <1>7, <2>6, <3>2
    <3>4. QED
      BY <3>1, <3>3 DEF QueueOK
  <2>7. ASSUME NEW k \in Node
        PROVE  /\ ToSet(addresses'[k]) \subseteq Node \ {k}
               /\ QueueOK(k, queue'[k], addresses'[k], Waiting')
               /\ queue'[k] # <<>> => k \in timer'
    <3>1. CASE k = n
      BY <2>2, <2>3, <2>4, <2>5, <3>1
    <3>2. CASE k # n
      <4>1. queue'[k] = queue[k] /\ addresses'[k] = addresses[k]
        BY <2>2, <2>3, <3>2
      <4>2. ToSet(addresses[k]) \subseteq Node \ {k} /\ (queue[k] # <<>> => k \in timer)
        BY DEF World, Queues
      <4>3. QED
        BY <1>1, <2>6, <3>2, <4>1, <4>2
    <3>3. QED
      BY <3>1, <3>2
  <2>8. ASSUME NEW k \in Waiting' PROVE k \in ToSet(queue'[Src[k]])
    <3>1. k \in Packet /\ Src[k] \in Node /\ k \in Waiting /\ k \notin out
      BY <1>7, <2>8, Addresses DEF Waiting
    <3>2. k \in ToSet(queue[Src[k]])
      BY <3>1 DEF World, Queues
    <3>3. Src[k] # n
      BY <3>1, <3>2
    <3>4. QED
      BY <2>2, <3>1, <3>2, <3>3
  <2>9. QED
    BY <2>2, <2>3, <2>7, <2>8 DEF Queues, QueueOK
<1>9. Tables'
  <2>1. PartOf(n, t)
    BY Parts DEF World, TableFor
  <2> HIDE DEF t
  <2>2. QED
    BY <1>1, <2>1, TablesKept DEF World
<1>10. Vehicles'
  BY <1>1 DEF World, Vehicles, Interfaces
<1>11. QED
  BY <1>6, <1>8, <1>9, <1>10 DEF World

-----------------------------------------------------------------------------
(***************************************************************************)
(* A packet arrives                                                         *)
(***************************************************************************)

\* Where a vehicle may choose, it is nearer than all that have chosen.
LEMMA NextInTurn ==
  ASSUME World, NEW p \in Packet, NEW n \in Node, pk[p].place = n, Dst[p] # n, ~moved,
         pk[p].hdr.inRec => LeavesRecovery(pk[p].hdr, n)
  PROVE  Nearer(p, pk[p].chose, n)
<1> DEFINE r == pk[p]
<1>1. /\ r \in PacketState /\ Course(p, r) /\ pos \in Layouts
  BY DEF World, Vehicles, Packets
<1>2. r.chose \in Seq(Node) /\ r.hdr \in Header
  BY <1>1, PacketFields
<1>3. Descends(p, r.chose) /\ OnItsWay(p, r) /\ r.hdr.dst = pos[Dst[p]]
  BY <1>1 DEF Course
<1>4. CASE r.hdr.inRec
  <2>1. Way(p, n) < Distance(r.hdr.rec, pos[Dst[p]])
    BY <1>3, <1>4 DEF LeavesRecovery, Way
  <2>2. \A i \in 1 .. Len(r.chose) : Distance(r.hdr.rec, pos[Dst[p]]) <= Way(p, r.chose[i])
    BY <1>3, <1>4 DEF OnItsWay
  <2>3. Distance(r.hdr.rec, pos[Dst[p]]) \in Nat
    <3>1. r.hdr.rec \in Position /\ pos[Dst[p]] \in Position
      BY <1>1, <1>2, HeaderFields, Addresses
    <3>2. QED
      BY <3>1, DistanceType
  <2>4. Way(p, n) \in Nat /\ \A i \in 1 .. Len(r.chose) : Way(p, r.chose[i]) \in Nat
    BY <1>1, <1>2, WayType
  <2> HIDE DEF r
  <2>5. \A i \in 1 .. Len(r.chose) : Way(p, n) < Way(p, r.chose[i])
    BY <2>1, <2>2, <2>3, <2>4
  <2>6. QED
    BY <1>3, <2>5 DEF Nearer, r
<1>5. CASE ~r.hdr.inRec
  BY <1>3, <1>5 DEF OnItsWay, Nearer
<1>6. QED
  BY <1>4, <1>5

LEMMA ForwardingGood ==
  ASSUME World, NEW p \in Packet, NEW n \in Node, pk[p].place = n, Dst[p] # n,
         Forwarding(p, n, pk[p], Purge(table[n]))
  PROVE  \E s \in PacketState : Good(p, s) /\ s.place # Queued /\ SendOne(n, p, s)
<1> DEFINE r == pk[p]
           t == Purge(table[n])
<1>1. PartOf(n, t) /\ t \in TablesOf(n)
  BY Parts DEF World, PartOf
<1> HIDE DEF t
<1>2. n \notin Outcomes
  BY PlacesDiffer DEF Outcomes
<1>3. /\ r \in PacketState /\ r.ttl >= 1 /\ Vehicles
      /\ ~moved => Course(p, r)
  BY <1>2 DEF World, Packets, PacketOK
<1>4. r.hdr \in Header /\ pos[n] \in Position /\ pos[Dst[p]] \in Position /\ Dst[p] \in Node
  BY <1>3, PacketFields, Addresses DEF Vehicles
<1>5. ~moved => Descends(p, r.chose) /\ r.hdr.dst = pos[Dst[p]] /\ OnItsWay(p, r)
  BY <1>3 DEF Course
<1>6. \/ ForwardInRecovery(p, n, r, t)
      \/ /\ r.hdr.inRec => LeavesRecovery(r.hdr, n)
         /\ \E dst \in {DestinationOf(r.hdr, p)} : \E hop \in {NextHop(n, t, Dst[p], dst)} :
              IF hop # None THEN Greedy(p, n, r, dst, hop) ELSE EnterRecovery(p, n, r, t, dst)
  BY DEF Forwarding, t
<1>7. CASE ForwardInRecovery(p, n, r, t)
  <2> DEFINE s == RecoveryMode(r, n, t)
  <2>1. r.hdr.inRec /\ SendOne(n, p, s)
    BY <1>7 DEF ForwardInRecovery
  <2>2. ~moved => \A i \in 1 .. Len(r.chose) : Distance(r.hdr.rec, pos[Dst[p]]) <= Way(p, r.chose[i])
    BY <1>5, <2>1 DEF OnItsWay
  <2>3. Good(p, s)
    BY <1>1, <1>3, <1>5, <2>2, RecoveryGood
  <2>4. s \in PacketState /\ s.place \in Node \cup {Lost, GivenUp}
    BY <1>1, <1>3, RecoveryPacket
  <2> HIDE DEF s
  <2>5. s.place # Queued
    BY <2>4, PlacesDiffer DEF Outcomes
  <2>6. QED
    BY <2>1, <2>3, <2>4, <2>5
<1>8. ASSUME r.hdr.inRec => LeavesRecovery(r.hdr, n),
             NEW dst, dst = DestinationOf(r.hdr, p), NEW hop, hop = NextHop(n, t, Dst[p], dst),
             IF hop # None THEN Greedy(p, n, r, dst, hop) ELSE EnterRecovery(p, n, r, t, dst)
      PROVE  \E s \in PacketState : Good(p, s) /\ s.place # Queued /\ SendOne(n, p, s)
  <2>1. dst \in Position /\ (~moved => dst = pos[Dst[p]])
    BY <1>4, <1>5, <1>8, HeaderFields DEF DestinationOf, GetPosition
  <2>2. ~moved => Nearer(p, r.chose, n)
    BY <1>8, NextInTurn
  <2>3. CASE hop # None
    <3> DEFINE h == PositionHeader(r.hdr.src, dst, ThisSecond, Origin, FALSE, pos[n])
               c == [Chosen(r, n) EXCEPT !.hdr = h]
               s == IpForward(c, hop)
    <3>1. hop \in Node /\ (~moved => hop = Dst[p] \/ Way(p, hop) < Way(p, n))
      BY <1>1, <1>4, <1>8, <2>1, <2>3, NextIsNearer DEF Way
    <3>2. h \in Header
      BY <1>4, <2>1, HeaderFields, OriginType, HeaderType
    <3>3. ~h.inRec /\ h.dst = dst
      BY DEF PositionHeader
    <3>4. Chosen(r, n) \in PacketState /\ Chosen(r, n).hdr = r.hdr
      BY <1>3, <1>4, ChosenState
    <3>5. SendOne(n, p, s)
      <4>1. Greedy(p, n, r, dst, hop)
        BY <1>8, <2>3
      <4>2. [Chosen(r, n) EXCEPT !.hdr = PositionHeader(@.src, dst, ThisSecond, Origin, FALSE, pos[n])] = c
        BY <3>4
      <4>3. QED
        BY <4>1, <4>2 DEF Greedy
    <3> HIDE DEF h
    <3>6. Good(p, s)
      BY <1>3, <2>1, <2>2, <3>1, <3>2, <3>3, GreedyGood
    <3>7. s \in PacketState /\ s.place \in {hop, Lost}
      <4>1. c \in PacketState /\ c.ttl >= 1
        BY <1>3, <3>2, ChosenState
      <4> HIDE DEF c
      <4>2. QED
        BY <3>1, <4>1, Forwarded
    <3> HIDE DEF s
    <3>8. s.place # Queued
      BY <3>1, <3>7, PlacesDiffer DEF Outcomes
    <3>9. QED
      BY <3>5, <3>6, <3>7, <3>8
  <2>4. CASE hop = None
    <3> DEFINE h == [r.hdr EXCEPT !.inRec = TRUE, !.rec = pos[n], !.last = dst]
               c == [Chosen(r, n) EXCEPT !.hdr = h]
               s == RecoveryMode(c, n, t)
    <3>1. h \in Header /\ h.rec = pos[n] /\ h.dst = r.hdr.dst
      BY <1>4, <2>1 DEF Header
    <3>2. Chosen(r, n) \in PacketState /\ Chosen(r, n).hdr = r.hdr
      BY <1>3, <1>4, ChosenState
    <3>3. SendOne(n, p, s)
      <4>1. EnterRecovery(p, n, r, t, dst)
        BY <1>8, <2>4
      <4>2. [Chosen(r, n) EXCEPT !.hdr = [@ EXCEPT !.inRec = TRUE, !.rec = pos[n], !.last = dst]] = c
        BY <3>2
      <4>3. QED
        BY <4>1, <4>2 DEF EnterRecovery
    <3> HIDE DEF h
    <3>4. Good(p, s)
      BY <1>1, <1>3, <1>5, <2>2, <3>1, BeginsRecovery
    <3>5. s \in PacketState /\ s.place \in Node \cup {Lost, GivenUp}
      <4>1. c \in PacketState /\ c.ttl >= 1
        BY <1>3, <3>1, ChosenState
      <4> HIDE DEF c
      <4>2. QED
        BY <1>1, <1>3, <4>1, RecoveryPacket
    <3> HIDE DEF s
    <3>6. s.place # Queued
      BY <3>5, PlacesDiffer DEF Outcomes
    <3>7. QED
      BY <3>3, <3>4, <3>5, <3>6
  <2>5. QED
    BY <2>3, <2>4
<1>9. QED
  BY <1>6, <1>7, <1>8

LEMMA RouteInputInv ==
  ASSUME World, NEW p \in Packet, RouteInput(p)
  PROVE  World'
<1>1. PICK n \in Node :
        /\ pk[p].place = n
        /\ UNCHANGED <<pos, iface, queue, addresses, timer, apps, moved, spent>>
        /\ \/ Local(p, n)
           \/ /\ Dst[p] # n
              /\ \E r \in {Received(pk[p])}, t \in {Purge(table[n])} :
                   Forwarding(p, n, r, t) /\ table' = [table EXCEPT ![n] = t]
           \/ Refuse(p, n)
  BY DEF RouteInput
<1>2. n # Queued /\ Delivered \in Outcomes /\ Lost \in Outcomes
  BY PlacesDiffer DEF Outcomes
<1>3. ASSUME NEW o \in Outcomes, pk' = [pk EXCEPT ![p].place = o], UNCHANGED table PROVE World'
  <2>1. Packets' /\ Queues'
    BY <1>1, <1>2, <1>3, PacketEnds
  <2>2. QED
    BY <1>1, <1>3, <2>1 DEF World, Vehicles, Interfaces, Tables, TablesOf
<1>4. CASE Local(p, n)
  BY <1>2, <1>3, <1>4 DEF Local
<1>5. CASE Refuse(p, n)
  BY <1>2, <1>3, <1>5 DEF Refuse
<1>6. CASE /\ Dst[p] # n
           /\ \E r \in {Received(pk[p])}, t \in {Purge(table[n])} :
                Forwarding(p, n, r, t) /\ table' = [table EXCEPT ![n] = t]
  <2>1. Received(pk[p]) = pk[p]
    BY ReceivedIsSent DEF World, Packets
  <2>2. /\ Forwarding(p, n, pk[p], Purge(table[n]))
        /\ table' = [table EXCEPT ![n] = Purge(table[n])]
    BY <1>6, <2>1
  <2>3. PICK s \in PacketState : Good(p, s) /\ s.place # Queued /\ SendOne(n, p, s)
    BY <1>1, <1>6, <2>2, ForwardingGood
  <2>4. Packets' /\ \A q \in Packet : pk'[q].place = Queued <=> pk[q].place = Queued
    BY <1>1, <1>2, <2>3, SentOne DEF World
  <2>5. Queues'
    BY <1>1, <2>4, QueuesKept DEF World
  <2>6. Tables'
    BY <1>1, <2>2, Parts, TablesKept DEF World
  <2>7. QED
    BY <1>1, <2>4, <2>5, <2>6 DEF World, Vehicles, Interfaces
<1>7. QED
  BY <1>1, <1>4, <1>5, <1>6

LEMMA LoseInv ==
  ASSUME World, NEW p \in Packet, Lose(p)
  PROVE  World'
<1>1. /\ pk[p].place \in Node /\ pk' = [pk EXCEPT ![p].place = Lost] /\ Event
      /\ UNCHANGED <<pos, iface, table, queue, addresses, timer, moved>>
  BY DEF Lose
<1>2. Lost \in Outcomes /\ pk[p].place # Queued
  BY <1>1, PlacesDiffer DEF Outcomes
<1>3. Packets' /\ Queues'
  BY <1>1, <1>2, PacketEnds
<1>4. spent' \in 0 .. MaxEvents
  BY <1>1, Addresses DEF Event, World, Vehicles
<1>5. QED
  BY <1>1, <1>3, <1>4 DEF World, Vehicles, Interfaces, Tables, TablesOf

LEMMA LoopbackRefusedInv ==
  ASSUME World, NEW p \in Packet, LoopbackRefused(p)
  PROVE  World'
<1>1. /\ pk[p].place = Loopback /\ pk' = [pk EXCEPT ![p].place = Lost]
      /\ UNCHANGED <<pos, iface, table, queue, addresses, timer, moved, spent>>
  BY DEF LoopbackRefused
<1>2. Lost \in Outcomes /\ pk[p].place # Queued
  BY <1>1, PlacesDiffer DEF Outcomes
<1>3. Packets' /\ Queues'
  BY <1>1, <1>2, PacketEnds
<1>4. QED
  BY <1>1, <1>3 DEF World, Vehicles, Interfaces, Tables, TablesOf

-----------------------------------------------------------------------------
(***************************************************************************)
(* Neighbours, interfaces, time                                             *)
(***************************************************************************)

\* A step that leaves the packets alone.
LEMMA PacketsUntouched ==
  ASSUME World, UNCHANGED <<pk, pos, moved, queue, addresses, timer>>
  PROVE  Packets' /\ Queues'
<1>1. pk' \in [Packet -> PacketState] /\ \A p \in Packet : Good(p, pk'[p])
  BY DEF World, Packets, Good
<1>2. Packets'
  BY <1>1, PacketsKept
<1>3. Queues'
  BY QueuesKept DEF World
<1>4. QED
  BY <1>2, <1>3

LEMMA SpentType ==
  ASSUME Vehicles, Event
  PROVE  spent' \in 0 .. MaxEvents
BY Addresses DEF Vehicles, Event

LEMMA SendHelloInv ==
  ASSUME World, NEW n \in Node, SendHello(n)
  PROVE  World'
<1>1. PICK heard \in {HeardBy(n, DataLoss)} : \E missed \in {{}} \cup {{m} : m \in heard} :
         /\ IF missed = {} THEN UNCHANGED spent ELSE Event
         /\ table' = RecvGPSR(n, heard \ missed)
  BY DEF SendHello
<1>2. PICK missed \in {{}} \cup {{m} : m \in heard} :
         /\ IF missed = {} THEN UNCHANGED spent ELSE Event
         /\ table' = RecvGPSR(n, heard \ missed)
  BY <1>1
<1>3. UNCHANGED <<pk, pos, moved, iface, queue, addresses, timer>>
  BY DEF SendHello
<1> DEFINE e == [pos |-> pos[n], old |-> FALSE]
<1>4. pos[n] \in Position
  BY Addresses DEF World, Vehicles
<1>5. /\ e \in Entry /\ e.pos = pos[n]
  BY <1>4 DEF Entry
<1>6. \A m \in Node : AddEntry(table[m], n, DeserializeHello(Tail(SerializeHello(pos[n])))) = [table[m] EXCEPT ![n] = e]
  BY <1>4, HelloSurvives DEF AddEntry
<1> HIDE DEF e
<1>7. n \notin heard
  BY DEF HeardBy
<1>8. /\ DOMAIN table' = Node
      /\ \A m \in Node : table'[m] = table[m] \/ (m # n /\ table'[m] = [table[m] EXCEPT ![n] = e])
  <2>1. table' = [m \in Node |-> IF m \in up \cap (heard \ missed) THEN [table[m] EXCEPT ![n] = e] ELSE table[m]]
    BY <1>2, <1>6 DEF RecvGPSR
  <2>2. QED
    BY <1>7, <2>1
<1>9. \A m \in Node : table[m] \in [Node -> {None} \cup Entry] /\ table[m] \in TablesOf(m)
  BY DEF World, Tables
<1>10. ASSUME NEW m \in Node
       PROVE  /\ table'[m] \in [Node -> {None} \cup Entry] /\ table'[m] \in TablesOf(m)
              /\ \A k \in Node : table'[m][k] = table[m][k] \/ (k = n /\ table'[m][k] = e)
  <2>1. table[m] \in [Node -> {None} \cup Entry] /\ table[m][m] = None
    BY <1>9 DEF TablesOf
  <2>2. CASE table'[m] = table[m]
    BY <1>9, <2>1, <2>2
  <2>3. CASE m # n /\ table'[m] = [table[m] EXCEPT ![n] = e]
    BY <1>5, <2>1, <2>3 DEF TablesOf
  <2>4. QED
    BY <1>8, <2>2, <2>3
<1>11. table' \in [Node -> [Node -> {None} \cup Entry]]
  <2>1. table' = [m \in Node |-> table'[m]]
    BY <1>2 DEF RecvGPSR
  <2>2. QED
    BY <1>10, <2>1
<1>12. ASSUME ~moved, NEW m \in Node, NEW k \in Node, table'[m][k] # None
       PROVE  table'[m][k].pos = pos[k]
  <2>1. CASE table'[m][k] = table[m][k]
    BY <1>12, <2>1 DEF World, Tables
  <2>2. CASE k = n /\ table'[m][k] = e
    BY <1>5, <2>2
  <2>3. QED
    BY <1>10, <2>1, <2>2
<1>13. Tables'
  BY <1>3, <1>10, <1>11, <1>12 DEF Tables, TablesOf
<1>14. spent' \in 0 .. MaxEvents
  BY <1>2, SpentType DEF World, Vehicles
<1>15. Packets' /\ Queues'
  BY <1>3, PacketsUntouched
<1>16. QED
  BY <1>3, <1>13, <1>14, <1>15 DEF World, Vehicles, Interfaces

LEMMA BeaconInv ==
  ASSUME World, NEW n \in Node, Beacon(n)
  PROVE  World'
<1>1. UNCHANGED <<pos, iface, table, queue, addresses, timer, pk, moved, spent>>
  BY DEF Beacon
<1>2. Packets' /\ Queues'
  BY <1>1, PacketsUntouched
<1>3. QED
  BY <1>1, <1>2 DEF World, Vehicles, Interfaces, Tables, TablesOf

LEMMA AgeInv ==
  ASSUME World, NEW n \in Node, NEW m \in Node, Age(n, m)
  PROVE  World'
<1> DEFINE e == [table[n][m] EXCEPT !.old = TRUE]
           t == [table[n] EXCEPT ![m] = e]
<1>1. /\ table[n][m] # None /\ Event
      /\ table' = [table EXCEPT ![n][m].old = TRUE]
      /\ UNCHANGED <<pos, iface, queue, addresses, timer, pk, moved>>
  BY DEF Age
<1>2. /\ table \in [Node -> [Node -> {None} \cup Entry]] /\ table[n] \in TablesOf(n)
      /\ table[n][n] = None
  BY DEF World, Tables, TablesOf
<1>3. table[n][m] \in Entry
  BY <1>1, <1>2
<1>4. e \in Entry /\ e.pos = table[n][m].pos
  BY <1>3 DEF Entry
<1>5. table' = [table EXCEPT ![n] = t]
  BY <1>1, <1>2
<1> HIDE DEF e
<1>6. /\ t \in [Node -> {None} \cup Entry] /\ t[n] = None
      /\ t[m] = e /\ \A k \in Node \ {m} : t[k] = table[n][k]
  BY <1>1, <1>2, <1>4
<1> HIDE DEF t
<1>7. /\ table' \in [Node -> [Node -> {None} \cup Entry]]
      /\ \A k \in Node : table'[k] = IF k = n THEN t ELSE table[k]
  BY <1>2, <1>5, <1>6
<1>8. \A k \in Node : table'[k] \in TablesOf(k)
  BY <1>6, <1>7 DEF World, Tables, TablesOf
<1>9. ASSUME ~moved, NEW k \in Node, NEW j \in Node, table'[k][j] # None
      PROVE  table'[k][j].pos = pos[j]
  <2>1. \A i, l \in Node : table[i][l] # None => table[i][l].pos = pos[l]
    BY <1>9 DEF World, Tables
  <2>2. CASE k = n /\ j = m
    BY <1>1, <1>4, <1>6, <1>7, <2>1, <2>2
  <2>3. CASE ~(k = n /\ j = m)
    <3>1. table'[k][j] = table[k][j]
      BY <1>6, <1>7, <2>3
    <3>2. QED
      BY <1>9, <2>1, <3>1
  <2>4. QED
    BY <2>2, <2>3
<1>10. Tables'
  BY <1>1, <1>7, <1>8, <1>9 DEF Tables, TablesOf
<1>11. Packets' /\ Queues'
  BY <1>1, PacketsUntouched
<1>12. spent' \in 0 .. MaxEvents
  BY <1>1, SpentType DEF World
<1>13. QED
  BY <1>1, <1>10, <1>11, <1>12 DEF World, Vehicles, Interfaces

\* An interface that goes down or loses its address takes the table of neighbours along.
LEMMA TableCleared ==
  ASSUME World, NEW n \in Node, Event, table' = table \/ table' = [table EXCEPT ![n] = Clear],
         Interfaces', UNCHANGED <<pos, queue, addresses, timer, pk, moved>>
  PROVE  World'
<1>1. PartOf(n, table[n]) /\ PartOf(n, Clear)
  BY DEF World, Tables, PartOf, TablesOf, Neighbors, Clear
<1>2. PICK t : PartOf(n, t) /\ table' = [table EXCEPT ![n] = t]
  <2>1. table = [table EXCEPT ![n] = table[n]]
    BY DEF World, Tables
  <2>2. QED
    BY <1>1, <2>1
<1>3. Tables'
  BY <1>2, TablesKept DEF World
<1>4. Packets' /\ Queues'
  BY PacketsUntouched
<1>5. spent' \in 0 .. MaxEvents
  BY SpentType DEF World
<1>6. QED
  BY <1>3, <1>4, <1>5 DEF World, Vehicles

LEMMA InterfaceDownInv ==
  ASSUME World, NEW n \in Node, NotifyInterfaceDown(n)
  PROVE  World'
<1>1. Interfaces'
  BY DEF NotifyInterfaceDown, World, Vehicles, Interfaces
<1>2. QED
  BY <1>1, TableCleared DEF NotifyInterfaceDown

LEMMA RemoveAddressInv ==
  ASSUME World, NEW n \in Node, NotifyRemoveAddress(n)
  PROVE  World'
<1>1. Interfaces'
  BY DEF NotifyRemoveAddress, World, Vehicles, Interfaces
<1>2. QED
  BY <1>1, TableCleared DEF NotifyRemoveAddress

\* Only who takes part changes.
LEMMA TakesPart ==
  ASSUME World, Interfaces', UNCHANGED <<pos, table, queue, addresses, timer, pk, moved, spent>>
  PROVE  World'
<1>1. Packets' /\ Queues'
  BY PacketsUntouched
<1>2. QED
  BY <1>1 DEF World, Vehicles, Tables, TablesOf

LEMMA InterfaceUpInv ==
  ASSUME World, NEW n \in Node, NotifyInterfaceUp(n)
  PROVE  World'
<1>1. Interfaces'
  BY DEF NotifyInterfaceUp, World, Vehicles, Interfaces
<1>2. QED
  BY <1>1, TakesPart DEF NotifyInterfaceUp

LEMMA AddAddressInv ==
  ASSUME World, NEW n \in Node, NotifyAddAddress(n)
  PROVE  World'
<1>1. Interfaces'
  BY DEF NotifyAddAddress, World, Vehicles, Interfaces
<1>2. QED
  BY <1>1, TakesPart DEF NotifyAddAddress

LEMMA MoveInv ==
  ASSUME World, Move
  PROVE  World'
<1>1. /\ Event /\ pos' \in Layouts /\ moved' = TRUE
      /\ UNCHANGED <<iface, table, queue, addresses, timer, pk>>
  BY DEF Move
<1>2. Queues'
  BY <1>1, QueuesKept DEF World
<1>3. spent' \in 0 .. MaxEvents
  BY <1>1, SpentType DEF World
<1>4. Packets' /\ Tables'
  BY <1>1 DEF World, Packets, Tables, TablesOf, PacketOK
<1>5. QED
  BY <1>1, <1>2, <1>3, <1>4 DEF World, Vehicles, Interfaces

LEMMA SecondPassesInv ==
  ASSUME World, SecondPasses
  PROVE  World'
<1>1. /\ pk' = [p \in Packet |-> [pk[p] EXCEPT !.hdr.updated = Earlier]]
      /\ UNCHANGED <<pos, iface, table, queue, addresses, timer, moved, spent>>
  BY DEF SecondPasses
<1>2. ASSUME NEW p \in Packet
      PROVE  /\ pk'[p] \in PacketState /\ Good(p, pk'[p])
             /\ pk'[p].place = pk[p].place
  <2> DEFINE r == pk[p]
             h == [r.hdr EXCEPT !.updated = Earlier]
             s == [r EXCEPT !.hdr = h]
  <2>1. r \in PacketState /\ PacketOK(r) /\ (~moved => Course(p, r))
    BY DEF World, Packets
  <2>2. r.hdr \in Header
    BY <2>1, PacketFields
  <2>3. h \in Header /\ h.dst = r.hdr.dst /\ h.rec = r.hdr.rec /\ h.inRec = r.hdr.inRec
    BY <2>2 DEF Header
  <2>4. pk'[p] = s
    BY <1>1
  <2> HIDE DEF h, r
  <2>5. s \in PacketState /\ s.place = r.place /\ s.ttl = r.ttl /\ s.chose = r.chose /\ s.hdr = h
    BY <2>1, <2>3 DEF PacketState
  <2> HIDE DEF s
  <2>6. PacketOK(s)
    BY <2>1, <2>5 DEF PacketOK
  <2>7. Course(p, r) => Course(p, s)
    BY <2>3, <2>5 DEF Course, OnItsWay, AtSource
  <2>8. QED
    BY <2>1, <2>4, <2>5, <2>6, <2>7 DEF Good, r
<1>3. pk' \in [Packet -> PacketState]
  BY <1>1, <1>2
<1>4. Packets'
  BY <1>1, <1>2, <1>3, PacketsKept
<1>5. Queues'
  BY <1>1, <1>2, QueuesKept DEF World
<1>6. QED
  BY <1>1, <1>4, <1>5 DEF World, Vehicles, Interfaces, Tables, TablesOf

-----------------------------------------------------------------------------
(***************************************************************************)
(* The applications                                                         *)
(***************************************************************************)

LEMMA Amounts ==
  /\ PacketBits \in Nat \ {0} /\ OnTime \in Nat \ {0} /\ OffTime \in Nat /\ Idle = -1
  /\ EchoInterval \in Nat \ {0} /\ EchoCount \in Nat \ {0} /\ MaxPackets \in Nat \ {0}
<1>1. Flow \in Seq(Packet) /\ Flow # <<>> /\ MaxPackets = Len(Flow)
  BY GpsrAssumption DEF GpsrAssumption
<1>2. Len(Flow) \in Nat /\ Len(Flow) # 0
  BY <1>1
<1>3. QED
  BY <1>1, <1>2, ApplicationsAssumption DEF ApplicationsAssumption, Idle

LEMMA Times ==
  Idle \in Int /\ OnTime \in Int /\ OffTime \in Int /\ PacketBits \in Int /\ 0 \in Nat /\ 0 \in Int
BY Amounts

OnOffStates ==
  [state : {"new", "open", "closed"}, send : Int, startStop : Int, next : {"start", "stop"},
   since : Nat, residual : Nat, sent : Nat, on : Nat]

LEMMA OnOffFields ==
  ASSUME NEW a \in OnOffStates
  PROVE  /\ a.state \in {"new", "open", "closed"} /\ a.send \in Int /\ a.startStop \in Int
         /\ a.next \in {"start", "stop"} /\ a.since \in Nat /\ a.residual \in Nat
         /\ a.sent \in Nat /\ a.on \in Nat
BY DEF OnOffStates

LEMMA InitOnOff == OnOffOK(OnOff)
<1>1. OnOff \in OnOffStates
  BY Amounts DEF OnOff, OnOffStates
<1>2. 0 = 0 * PacketBits + 0 + 0 /\ 0 + 0 <= PacketBits /\ 0 <= MaxPackets /\ Idle = Idle
  BY Amounts
<1>3. QED
  BY <1>1, <1>2 DEF OnOffOK, KeepsRate, OnOff, OnOffStates

\* When the timers are cancelled the bits that are due are kept.
LEMMA Cancelled ==
  ASSUME NEW a, OnOffOK(a)
  PROVE  /\ CancelEvents(a) \in OnOffStates
         /\ CancelEvents(a).send = Idle /\ CancelEvents(a).startStop = Idle
         /\ CancelEvents(a).since = 0 /\ CancelEvents(a).sent = a.sent
         /\ CancelEvents(a).state = a.state /\ CancelEvents(a).on = a.on
         /\ KeepsRate(CancelEvents(a))
<1> DEFINE r == IF a.send # Idle THEN a.residual + a.since ELSE a.residual
           b == CancelEvents(a)
<1>1. a \in OnOffStates
  BY DEF OnOffOK, OnOffStates
<1>2. r \in Nat /\ r = a.residual + a.since
  BY <1>1, OnOffFields DEF OnOffOK
<1>3. b = [a EXCEPT !.residual = r, !.send = Idle, !.startStop = Idle, !.since = 0]
  BY <1>1 DEF CancelEvents, OnOffStates
<1> HIDE DEF r, b
<1>4. /\ b \in OnOffStates /\ b.send = Idle /\ b.startStop = Idle /\ b.since = 0
      /\ b.sent = a.sent /\ b.state = a.state /\ b.on = a.on /\ b.residual = r
  <2>1. b \in OnOffStates
    BY <1>1, <1>2, <1>3, Times DEF OnOffStates
  <2>2. /\ b.send = Idle /\ b.startStop = Idle /\ b.since = 0
        /\ b.sent = a.sent /\ b.state = a.state /\ b.on = a.on /\ b.residual = r
    BY <1>1, <1>3 DEF OnOffStates
  <2>3. QED
    BY <2>1, <2>2
<1>5. /\ a.on = a.sent * PacketBits + a.residual + a.since /\ a.residual + a.since <= PacketBits
      /\ a.sent * PacketBits \in Nat
  BY <1>1, OnOffFields, Amounts DEF OnOffOK, KeepsRate
<1>6. /\ b.on = b.sent * PacketBits + b.residual + b.since /\ b.residual + b.since <= PacketBits
  BY <1>1, <1>2, <1>4, <1>5, OnOffFields, Amounts
<1>7. QED
  BY <1>4, <1>6 DEF KeepsRate, b

LEMMA StopOnOffOK ==
  ASSUME NEW a, OnOffOK(a)
  PROVE  OnOffOK(StopOnOff(a))
<1> DEFINE b == CancelEvents(a)
           c == [b EXCEPT !.state = "closed"]
<1>1. /\ b \in OnOffStates /\ b.send = Idle /\ b.startStop = Idle /\ b.since = 0
      /\ b.sent = a.sent /\ KeepsRate(b)
  BY Cancelled
<1> HIDE DEF b
<1>2. /\ c \in OnOffStates /\ c.state = "closed" /\ c.send = Idle /\ c.startStop = Idle /\ c.since = 0
      /\ c.sent = a.sent /\ c.residual = b.residual /\ c.on = b.on /\ c.since = b.since /\ c.sent = b.sent
  BY <1>1 DEF OnOffStates
<1> HIDE DEF c
<1>3. KeepsRate(c) /\ c.sent <= MaxPackets
  BY <1>1, <1>2 DEF KeepsRate, OnOffOK
<1>4. OnOffOK(c)
  BY <1>2, <1>3 DEF OnOffOK, OnOffStates
<1>5. QED
  BY <1>4 DEF StopOnOff, b, c

\* The application waits for the time to go on.
LEMMA WaitsOff ==
  ASSUME NEW b \in OnOffStates, b.send = Idle, b.since = 0, KeepsRate(b),
         b.sent < MaxPackets, b.state = "open"
  PROVE  OnOffOK(ScheduleStartEvent(b))
<1> DEFINE c == ScheduleStartEvent(b)
<1>1. /\ c \in OnOffStates /\ c.state = b.state /\ c.send = Idle /\ c.startStop = OffTime
      /\ c.next = "start" /\ c.since = b.since /\ c.sent = b.sent /\ c.residual = b.residual
      /\ c.on = b.on
  <2>1. c = [b EXCEPT !.startStop = OffTime, !.next = "start"]
    BY DEF ScheduleStartEvent
  <2> HIDE DEF c
  <2>2. c \in OnOffStates
    BY <2>1, Times DEF OnOffStates
  <2>3. /\ c.state = b.state /\ c.send = Idle /\ c.startStop = OffTime
        /\ c.next = "start" /\ c.since = b.since /\ c.sent = b.sent /\ c.residual = b.residual
        /\ c.on = b.on
    BY <2>1 DEF OnOffStates
  <2>4. QED
    BY <2>2, <2>3
<1> HIDE DEF c
<1>2. KeepsRate(c) /\ c.sent <= MaxPackets /\ c.sent < MaxPackets
  BY <1>1, OnOffFields, Amounts DEF KeepsRate
<1>3. c.since = 0 /\ c.state = "open"
  BY <1>1, OnOffFields
<1>4. OnOffOK(c)
  BY <1>1, <1>2, <1>3 DEF OnOffOK, OnOffStates
<1>5. QED
  BY <1>4 DEF c

LEMMA StartOnOffOK ==
  ASSUME NEW a, OnOffOK(a), a.state = "new"
  PROVE  OnOffOK(StartOnOff(a))
<1> DEFINE o == [a EXCEPT !.state = "open"]
           b == CancelEvents(o)
<1>1. a \in OnOffStates /\ a.sent = 0 /\ a.send = Idle /\ a.startStop = Idle /\ a.since = 0
  BY DEF OnOffOK, OnOffStates
<1>2. /\ o \in OnOffStates /\ o.state = "open" /\ o.sent = 0 /\ o.send = Idle /\ o.startStop = Idle
      /\ o.since = 0 /\ o.residual = a.residual /\ o.on = a.on /\ o.next = a.next
  BY <1>1 DEF OnOffStates
<1> HIDE DEF o
<1>3. OnOffOK(o)
  <2>1. KeepsRate(o) /\ o.sent <= MaxPackets
    BY <1>1, <1>2 DEF OnOffOK, KeepsRate
  <2>2. QED
    BY <1>2, <2>1 DEF OnOffOK, OnOffStates
<1>4. /\ b \in OnOffStates /\ b.send = Idle /\ b.since = 0 /\ b.sent = 0 /\ b.state = "open"
      /\ KeepsRate(b)
  BY <1>2, <1>3, Cancelled
<1> HIDE DEF b
<1>5. b.sent < MaxPackets
  BY <1>4, Amounts
<1>6. OnOffOK(ScheduleStartEvent(b))
  BY <1>4, <1>5, WaitsOff
<1>7. QED
  BY <1>6 DEF StartOnOff, b, o

\* A packet is sent when all its bits were due.
LEMMA SendPacketOK ==
  ASSUME NEW a, OnOffOK(a), PacketDue(a)
  PROVE  OnOffOK(SendPacket(a)) /\ a.sent < MaxPackets
<1> DEFINE b == [a EXCEPT !.send = Idle, !.sent = a.sent + 1, !.since = 0, !.residual = 0]
           c == [b EXCEPT !.send = PacketBits - b.residual]
<1>1. /\ a \in OnOffStates /\ a.send = 0 /\ a.send # Idle /\ a.startStop # Idle /\ a.next = "stop"
      /\ a.sent < MaxPackets /\ a.residual + a.since = PacketBits /\ a.state = "open"
      /\ a.on = a.sent * PacketBits + a.residual + a.since
  <2>1. a \in OnOffStates /\ a.send = 0 /\ a.send # Idle
    BY Amounts DEF OnOffOK, PacketDue, OnOffStates
  <2>2. QED
    BY <2>1, OnOffFields DEF OnOffOK, KeepsRate
<1>2. /\ b \in OnOffStates /\ b.send = Idle /\ b.sent = a.sent + 1 /\ b.since = 0 /\ b.residual = 0
      /\ b.state = "open" /\ b.startStop = a.startStop /\ b.next = "stop" /\ b.on = a.on
  <2>1. a.sent + 1 \in Nat
    BY <1>1, OnOffFields
  <2>2. b \in OnOffStates
    BY <1>1, <2>1, Times DEF OnOffStates
  <2>3. /\ b.send = Idle /\ b.sent = a.sent + 1 /\ b.since = 0 /\ b.residual = 0
        /\ b.state = "open" /\ b.startStop = a.startStop /\ b.next = "stop" /\ b.on = a.on
    BY <1>1 DEF OnOffStates
  <2>4. QED
    BY <2>2, <2>3
<1>3. a.on = (a.sent + 1) * PacketBits
  <2>1. a.on \in Nat /\ a.sent \in Nat /\ a.residual \in Nat /\ a.since \in Nat /\ PacketBits \in Nat
    BY <1>1, OnOffFields, Amounts
  <2>2. (a.sent + 1) * PacketBits = a.sent * PacketBits + PacketBits
    BY <2>1
  <2>3. QED
    BY <1>1, <2>1, <2>2
<1>4. SendPacket(a) = IF b.sent < MaxPackets THEN c ELSE StopOnOff(b)
  BY <1>1, Amounts DEF SendPacket, ScheduleNextTx, OnOffStates
<1> HIDE DEF b
<1>5. b.on = b.sent * PacketBits + b.residual + b.since /\ b.residual + b.since <= PacketBits
      /\ b.sent <= MaxPackets
  <2>1. a.sent \in Nat /\ (a.sent + 1) * PacketBits \in Nat
    BY <1>1, OnOffFields, Amounts
  <2>2. QED
    BY <1>1, <1>2, <1>3, <2>1, Amounts
<1>6. CASE b.sent < MaxPackets
  <2>1. /\ c \in OnOffStates /\ c.send = PacketBits /\ c.sent = b.sent /\ c.since = 0 /\ c.residual = 0
        /\ c.state = "open" /\ c.startStop = b.startStop /\ c.next = "stop" /\ c.on = b.on
    BY <1>2, Amounts DEF OnOffStates
  <2> HIDE DEF c
  <2>2. KeepsRate(c)
    BY <1>2, <1>5, <2>1 DEF KeepsRate
  <2>3. c.send >= 0 /\ c.send + c.residual + c.since = PacketBits /\ c.send # Idle
    BY <2>1, Amounts
  <2>4. c.startStop # Idle /\ c.sent < MaxPackets /\ c.sent <= MaxPackets
    BY <1>1, <1>2, <1>5, <1>6, <2>1
  <2>5. OnOffOK(c)
    BY <2>1, <2>2, <2>3, <2>4 DEF OnOffOK, OnOffStates
  <2>6. QED
    BY <1>1, <1>4, <1>6, <2>5
<1>7. CASE ~(b.sent < MaxPackets)
  \* The invariant does not hold of b, whose timer to stop still runs, but what Cancelled
  \* needs of it does.
  <2> DEFINE d == [b EXCEPT !.startStop = Idle]
  <2>1. /\ d \in OnOffStates /\ d.send = Idle /\ d.sent = b.sent /\ d.since = 0 /\ d.residual = 0
        /\ d.state = "open" /\ d.startStop = Idle /\ d.next = "stop" /\ d.on = b.on
    BY <1>2, Amounts DEF OnOffStates
  <2>2. StopOnOff(b) = StopOnOff(d)
    BY <1>2 DEF StopOnOff, CancelEvents, OnOffStates
  <2> HIDE DEF d
  <2>3. KeepsRate(d) /\ d.sent <= MaxPackets
    BY <1>2, <1>5, <2>1 DEF KeepsRate
  <2>4. OnOffOK(d)
    BY <2>1, <2>3 DEF OnOffOK, OnOffStates
  <2>5. OnOffOK(StopOnOff(b))
    BY <2>2, <2>4, StopOnOffOK
  <2>6. QED
    BY <1>1, <1>4, <1>7, <2>5
<1>8. QED
  BY <1>6, <1>7

LEMMA ChangeOK ==
  ASSUME NEW a, OnOffOK(a), ChangeDue(a)
  PROVE  OnOffOK(Change(a))
<1>1. /\ a \in OnOffStates /\ a.startStop = 0 /\ a.startStop # Idle /\ a.sent < MaxPackets
      /\ a.state = "open" /\ KeepsRate(a)
  BY Amounts DEF OnOffOK, ChangeDue, OnOffStates
<1> DEFINE b == [a EXCEPT !.startStop = Idle]
<1>2. CASE a.next = "start"
  <2> DEFINE c == [a EXCEPT !.startStop = OnTime, !.since = 0, !.send = PacketBits - a.residual,
                            !.next = "stop"]
  <2>1. a.send = Idle /\ a.since = 0
    BY <1>1, <1>2, OnOffFields DEF OnOffOK
  <2>2. PacketBits - a.residual \in Int /\ PacketBits - a.residual >= 0 /\ a.residual \in Nat
    BY <1>1, <2>1, OnOffFields, Amounts DEF KeepsRate
  <2>3. Change(a) = c
    BY <1>1, <1>2, <2>2, Amounts
       DEF Change, StartSending, ScheduleNextTx, ScheduleStopEvent, OnOffStates
  <2>4. /\ c \in OnOffStates /\ c.send = PacketBits - a.residual /\ c.startStop = OnTime
        /\ c.next = "stop" /\ c.since = a.since /\ c.residual = a.residual /\ c.sent = a.sent
        /\ c.on = a.on /\ c.state = "open"
    <3>1. c \in OnOffStates
      BY <1>1, <2>2, Times DEF OnOffStates
    <3>2. /\ c.send = PacketBits - a.residual /\ c.startStop = OnTime
          /\ c.next = "stop" /\ c.since = a.since /\ c.residual = a.residual /\ c.sent = a.sent
          /\ c.on = a.on /\ c.state = "open"
      BY <1>1, <2>1 DEF OnOffStates
    <3>3. QED
      BY <3>1, <3>2
  <2> HIDE DEF c
  <2>5. KeepsRate(c) /\ c.sent <= MaxPackets /\ c.sent < MaxPackets
    BY <1>1, <2>4 DEF KeepsRate, OnOffOK
  <2>6. c.send # Idle /\ c.startStop # Idle /\ c.send >= 0 /\ c.send + c.residual + c.since = PacketBits
    BY <2>1, <2>2, <2>4, Amounts
  <2>7. OnOffOK(c)
    BY <2>4, <2>5, <2>6 DEF OnOffOK, OnOffStates
  <2>8. QED
    BY <2>3, <2>7
<1>3. CASE a.next = "stop"
  <2> DEFINE c == CancelEvents(a)
  <2>1. CancelEvents(b) = c
    BY <1>1 DEF CancelEvents, OnOffStates
  <2>2. Change(a) = ScheduleStartEvent(c)
    BY <1>3, <2>1 DEF Change, StopSending
  <2>3. /\ c \in OnOffStates /\ c.send = Idle /\ c.since = 0 /\ c.sent = a.sent
        /\ c.state = "open" /\ KeepsRate(c)
    BY <1>1, Cancelled
  <2> HIDE DEF c
  <2>4. OnOffOK(ScheduleStartEvent(c))
    BY <1>1, <2>3, WaitsOff
  <2>5. QED
    BY <2>2, <2>4
<1>4. QED
  BY <1>1, <1>2, <1>3, OnOffFields

LEMMA TickOnOffOK ==
  ASSUME NEW a, OnOffOK(a), ~PacketDue(a), ~ChangeDue(a)
  PROVE  OnOffOK(TickOnOff(a))
<1>1. a \in OnOffStates
  BY DEF OnOffOK, OnOffStates
<1> DEFINE b == TickOnOff(a)
<1>2. CASE a.send = Idle
  <2> DEFINE w == IF a.startStop = Idle THEN Idle ELSE a.startStop - 1
  <2>1. a.since = 0 /\ ~(a.startStop # Idle /\ a.next = "stop")
    BY <1>2 DEF OnOffOK
  <2>2. w \in Int /\ (w # Idle <=> a.startStop # Idle)
    BY <1>1, OnOffFields, Amounts DEF ChangeDue
  <2>3. b = [a EXCEPT !.startStop = w]
    BY <1>1, <1>2, <2>1 DEF TickOnOff, OnOffStates
  <2> HIDE DEF w, b
  <2>4. /\ b \in OnOffStates /\ b.startStop = w /\ b.send = Idle /\ b.state = a.state /\ b.next = a.next
        /\ b.since = 0 /\ b.since = a.since /\ b.residual = a.residual /\ b.sent = a.sent /\ b.on = a.on
    BY <1>1, <1>2, <2>1, <2>2, <2>3 DEF OnOffStates
  <2>5. KeepsRate(b) /\ b.sent <= MaxPackets
    BY <2>4 DEF OnOffOK, KeepsRate
  <2>6. OnOffOK(b)
    <3>1. /\ a.state = "new" => a.sent = 0
          /\ a.startStop # Idle => a.state = "open" /\ a.sent < MaxPackets
      BY DEF OnOffOK
    <3>2. QED
      BY <2>1, <2>2, <2>4, <2>5, <3>1 DEF OnOffOK, OnOffStates
  <2>7. QED
    BY <2>6 DEF b
<1>3. CASE a.send # Idle
  <2>1. /\ a.startStop # Idle /\ a.next = "stop" /\ a.send >= 0 /\ a.state = "open"
        /\ a.send + a.residual + a.since = PacketBits /\ a.sent < MaxPackets
        /\ a.on = a.sent * PacketBits + a.residual + a.since
    BY <1>3 DEF OnOffOK, KeepsRate
  <2>2. a.send # 0 /\ a.startStop # 0
    BY DEF PacketDue, ChangeDue
  <2>3. /\ a.send - 1 \in Int /\ a.send - 1 >= 0 /\ a.send - 1 # Idle
        /\ a.startStop - 1 \in Int /\ a.startStop - 1 # Idle
        /\ a.since + 1 \in Nat /\ a.on + 1 \in Nat
    BY <1>1, <2>1, <2>2, OnOffFields, Amounts
  <2>4. b = [a EXCEPT !.send = a.send - 1, !.startStop = a.startStop - 1, !.since = a.since + 1,
                      !.on = a.on + 1]
    BY <1>1, <1>3, <2>1 DEF TickOnOff, OnOffStates
  <2> HIDE DEF b
  <2>5. /\ b \in OnOffStates /\ b.send = a.send - 1 /\ b.startStop = a.startStop - 1
        /\ b.since = a.since + 1 /\ b.on = a.on + 1 /\ b.state = "open" /\ b.next = "stop"
        /\ b.residual = a.residual /\ b.sent = a.sent
    BY <1>1, <2>1, <2>3, <2>4 DEF OnOffStates
  <2>6. KeepsRate(b) /\ b.send + b.residual + b.since = PacketBits
    <3>1. /\ a.sent * PacketBits \in Nat /\ a.send \in Int /\ a.residual \in Nat /\ a.since \in Nat
          /\ a.on \in Nat /\ PacketBits \in Nat
      BY <1>1, OnOffFields, Amounts
    <3>2. b.sent * PacketBits = a.sent * PacketBits
      BY <2>5
    <3>3. b.on = b.sent * PacketBits + b.residual + b.since
      BY <2>1, <2>5, <3>1, <3>2
    <3>4. b.send + b.residual + b.since = PacketBits
      BY <2>1, <2>5, <3>1
    <3>5. b.residual + b.since <= PacketBits
      BY <2>1, <2>2, <2>5, <3>1
    <3>6. QED
      BY <3>3, <3>4, <3>5 DEF KeepsRate
  <2>7. b.sent <= MaxPackets /\ b.sent < MaxPackets
    BY <2>1, <2>5 DEF OnOffOK
  <2>8. OnOffOK(b)
    BY <2>3, <2>5, <2>6, <2>7 DEF OnOffOK, OnOffStates
  <2>9. QED
    BY <2>8 DEF b
<1>4. QED
  BY <1>2, <1>3

EchoStates == [state : {"new", "open", "closed"}, send : Int, sent : Nat]

LEMMA EchoSteps ==
  ASSUME NEW e, EchoOK(e)
  PROVE  /\ e.state = "new" => EchoOK(StartEcho(e))
         /\ EchoOK(StopEcho(e))
         /\ EchoDue(e) => EchoOK(SendEcho(e)) /\ e.sent < EchoCount
         /\ ~EchoDue(e) => EchoOK(TickEcho(e))
<1>1. /\ e \in EchoStates
      /\ e.sent <= EchoCount
      /\ e.state = "new" => e.sent = 0
      /\ e.send # Idle => e.state = "open" /\ e.sent < EchoCount
  BY DEF EchoOK, EchoStates
<1>2. e.sent \in Nat /\ e.send \in Int
  BY <1>1 DEF EchoStates
<1>3. ASSUME e.state = "new" PROVE EchoOK(StartEcho(e))
  <2> DEFINE x == StartEcho(e)
  <2>1. x \in EchoStates
    BY <1>1, Times DEF StartEcho, EchoStates
  <2>2. x.state = "open" /\ x.send = 0 /\ x.sent = e.sent
    BY <1>1 DEF StartEcho, EchoStates
  <2>3. e.sent < EchoCount
    BY <1>1, <1>3, Amounts
  <2> HIDE DEF x
  <2>4. EchoOK(x)
    BY <1>1, <2>1, <2>2, <2>3 DEF EchoOK, EchoStates
  <2>5. QED
    BY <2>4 DEF x
<1>4. EchoOK(StopEcho(e))
  <2> DEFINE x == StopEcho(e)
  <2>1. x \in EchoStates
    BY <1>1, Times DEF StopEcho, EchoStates
  <2>2. x.state = "closed" /\ x.send = Idle /\ x.sent = e.sent
    BY <1>1 DEF StopEcho, EchoStates
  <2> HIDE DEF x
  <2>3. EchoOK(x)
    BY <1>1, <2>1, <2>2 DEF EchoOK, EchoStates
  <2>4. QED
    BY <2>3 DEF x
<1>5. ASSUME EchoDue(e) PROVE EchoOK(SendEcho(e)) /\ e.sent < EchoCount
  <2> DEFINE n == e.sent + 1
             b == [e EXCEPT !.sent = n]
             x == IF n < EchoCount THEN [b EXCEPT !.send = EchoInterval]
                  ELSE [b EXCEPT !.state = "closed", !.send = Idle]
  <2>1. e.sent < EchoCount /\ e.state = "open"
    BY <1>1, <1>5, Amounts DEF EchoDue
  <2>2. n \in Nat /\ n <= EchoCount /\ EchoInterval \in Int
    BY <1>2, <2>1, Amounts
  <2>3. SendEcho(e) = x
    BY <1>1 DEF SendEcho, StopEcho, EchoStates
  <2> HIDE DEF n
  <2>4. b \in EchoStates /\ b.state = "open" /\ b.sent = n
    BY <1>1, <2>1, <2>2 DEF EchoStates
  <2> HIDE DEF b
  <2>5. CASE n < EchoCount
    <3>1. x = [b EXCEPT !.send = EchoInterval]
      BY <2>5
    <3> HIDE DEF x
    <3>2. x \in EchoStates
      BY <2>2, <2>4, <3>1 DEF EchoStates
    <3>3. x.state = "open" /\ x.send = EchoInterval /\ x.sent = n
      BY <2>4, <3>1 DEF EchoStates
    <3>4. QED
      BY <2>1, <2>2, <2>3, <2>5, <3>2, <3>3 DEF EchoOK, EchoStates
  <2>6. CASE ~(n < EchoCount)
    <3>1. x = [b EXCEPT !.state = "closed", !.send = Idle]
      BY <2>6
    <3> HIDE DEF x
    <3>2. x \in EchoStates
      BY <2>4, <3>1, Times DEF EchoStates
    <3>3. x.state = "closed" /\ x.send = Idle /\ x.sent = n
      BY <2>4, <3>1 DEF EchoStates
    <3>4. QED
      BY <2>1, <2>2, <2>3, <3>2, <3>3 DEF EchoOK, EchoStates
  <2>7. QED
    BY <2>5, <2>6
<1>6. ASSUME ~EchoDue(e) PROVE EchoOK(TickEcho(e))
  <2> DEFINE w == IF e.send = Idle THEN Idle ELSE e.send - 1
             x == TickEcho(e)
  <2>1. w \in Int /\ (w # Idle => e.send # Idle)
    BY <1>2, Amounts
  <2>2. x = [e EXCEPT !.send = w]
    BY DEF TickEcho
  <2> HIDE DEF w, x
  <2>3. x \in EchoStates /\ x.send = w /\ x.sent = e.sent /\ x.state = e.state
    BY <1>1, <2>1, <2>2 DEF EchoStates
  <2>4. EchoOK(x)
    BY <1>1, <2>1, <2>3 DEF EchoOK, EchoStates
  <2>5. QED
    BY <2>4 DEF x
<1>7. QED
  BY <1>3, <1>4, <1>5, <1>6

\* A step that leaves vehicles and packets alone.
LEMMA WorldKept ==
  ASSUME World, UNCHANGED <<pos, iface, table, queue, addresses, timer, pk, moved, spent>>
  PROVE  World'
<1>1. Packets' /\ Queues'
  BY PacketsUntouched
<1>2. QED
  BY <1>1 DEF World, Vehicles, Interfaces, Tables, TablesOf

Apps == OnOffOK(onoff) /\ EchoOK(echo)

LEMMA OnOffStartsOrStopsInv ==
  ASSUME World, Apps, OnOffStartsOrStops
  PROVE  World' /\ Apps'
<1>1. World'
  BY WorldKept DEF OnOffStartsOrStops, routing
<1>2. (onoff.state = "new" /\ onoff' = StartOnOff(onoff)) \/ onoff' = StopOnOff(onoff)
  BY DEF OnOffStartsOrStops
<1>3. OnOffOK(onoff')
  BY <1>2, StartOnOffOK, StopOnOffOK DEF Apps
<1>4. echo' = echo
  BY DEF OnOffStartsOrStops
<1>5. QED
  BY <1>1, <1>3, <1>4 DEF Apps

LEMMA EchoStartsOrStopsInv ==
  ASSUME World, Apps, EchoStartsOrStops
  PROVE  World' /\ Apps'
<1>1. World'
  BY WorldKept DEF EchoStartsOrStops, routing
<1>2. (echo.state = "new" /\ echo' = StartEcho(echo)) \/ echo' = StopEcho(echo)
  BY DEF EchoStartsOrStops
<1>3. EchoOK(echo')
  BY <1>2, EchoSteps DEF Apps
<1>4. onoff' = onoff
  BY DEF EchoStartsOrStops
<1>5. QED
  BY <1>1, <1>3, <1>4 DEF Apps

\* What the OnOffApplication sends next is one of its packets.
LEMMA OnOffPacket ==
  ASSUME PacketDue(onoff), OnOffOK(onoff)
  PROVE  Flow[onoff.sent + 1] \in Packet /\ OnOffOK(SendPacket(onoff))
<1> DEFINE k == onoff.sent + 1
<1>1. OnOffOK(SendPacket(onoff)) /\ onoff.sent < MaxPackets /\ onoff.sent \in Nat
  BY SendPacketOK DEF OnOffOK
<1>2. Flow \in Seq(Packet) /\ MaxPackets = Len(Flow)
  BY GpsrAssumption DEF GpsrAssumption
<1>3. k \in 1 .. Len(Flow)
  BY <1>1, <1>2
<1>4. QED
  BY <1>1, <1>2, <1>3

LEMMA OnOffSendsInv ==
  ASSUME World, Apps, OnOffSends
  PROVE  World' /\ Apps'
<1> DEFINE k == onoff.sent + 1
<1>1. /\ PacketDue(onoff) /\ onoff' = SendPacket(onoff) /\ echo' = echo
      /\ RouteOutput(Flow[k]) \/ RouteOutputFails(Flow[k])
  BY DEF OnOffSends
<1>2. Flow[k] \in Packet /\ OnOffOK(onoff')
  BY <1>1, OnOffPacket DEF Apps
<1>3. World'
  BY <1>1, <1>2, RouteOutputInv, RouteOutputFailsInv
<1>4. QED
  BY <1>1, <1>2, <1>3 DEF Apps

LEMMA OnOffChangesInv ==
  ASSUME World, Apps, OnOffChanges
  PROVE  World' /\ Apps'
<1>1. World'
  BY WorldKept DEF OnOffChanges, routing
<1>2. OnOffOK(onoff') /\ echo' = echo
  BY ChangeOK DEF OnOffChanges, Apps
<1>3. QED
  BY <1>1, <1>2 DEF Apps

\* What the echo client sends next is one of its packets.
LEMMA EchoPacket ==
  ASSUME EchoDue(echo), EchoOK(echo)
  PROVE  EchoFlow[echo.sent + 1] \in Packet /\ EchoOK(SendEcho(echo))
<1> DEFINE k == echo.sent + 1
<1>1. EchoOK(SendEcho(echo)) /\ echo.sent < EchoCount /\ echo.sent \in Nat
  BY EchoSteps DEF EchoOK
<1>2. EchoFlow \in Seq(Packet) /\ EchoCount = Len(EchoFlow)
  BY GpsrAssumption DEF GpsrAssumption
<1>3. k \in 1 .. Len(EchoFlow)
  BY <1>1, <1>2
<1>4. QED
  BY <1>1, <1>2, <1>3

LEMMA EchoSendsInv ==
  ASSUME World, Apps, EchoSends
  PROVE  World' /\ Apps'
<1> DEFINE k == echo.sent + 1
<1>1. /\ EchoDue(echo) /\ echo' = SendEcho(echo) /\ onoff' = onoff
      /\ RouteOutput(EchoFlow[k]) \/ RouteOutputFails(EchoFlow[k])
  BY DEF EchoSends
<1>2. EchoFlow[k] \in Packet /\ EchoOK(echo')
  BY <1>1, EchoPacket DEF Apps
<1>3. World'
  BY <1>1, <1>2, RouteOutputInv, RouteOutputFailsInv
<1>4. QED
  BY <1>1, <1>2, <1>3 DEF Apps

LEMMA TickInv ==
  ASSUME World, Apps, Tick
  PROVE  World' /\ Apps'
<1>1. World'
  BY WorldKept DEF Tick, routing
<1>2. OnOffOK(onoff') /\ EchoOK(echo')
  BY TickOnOffOK, EchoSteps DEF Tick, Apps
<1>3. QED
  BY <1>1, <1>2 DEF Apps

-----------------------------------------------------------------------------
(***************************************************************************)
(* The invariant                                                            *)
(***************************************************************************)

LEMMA InitInv ==
  ASSUME Init
  PROVE  IInv
<1>1. Vehicles
  <2>1. /\ pos \in Layouts /\ timer = {} /\ moved = FALSE /\ spent = 0
        /\ running = Node /\ addressed = Node /\ up = Node
    BY DEF Init
  <2>2. 0 \in 0 .. MaxEvents
    BY Addresses
  <2>3. QED
    BY <2>1, <2>2 DEF Vehicles, Interfaces
<1>2. Tables
  <2>1. /\ pos \in [Node -> Position]
        /\ table = [n \in Node |-> [m \in Node |-> IF n \in HeardBy(m, DataLoss)
                                                  THEN [pos |-> pos[m], old |-> FALSE] ELSE None]]
    BY Addresses DEF Init
  <2>2. ASSUME NEW n \in Node, NEW m \in Node
        PROVE  /\ table[n][m] = None \/ (m # n /\ table[n][m] \in Entry /\ table[n][m].pos = pos[m])
    <3>1. n \in HeardBy(m, DataLoss) => m # n
      BY DEF HeardBy
    <3>2. [pos |-> pos[m], old |-> FALSE] \in Entry
      BY <2>1 DEF Entry
    <3>3. QED
      BY <2>1, <3>1, <3>2
  <2>3. \A n \in Node : table[n] \in [Node -> {None} \cup Entry] /\ table[n][n] = None
    BY <2>1, <2>2
  <2>4. table \in [Node -> [Node -> {None} \cup Entry]]
    BY <2>1, <2>3
  <2>5. QED
    BY <2>2, <2>3, <2>4 DEF Tables, TablesOf
<1>3. Packets
  <2> DEFINE h == PositionHeader(Origin, Origin, Earlier, Origin, FALSE, Origin)
             r == [place |-> Fresh, ttl |-> Ttl, chose |-> <<>>, hdr |-> h]
  <2>1. h \in Header
    BY OriginType, HeaderType
  <2>2. pk = [p \in Packet |-> r]
    BY DEF Init
  <2> HIDE DEF h
  <2>3. Ttl \in 0 .. Ttl /\ Ttl >= 1 /\ <<>> \in Seq(Node) /\ Len(<<>>) = 0
    BY Addresses
  <2>4. r \in PacketState /\ r.place = Fresh /\ r.ttl = Ttl /\ r.chose = <<>>
    BY <2>1, <2>3 DEF PacketState, PlacesOfPackets
  <2> HIDE DEF r
  <2>5. PacketOK(r)
    BY <2>3, <2>4 DEF PacketOK
  <2>6. \A p \in Packet : Course(p, r)
    BY <2>3, <2>4, PlacesDiffer DEF Course, AtSource, Descends
  <2>7. QED
    BY <2>2, <2>4, <2>5, <2>6 DEF Packets
<1>4. Queues
  <2>1. /\ queue = [n \in Node |-> <<>>] /\ addresses = [n \in Node |-> <<>>]
        /\ \A p \in Packet : pk[p].place = Fresh
    BY DEF Init
  <2>2. Waiting = {}
    BY <2>1, PlacesDiffer DEF Waiting
  <2>3. <<>> \in Seq(Packet) /\ <<>> \in Seq(Node) /\ Len(<<>>) = 0 /\ ToSet(<<>>) = {}
    BY DEF ToSet
  <2>4. \A n \in Node : QueueOK(n, <<>>, <<>>, Waiting)
    <3>1. Len(<<>>) <= MaxQueueLen
      BY <2>3, Addresses
    <3>2. IsInjective(<<>>)
      BY DEF IsInjective
    <3>3. QED
      BY <2>3, <3>1, <3>2 DEF QueueOK
  <2>5. QED
    BY <2>1, <2>2, <2>3, <2>4 DEF Queues
<1>5. OnOffOK(onoff)
  BY InitOnOff DEF Init, SetupRoutingMessages
<1>6. EchoOK(echo)
  <2>1. Echo \in EchoStates
    BY Times DEF Echo, EchoStates
  <2>2. 0 <= EchoCount
    BY Amounts
  <2>3. QED
    BY <2>1, <2>2 DEF Init, SetupRoutingMessages, Echo, EchoOK, EchoStates
<1>7. QED
  BY <1>1, <1>2, <1>3, <1>4, <1>5, <1>6 DEF IInv

LEMMA NextInv ==
  ASSUME IInv, [Next]_vars
  PROVE  IInv'
<1>1. World /\ Apps
  BY DEF IInv, World, Apps
<1>2. ASSUME World', UNCHANGED apps PROVE IInv'
  BY <1>1, <1>2 DEF IInv, World, Apps, apps
<1>3. ASSUME World' /\ Apps' PROVE IInv'
  BY <1>3 DEF IInv, World, Apps
<1>4. ASSUME NEW p \in Packet, DeferredRouteOutput(p) PROVE IInv'
  BY <1>1, <1>2, <1>4, DeferredInv DEF DeferredRouteOutput
<1>5. ASSUME NEW p \in Packet, LoopbackRefused(p) PROVE IInv'
  BY <1>1, <1>2, <1>5, LoopbackRefusedInv DEF LoopbackRefused
<1>6. ASSUME NEW p \in Packet, RouteInput(p) PROVE IInv'
  BY <1>1, <1>2, <1>6, RouteInputInv DEF RouteInput
<1>7. ASSUME NEW n \in Node, CheckQueue(n) PROVE IInv'
  BY <1>1, <1>2, <1>7, CheckQueueInv DEF CheckQueue
<1>8. CASE OnOffStartsOrStops
  BY <1>1, <1>3, <1>8, OnOffStartsOrStopsInv
<1>9. CASE OnOffSends
  BY <1>1, <1>3, <1>9, OnOffSendsInv
<1>10. CASE OnOffChanges
  BY <1>1, <1>3, <1>10, OnOffChangesInv
<1>11. CASE EchoStartsOrStops
  BY <1>1, <1>3, <1>11, EchoStartsOrStopsInv
<1>12. CASE EchoSends
  BY <1>1, <1>3, <1>12, EchoSendsInv
<1>13. CASE Tick
  BY <1>1, <1>3, <1>13, TickInv
<1>14. ASSUME NEW p \in Packet, Lose(p) PROVE IInv'
  BY <1>1, <1>2, <1>14, LoseInv DEF Lose
<1>15. ASSUME NEW n \in Node, SendHello(n) PROVE IInv'
  BY <1>1, <1>2, <1>15, SendHelloInv DEF SendHello
<1>16. ASSUME NEW n \in Node, Beacon(n) PROVE IInv'
  BY <1>1, <1>2, <1>16, BeaconInv DEF Beacon
<1>17. ASSUME NEW n \in Node, NotifyInterfaceDown(n) PROVE IInv'
  BY <1>1, <1>2, <1>17, InterfaceDownInv DEF NotifyInterfaceDown
<1>18. ASSUME NEW n \in Node, NotifyInterfaceUp(n) PROVE IInv'
  BY <1>1, <1>2, <1>18, InterfaceUpInv DEF NotifyInterfaceUp
<1>19. ASSUME NEW n \in Node, NotifyRemoveAddress(n) PROVE IInv'
  BY <1>1, <1>2, <1>19, RemoveAddressInv DEF NotifyRemoveAddress
<1>20. ASSUME NEW n \in Node, NotifyAddAddress(n) PROVE IInv'
  BY <1>1, <1>2, <1>20, AddAddressInv DEF NotifyAddAddress
<1>21. ASSUME NEW n \in Node, NEW m \in Node, Age(n, m) PROVE IInv'
  BY <1>1, <1>2, <1>21, AgeInv DEF Age
<1>22. CASE Move
  BY <1>1, <1>2, <1>22, MoveInv DEF Move
<1>23. CASE SecondPasses
  BY <1>1, <1>2, <1>23, SecondPassesInv DEF SecondPasses
<1>24. CASE UNCHANGED vars
  BY <1>1, <1>2, <1>24, WorldKept DEF vars
<1>25. QED
  BY <1>4, <1>5, <1>6, <1>7, <1>8, <1>9, <1>10, <1>11, <1>12, <1>13, <1>14, <1>15, <1>16, <1>17,
     <1>18, <1>19, <1>20, <1>21, <1>22, <1>23, <1>24 DEF Next, Scheduled

\* Nothing that happens in a run breaks the inductive invariant.
THEOREM Invariant == Spec => []IInv
BY InitInv, NextInv, PTL DEF Spec

\* GPSR keeps to its types in every run: tables hold other vehicles, no queue holds more
\* than it may, and the addresses listed at a vehicle are others'.
THEOREM TypeCorrect == Spec => []TypeOK
<1>1. IInv => TypeOK
  <2> SUFFICES ASSUME IInv PROVE TypeOK
    OBVIOUS
  <2>1. /\ pos \in Layouts /\ timer \subseteq Node
        /\ running \subseteq Node /\ addressed \subseteq Node /\ up = running \cap addressed
        /\ moved \in BOOLEAN /\ spent \in 0 .. MaxEvents
    BY DEF IInv, Vehicles, Interfaces
  <2>2. ASSUME NEW n \in Node
        PROVE  /\ n \in DOMAIN table /\ DOMAIN table[n] = Node /\ table[n][n] = None
               /\ Len(queue[n]) <= MaxQueueLen
               /\ ToSet(queue[n]) \subseteq Packet
               /\ ToSet(addresses[n]) \subseteq Node \ {n}
    <3>1. n \in DOMAIN table /\ DOMAIN table[n] = Node /\ table[n][n] = None
      BY DEF IInv, Tables, TablesOf
    <3>2. queue[n] \in Seq(Packet) /\ Len(queue[n]) <= MaxQueueLen /\ ToSet(addresses[n]) \subseteq Node \ {n}
      BY DEF IInv, Queues, QueueOK
    <3>3. QED
      BY <3>1, <3>2, Members
  <2>3. ASSUME NEW p \in Packet
        PROVE  /\ pk[p].place \in Node \cup Outcomes \cup {Fresh, Loopback, Queued}
               /\ pk[p].ttl \in 0 .. Ttl /\ ToSet(pk[p].chose) \subseteq Node
    <3>1. pk[p] \in PacketState
      BY DEF IInv, Packets
    <3>2. pk[p].place \in PlacesOfPackets /\ pk[p].ttl \in 0 .. Ttl /\ pk[p].chose \in Seq(Node)
      BY <3>1, PacketFields
    <3>3. QED
      BY <3>2, Members DEF PlacesOfPackets
  <2>4. onoff.sent \in 0 .. Len(Flow) /\ echo.sent \in 0 .. Len(EchoFlow)
    <3>1. MaxPackets = Len(Flow) /\ EchoCount = Len(EchoFlow)
      BY GpsrAssumption DEF GpsrAssumption
    <3>2. onoff.sent \in Nat /\ onoff.sent <= MaxPackets /\ echo.sent \in Nat /\ echo.sent <= EchoCount
      BY DEF IInv, OnOffOK, EchoOK
    <3>3. QED
      BY <3>1, <3>2, Amounts
  <2>5. QED
    BY <2>1, <2>2, <2>3, <2>4 DEF TypeOK
<1>2. QED
  BY <1>1, Invariant, PTL

\* Every packet that waits is in its source's queue exactly once, its destination is listed
\* and the timer that will look at both runs, whatever goes up, down or missing meanwhile.
THEOREM WaitingServed == Spec => []WaitingIsServed
<1>1. IInv => WaitingIsServed
  <2> SUFFICES ASSUME IInv, NEW p \in Packet, pk[p].place = Queued
               PROVE  /\ Cardinality({i \in DOMAIN queue[Src[p]] : queue[Src[p]][i] = p}) = 1
                      /\ Src[p] \in timer /\ Dst[p] \in ToSet(addresses[Src[p]])
    BY DEF WaitingIsServed
  <2> DEFINE n == Src[p]
             q == queue[n]
  <2>1. n \in Node /\ p \in ToSet(q) /\ QueueOK(n, q, addresses[n], Waiting) /\ (q # <<>> => n \in timer)
    BY Addresses DEF IInv, Queues, Waiting
  <2>2. q \in Seq(Packet) /\ IsInjective(q) /\ Dst[p] \in ToSet(addresses[n])
    BY <2>1 DEF QueueOK
  <2> HIDE DEF q
  <2>3. PICK k \in 1 .. Len(q) : q[k] = p
    BY <2>1, <2>2, Members
  <2>4. {i \in DOMAIN q : q[i] = p} = {k}
    BY <2>2, <2>3, Once
  <2>5. Cardinality({k}) = 1
    BY FS_Singleton
  <2>6. q # <<>>
    <3>1. Len(<<>>) = 0
      OBVIOUS
    <3>2. QED
      BY <2>3, <3>1
  <2>7. QED
    BY <2>1, <2>2, <2>4, <2>5, <2>6 DEF q
<1>2. QED
  BY <1>1, Invariant, PTL

\* While no vehicle moves a packet passes every vehicle's choice at most once, in any
\* layout and whatever is lost: every choice is made nearer to the destination than all
\* before it, also after a recovery.
THEOREM ChoiceOnce == Spec => []NoChoiceTwice
<1>1. IInv => NoChoiceTwice
  <2> SUFFICES ASSUME IInv, ~moved, NEW p \in Packet PROVE IsInjective(pk[p].chose)
    BY DEF NoChoiceTwice
  <2> DEFINE c == pk[p].chose
  <2>1. pk[p] \in PacketState /\ Descends(p, c) /\ pos \in Layouts
    BY DEF IInv, Vehicles, Packets, Course
  <2>2. c \in Seq(Node)
    BY <2>1, PacketFields
  <2> HIDE DEF c
  <2>3. \A i \in 1 .. Len(c) : Way(p, c[i]) \in Nat
    BY <2>1, <2>2, WayType
  <2>4. \A i, j \in 1 .. Len(c) : c[i] = c[j] => ~(i < j)
    BY <2>1, <2>3 DEF Descends
  <2>5. \A i, j \in 1 .. Len(c) : c[i] = c[j] => i = j
    <3>1. \A i, j \in 1 .. Len(c) : ~(i < j) /\ ~(j < i) => i = j
      BY <2>2
    <3>2. QED
      BY <2>4, <3>1
  <2>6. DOMAIN c = 1 .. Len(c)
    BY <2>2
  <2>7. IsInjective(c)
    BY <2>5, <2>6 DEF IsInjective
  <2>8. QED
    BY <2>7 DEF c
<1>2. QED
  BY <1>1, Invariant, PTL

\* The OnOffApplication sends at its rate, for any packet size and times on and off, in
\* whatever order its two timers end.
THEOREM Rate == Spec => []RateKept
<1>1. IInv => RateKept
  BY DEF IInv, OnOffOK, RateKept
<1>2. QED
  BY <1>1, Invariant, PTL

-----------------------------------------------------------------------------
(***************************************************************************)
(* The cache of losses                                                      *)
(***************************************************************************)

\* The caches that hold nothing but losses of the data channel.
Agreeing == {[pair \in D |-> DataLoss[pair]] : D \in SUBSET (Position \X Position)}

LEMMA Remembered ==
  ASSUME NEW c \in Agreeing, NEW p \in Position, NEW q \in Position
  PROVE  Remember(c, DataLoss, p, q) \in Agreeing
<1> DEFINE kept == IF Cardinality(DOMAIN c) > CacheSize THEN NoLosses ELSE c
<1>1. NoLosses \in Agreeing
  <2>1. NoLosses = [pair \in {} |-> DataLoss[pair]]
    BY DEF NoLosses
  <2>2. QED
    BY <2>1 DEF Agreeing
<1>2. kept \in Agreeing
  BY <1>1
<1>3. PICK D \in SUBSET (Position \X Position) : kept = [pair \in D |-> DataLoss[pair]]
  BY <1>2 DEF Agreeing
<1> DEFINE more == [pair \in DOMAIN kept \cup {<<p, q>>} |->
                      IF pair \in DOMAIN kept THEN kept[pair] ELSE DataLoss[pair]]
<1>4. Remember(c, DataLoss, p, q) = c \/ Remember(c, DataLoss, p, q) = more
  BY DEF Remember
<1> HIDE DEF kept
<1>5. more = [pair \in D \cup {<<p, q>>} |-> DataLoss[pair]]
  BY <1>3
<1>6. D \cup {<<p, q>>} \in SUBSET (Position \X Position)
  OBVIOUS
<1>7. more \in Agreeing
  BY <1>5, <1>6 DEF Agreeing
<1>8. QED
  BY <1>4, <1>7

LEMMA HighestType == Highest \in Nat
<1>1. Node # {}
  <2>1. Flow \in Seq(Packet) /\ Flow # <<>>
    BY GpsrAssumption DEF GpsrAssumption
  <2>2. Flow[1] \in Packet
    BY <2>1
  <2>3. QED
    BY <2>2, Addresses
<1> DEFINE R == {e \in Node \X Node : e[1] > e[2]}
<1>2. \A a, b \in Node : <<a, b>> \in R <=> a > b
  OBVIOUS
<1>3. IsFiniteSet(Node)
  BY Addresses
<1>4. \A a \in Node : a \in Nat
  BY Addresses
<1> HIDE DEF R
<1>5. \A a \in Node : <<a, a>> \notin R
  BY <1>2, <1>4
<1>6. \A a, b \in Node : a # b => <<a, b>> \in R \/ <<b, a>> \in R
  BY <1>2, <1>4
<1>7. \A a, b, c \in Node : <<a, b>> \in R /\ <<b, c>> \in R => <<a, c>> \in R
  BY <1>2, <1>4
<1>8. PICK m \in Node : \A o \in Node \ {m} : <<m, o>> \in R
  BY <1>1, <1>3, <1>5, <1>6, <1>7, FirstOf
<1>9. \A o \in Node : m >= o
  <2> TAKE o \in Node
  <2>1. m \in Nat /\ o \in Nat
    BY <1>4
  <2>2. CASE o = m
    BY <2>1, <2>2
  <2>3. CASE o # m
    <3>1. <<m, o>> \in R
      BY <1>8, <2>3
    <3>2. m > o
      BY <1>2, <3>1
    <3>3. QED
      BY <2>1, <3>2
  <2>4. QED
    BY <2>2, <2>3
<1>10. Highest \in Node
  <2>1. Highest = CHOOSE k \in Node : \A o \in Node : k >= o
    BY DEF Highest, Max
  <2>2. QED
    BY <1>9, <2>1
<1>11. QED
  BY <1>4, <1>10

\* A signal of the data channel, or of one that takes as much, leaves such a cache.
LEMMA Signalled ==
  ASSUME pos \in Layouts, NEW c \in Agreeing, NEW n \in Node
  PROVE  Signal(c, n, DataLoss) \in Agreeing
<1> DEFINE N == Highest
           Step(k, x) == IF k \in Node \ {n} THEN Remember(x, DataLoss, pos[n], pos[k]) ELSE x
           Goes(f) == f = [k \in 0 .. N |-> IF k = 0 THEN c
                            ELSE IF k \in Node \ {n} THEN Remember(f[k - 1], DataLoss, pos[n], pos[k])
                            ELSE f[k - 1]]
           after == CHOOSE f : Goes(f)
           g == [k \in 1 .. N |-> [x \in Agreeing |-> Step(k, x)]]
<1>1. N \in Nat
  BY HighestType
<1>2. Signal(c, n, DataLoss) = IF HasObstacles(Obstacles) THEN after[N] ELSE c
  BY DEF Signal
<1>3. \A k \in 1 .. N : \A x \in Agreeing : Step(k, x) \in Agreeing
  <2> SUFFICES ASSUME NEW k \in 1 .. N, NEW x \in Agreeing PROVE Step(k, x) \in Agreeing
    OBVIOUS
  <2>1. k \in Node => pos[n] \in Position /\ pos[k] \in Position
    BY Addresses
  <2>2. QED
    BY <2>1, Remembered
<1>4. \E f : Goes(f)
  <2> HIDE DEF N, Step
  <2>1. g \in [1 .. N -> [Agreeing -> Agreeing]]
    BY <1>3
  <2>2. \A k \in 1 .. N : \A x \in Agreeing : g[k][x] = Step(k, x)
    OBVIOUS
  <2> HIDE DEF g
  <2>3. PICK f : Unfolds(f, N, Agreeing, c, g)
    BY <1>1, <2>1, Recursion
  <2>4. \A k \in 0 .. N : k # 0 => k \in 1 .. N /\ k - 1 \in 0 .. N
    BY <1>1
  <2>5. /\ f \in [0 .. N -> Agreeing] /\ f[0] = c
        /\ \A k \in 1 .. N : f[k] = g[k][f[k - 1]]
    BY <2>3 DEF Unfolds
  <2>6. \A k \in 0 .. N : f[k] = IF k = 0 THEN c ELSE Step(k, f[k - 1])
    BY <2>2, <2>4, <2>5
  <2>7. Goes(f)
    BY <2>5, <2>6 DEF Step
  <2>8. QED
    BY <2>7
<1>5. Goes(after)
  <2> HIDE DEF Goes
  <2>1. QED
    BY <1>4
<1> HIDE DEF N, after
<1>6. \A k \in 0 .. N : after[k] = IF k = 0 THEN c ELSE Step(k, after[k - 1])
  BY <1>5
<1> HIDE DEF Goes, Step
<1>7. after[N] \in Agreeing
  <2> DEFINE OK == {k \in 0 .. N : after[k] \in Agreeing}
  <2>1. 0 \in OK
    BY <1>1, <1>6
  <2>2. ASSUME NEW k \in 0 .. N - 1, k \in OK PROVE k + 1 \in OK
    <3>1. k + 1 \in 1 .. N /\ k + 1 \in 0 .. N /\ (k + 1) - 1 = k /\ k + 1 # 0
      BY <1>1
    <3>2. after[k + 1] = Step(k + 1, after[k])
      BY <1>6, <3>1
    <3>3. QED
      BY <1>3, <2>2, <3>1, <3>2
  <2> HIDE DEF OK
  <2>3. 0 .. N \subseteq OK
    BY <1>1, <2>1, <2>2, UpTo
  <2>4. QED
    BY <1>1, <2>3 DEF OK
<1>8. QED
  BY <1>2, <1>7

LEMMA FirstSignals ==
  ASSUME pos \in Layouts
  PROVE  FirstHellos[Highest] \in Agreeing
<1> DEFINE N == Highest
           Step(k, x) == IF k \in Node THEN Signal(x, k, DataLoss) ELSE x
           Goes(f) == f = [k \in 0 .. N |-> IF k = 0 THEN NoLosses
                            ELSE IF k \in Node THEN Signal(f[k - 1], k, DataLoss) ELSE f[k - 1]]
           g == [k \in 1 .. N |-> [x \in Agreeing |-> Step(k, x)]]
           after == FirstHellos
<1>1. N \in Nat
  BY HighestType
<1>2. after = CHOOSE f : Goes(f)
  BY DEF FirstHellos
<1>3. \A k \in 1 .. N : \A x \in Agreeing : Step(k, x) \in Agreeing
  BY Signalled
<1>4. NoLosses \in Agreeing
  <2>1. NoLosses = [pair \in {} |-> DataLoss[pair]]
    BY DEF NoLosses
  <2>2. QED
    BY <2>1 DEF Agreeing
<1>5. \E f : Goes(f)
  <2> HIDE DEF N, Step
  <2>1. g \in [1 .. N -> [Agreeing -> Agreeing]]
    BY <1>3
  <2>2. \A k \in 1 .. N : \A x \in Agreeing : g[k][x] = Step(k, x)
    OBVIOUS
  <2> HIDE DEF g
  <2>3. PICK f : Unfolds(f, N, Agreeing, NoLosses, g)
    BY <1>1, <1>4, <2>1, Recursion
  <2>4. \A k \in 0 .. N : k # 0 => k \in 1 .. N /\ k - 1 \in 0 .. N
    BY <1>1
  <2>5. /\ f \in [0 .. N -> Agreeing] /\ f[0] = NoLosses
        /\ \A k \in 1 .. N : f[k] = g[k][f[k - 1]]
    BY <2>3 DEF Unfolds
  <2>6. \A k \in 0 .. N : f[k] = IF k = 0 THEN NoLosses ELSE Step(k, f[k - 1])
    BY <2>2, <2>4, <2>5
  <2>7. Goes(f)
    BY <2>5, <2>6 DEF Step
  <2>8. QED
    BY <2>7
<1>6. Goes(after)
  <2> HIDE DEF Goes, after
  <2>1. QED
    BY <1>2, <1>5
<1> HIDE DEF N, after
<1>7. \A k \in 0 .. N : after[k] = IF k = 0 THEN NoLosses ELSE Step(k, after[k - 1])
  BY <1>6
<1> HIDE DEF Goes, Step
<1>8. after[N] \in Agreeing
  <2> DEFINE OK == {k \in 0 .. N : after[k] \in Agreeing}
  <2>1. 0 \in OK
    BY <1>1, <1>4, <1>7
  <2>2. ASSUME NEW k \in 0 .. N - 1, k \in OK PROVE k + 1 \in OK
    <3>1. k + 1 \in 1 .. N /\ k + 1 \in 0 .. N /\ (k + 1) - 1 = k /\ k + 1 # 0
      BY <1>1
    <3>2. after[k + 1] = Step(k + 1, after[k])
      BY <1>7, <3>1
    <3>3. QED
      BY <1>3, <2>2, <3>1, <3>2
  <2> HIDE DEF OK
  <2>3. 0 .. N \subseteq OK
    BY <1>1, <2>1, <2>2, UpTo
  <2>4. QED
    BY <1>1, <2>3 DEF OK
<1>9. QED
  BY <1>8 DEF N, after

\* Beacons use the data channel's losses, or nobody asks for any.
OneChannel == ~Sub1g \/ ~HasObstacles(Obstacles)

LEMMA CacheKept ==
  ASSUME OneChannel, IInv, losses \in Agreeing, [Next]_vars
  PROVE  losses' \in Agreeing
<1>0. pos \in Layouts
  BY DEF IInv, Vehicles
<1>1. ASSUME NEW n \in Node PROVE Signal(losses, n, BeaconLoss) \in Agreeing
  <2>1. CASE ~HasObstacles(Obstacles)
    BY <2>1 DEF Signal
  <2>2. CASE ~Sub1g
    <3>1. Sub1g = FALSE
      BY <2>2, GpsrAssumption DEF GpsrAssumption
    <3>2. BeaconChannel = DataChannel
      BY <3>1 DEF BeaconChannel, DataChannel
    <3>3. BeaconLoss = DataLoss
      BY <3>2 DEF BeaconLoss, DataLoss
    <3>4. QED
      BY <3>3, <1>0, Signalled
  <2>3. QED
    BY <2>1, <2>2 DEF OneChannel
<1>2. ASSUME NEW n \in Node, NEW new, Send(n, new) PROVE losses' \in Agreeing
  <2>1. losses' = losses \/ losses' = Signal(losses, n, DataLoss)
    BY <1>2 DEF Send
  <2>2. QED
    BY <2>1, <1>0, Signalled
<1>3. ASSUME NEW n \in Node, NEW p, NEW r, SendOne(n, p, r) PROVE losses' \in Agreeing
  BY <1>2, <1>3 DEF SendOne
<1>4. ASSUME UNCHANGED losses PROVE losses' \in Agreeing
  BY <1>4
<1>5. ASSUME NEW p \in Packet, RouteOutput(p) \/ RouteOutputFails(p) PROVE losses' \in Agreeing
  <2>1. Src[p] \in Node
    BY Addresses
  <2>2. CASE RouteOutput(p)
    BY <1>3, <2>1, <2>2 DEF RouteOutput
  <2>3. CASE RouteOutputFails(p)
    BY <1>4, <2>3 DEF RouteOutputFails
  <2>4. QED
    BY <1>5, <2>2, <2>3
<1>6. ASSUME NEW p \in Packet, RouteInput(p) PROVE losses' \in Agreeing
  <2>1. PICK n \in Node :
          \/ Local(p, n) \/ Refuse(p, n)
          \/ \E r \in {Received(pk[p])}, t \in {Purge(table[n])} : Forwarding(p, n, r, t)
    BY <1>6 DEF RouteInput
  <2>2. CASE Local(p, n) \/ Refuse(p, n)
    BY <1>4, <2>2 DEF Local, Refuse
  <2>3. ASSUME NEW r, NEW t, Forwarding(p, n, r, t) PROVE \E s : SendOne(n, p, s)
    BY <2>3 DEF Forwarding, ForwardInRecovery, Greedy, EnterRecovery
  <2>4. QED
    BY <1>3, <2>1, <2>2, <2>3
<1>7. ASSUME NEW n \in Node, CheckQueue(n) PROVE losses' \in Agreeing
  BY <1>2, <1>7 DEF CheckQueue
<1>8. ASSUME NEW n \in Node, SendHello(n) PROVE losses' \in Agreeing
  BY <1>8, <1>0, Signalled DEF SendHello
<1>9. ASSUME NEW n \in Node, Beacon(n) PROVE losses' \in Agreeing
  BY <1>1, <1>9 DEF Beacon
<1>10. CASE OnOffSends
  <2>1. /\ PacketDue(onoff) /\ OnOffOK(onoff)
        /\ RouteOutput(Flow[onoff.sent + 1]) \/ RouteOutputFails(Flow[onoff.sent + 1])
    BY <1>10 DEF OnOffSends, IInv
  <2>2. Flow[onoff.sent + 1] \in Packet
    BY <2>1, OnOffPacket
  <2>3. QED
    BY <1>5, <2>1, <2>2
<1>11. CASE EchoSends
  <2>1. /\ EchoDue(echo) /\ EchoOK(echo)
        /\ RouteOutput(EchoFlow[echo.sent + 1]) \/ RouteOutputFails(EchoFlow[echo.sent + 1])
    BY <1>11 DEF EchoSends, IInv
  <2>2. EchoFlow[echo.sent + 1] \in Packet
    BY <2>1, EchoPacket
  <2>3. QED
    BY <1>5, <2>1, <2>2
<1>12. CASE Tick \/ OnOffStartsOrStops \/ OnOffChanges \/ EchoStartsOrStops
  BY <1>4, <1>12 DEF Tick, OnOffStartsOrStops, OnOffChanges, EchoStartsOrStops, routing
<1>13. CASE \E p \in Packet : DeferredRouteOutput(p) \/ LoopbackRefused(p) \/ Lose(p)
  BY <1>4, <1>13 DEF DeferredRouteOutput, LoopbackRefused, Lose
<1>14. CASE \E n \in Node : \/ NotifyInterfaceDown(n) \/ NotifyInterfaceUp(n)
                          \/ NotifyRemoveAddress(n) \/ NotifyAddAddress(n)
  BY <1>4, <1>14 DEF NotifyInterfaceDown, NotifyInterfaceUp, NotifyRemoveAddress, NotifyAddAddress
<1>15. CASE \E n, m \in Node : Age(n, m)
  BY <1>4, <1>15 DEF Age
<1>16. CASE Move \/ SecondPasses
  BY <1>4, <1>16 DEF Move, SecondPasses
<1>17. CASE UNCHANGED vars
  BY <1>4, <1>17 DEF vars
<1>18. QED
  BY <1>6, <1>7, <1>8, <1>9, <1>10, <1>11, <1>12, <1>13, <1>14, <1>15, <1>16, <1>17
     DEF Next, Scheduled

\* When all channels lose the same, or nothing is in the way, the cache that they share
\* holds for any two places what the data channel loses between them, whoever asked first
\* and however often it was cleared.
THEOREM CacheAgrees == Spec => [](OneChannel => LossesAgree)
<1> DEFINE Agrees == OneChannel => losses \in Agreeing
<1>1. Init => Agrees
  BY FirstSignals DEF Init
<1>2. IInv /\ Agrees /\ [Next]_vars => Agrees'
  BY CacheKept
<1>3. Agrees => (OneChannel => LossesAgree)
  BY DEF Agreeing, LossesAgree
<1> HIDE DEF Agrees
<1>4. QED
  BY <1>1, <1>2, <1>3, Invariant, PTL DEF Spec

-----------------------------------------------------------------------------
(* What an echo holds *)

ContentsOK(d) ==
  /\ d \in [size : Nat, dataSize : Nat, data : Seq(Byte)]
  /\ ContentsConsistent(d)

\* Whatever calls an application makes to say what an echo holds, in whatever order: what
\* Send asserts of the buffer is true, and a packet is as long as GetDataSize says.
THEOREM ContentsAgree ==
  ASSUME NEW d, ContentsOK(d), NEW e, SetContents(d, e)
  PROVE  ContentsOK(e) /\ Contents(e) \in Seq(Byte) /\ Len(Contents(e)) = GetDataSize(e)
<1>1. d \in [size : Nat, dataSize : Nat, data : Seq(Byte)]
  BY DEF ContentsOK
<1>2. ASSUME NEW c, ContentsOK(c) PROVE Contents(c) \in Seq(Byte) /\ Len(Contents(c)) = GetDataSize(c)
  <2>1. /\ c.size \in Nat /\ c.data \in Seq(Byte)
        /\ c.dataSize # 0 => c.dataSize = c.size /\ Len(c.data) = c.dataSize
    BY <1>2 DEF ContentsOK, ContentsConsistent
  <2> DEFINE zeros == [k \in 1 .. c.size |-> 0]
  <2>2. zeros \in Seq(Byte) /\ Len(zeros) = c.size
    BY <2>1 DEF Byte
  <2>3. Contents(c) = IF c.dataSize # 0 THEN c.data ELSE zeros
    BY DEF Contents
  <2> HIDE DEF zeros
  <2>4. QED
    BY <2>1, <2>2, <2>3 DEF GetDataSize
<1>3. ASSUME NEW bytes \in Seq(Byte), e = Overwritten(d, bytes) PROVE ContentsOK(e)
  <2>1. Len(bytes) \in Nat
    BY <1>3
  <2>2. e \in [size : Nat, dataSize : Nat, data : Seq(Byte)]
    BY <1>1, <1>3, <2>1 DEF Overwritten
  <2>3. e.size = Len(bytes) /\ e.dataSize = Len(bytes) /\ e.data = bytes
    BY <1>1, <1>3 DEF Overwritten
  <2>4. QED
    BY <2>2, <2>3 DEF ContentsOK, ContentsConsistent
<1>4. CASE \E n \in Nat : e = SetDataSize(d, n)
  <2>1. PICK n \in Nat : e = SetDataSize(d, n)
    BY <1>4
  <2>2. e \in [size : Nat, dataSize : Nat, data : Seq(Byte)]
    <3>1. <<>> \in Seq(Byte)
      BY EmptySeq
    <3>2. e = [d EXCEPT !.size = n, !.dataSize = 0, !.data = <<>>]
      BY <2>1 DEF SetDataSize
    <3>3. QED
      BY <1>1, <3>1, <3>2
  <2>3. e.dataSize = 0
    BY <1>1, <2>1 DEF SetDataSize
  <2>4. QED
    BY <1>2, <2>2, <2>3 DEF ContentsOK, ContentsConsistent
<1>5. CASE \E text \in Seq(Byte) : e = SetFillText(d, text)
  <2>1. PICK text \in Seq(Byte) : e = SetFillText(d, text)
    BY <1>5
  <2>2. 0 \in Byte
    BY DEF Byte
  <2>3. Append(text, 0) \in Seq(Byte)
    BY <2>2
  <2>4. QED
    BY <1>2, <1>3, <2>1, <2>3 DEF SetFillText
<1>6. CASE \E b \in Byte, n \in Nat : e = SetFillByte(d, b, n)
  <2>1. PICK b \in Byte, n \in Nat : e = SetFillByte(d, b, n)
    BY <1>6
  <2>2. [k \in 1 .. n |-> b] \in Seq(Byte)
    OBVIOUS
  <2>3. QED
    BY <1>2, <1>3, <2>1, <2>2 DEF SetFillByte
<1>7. CASE \E fill \in Seq(Byte) \ {<<>>}, n \in Nat : e = SetFillPattern(d, fill, n)
  <2>1. PICK fill \in Seq(Byte) \ {<<>>}, n \in Nat : e = SetFillPattern(d, fill, n)
    BY <1>7
  <2>2. Len(fill) \in Nat \ {0}
    BY EmptySeq, LenProperties
  <2>3. \A k \in 1 .. n : ((k - 1) % Len(fill)) + 1 \in 1 .. Len(fill)
    <3>1. ASSUME NEW l \in Nat \ {0}, NEW k \in Nat \ {0} PROVE ((k - 1) % l) + 1 \in 1 .. l
      BY SMTT(30)
    <3>2. QED
      BY <2>2, <3>1
  <2>4. \A k \in 1 .. n : fill[((k - 1) % Len(fill)) + 1] \in Byte
    BY <2>3, ElementOfSeq
  <2>5. [k \in 1 .. n |-> fill[((k - 1) % Len(fill)) + 1]] \in Seq(Byte)
    BY <2>4
  <2>6. QED
    BY <1>2, <1>3, <2>1, <2>5 DEF SetFillPattern
<1>8. QED
  BY <1>4, <1>5, <1>6, <1>7 DEF SetContents
=============================================================================
