---------------------------- MODULE GeoSvrProofs ----------------------------
(***************************************************************************)
(* Proofs about GeoSvr, in this order: places and roads, the search for a  *)
(* path and the closing and opening of roads around it, the path that is   *)
(* chosen, the header that carries it, hellos, the way of a packet, the    *)
(* inductive invariant, and every action's step.                           *)
(***************************************************************************)
EXTENDS GeoSvr, FilterProofs, FiniteSetTheorems, SequenceTheorems

(***************************************************************************)
(* Roads and places                                                         *)
(***************************************************************************)

Road  == DOMAIN Roads
Place == Int \X Int

\* What the map may say of the roads: each has its type or is closed.
TypesOfRoads == [Road -> {RoadType, IntMax}]

LEMMA RoadIs ==
  /\ Road = 1 .. Len(Roads) /\ Road \in SUBSET Nat /\ Road # {}
  /\ \A r \in Road : /\ Roads[r][1] \in Crossing /\ Roads[r][2] \in Crossing
                     /\ Roads[r][1] < Roads[r][2]
                     /\ Roads[r] = <<Roads[r][1], Roads[r][2]>>
  /\ Crossing \in SUBSET Nat /\ IsFiniteSet(Crossing)
<1>1. /\ Roads \in Seq(Crossing \X Crossing) /\ Roads # <<>>
      /\ Crossing \subseteq 0 .. 255
      /\ \A r \in DOMAIN Roads : Roads[r][1] < Roads[r][2]
  BY GeoSvrMapAssumption DEF GeoSvrMapAssumption
<1>2. Len(Roads) \in Nat /\ Len(Roads) # 0 /\ DOMAIN Roads = 1 .. Len(Roads)
  BY <1>1
<1>3. \A r \in Road : Roads[r] \in Crossing \X Crossing
  BY <1>1 DEF Road
<1>4. \A e \in Crossing \X Crossing : e[1] \in Crossing /\ e[2] \in Crossing /\ e = <<e[1], e[2]>>
  OBVIOUS
<1>5. IsFiniteSet(Crossing)
  <2>1. 0 \in Int /\ 255 \in Int
    OBVIOUS
  <2>2. IsFiniteSet(0 .. 255)
    BY <2>1, FS_Interval
  <2>3. QED
    BY <1>1, <2>2, FS_Subset
<1>6. 1 \in Road /\ Road \in SUBSET Nat
  BY <1>2 DEF Road
<1>7. QED
  BY <1>1, <1>2, <1>3, <1>4, <1>5, <1>6 DEF Road

LEMMA EndsAre ==
  ASSUME NEW r \in Road
  PROVE  /\ Ends(r) \in SUBSET Crossing
         /\ \A v : OtherEnd(r, v) \in Ends(r)
         /\ \A v \in Ends(r) : Ends(r) = {v, OtherEnd(r, v)} /\ OtherEnd(r, v) # v
<1>1. Roads[r][1] \in Crossing /\ Roads[r][2] \in Crossing /\ Roads[r][1] # Roads[r][2]
  <2>1. /\ Roads[r][1] \in Crossing /\ Roads[r][2] \in Crossing /\ Roads[r][1] < Roads[r][2]
        /\ Crossing \in SUBSET Nat
    BY RoadIs
  <2>2. Roads[r][1] \in Nat /\ Roads[r][2] \in Nat
    BY <2>1
  <2>3. \A a, b \in Nat : a < b => a # b
    OBVIOUS
  <2>4. QED
    BY <2>1, <2>2, <2>3
<1>2. QED
  BY <1>1 DEF Ends, OtherEnd

\* There is one road at most between two crossings.
LEMMA OneRoad ==
  ASSUME NEW r \in Road, NEW o \in Road, Ends(r) = Ends(o)
  PROVE  r = o
<1>1. IsInjective(Roads)
  BY GeoSvrMapAssumption DEF GeoSvrMapAssumption
<1>2. \A a, b \in Road : Roads[a] = Roads[b] => a = b
  BY <1>1 DEF IsInjective, Road
<1>3. /\ Roads[r][1] \in Nat /\ Roads[r][2] \in Nat /\ Roads[r][1] < Roads[r][2]
      /\ Roads[o][1] \in Nat /\ Roads[o][2] \in Nat /\ Roads[o][1] < Roads[o][2]
  BY RoadIs
<1>4. Roads[r][1] = Roads[o][1] /\ Roads[r][2] = Roads[o][2]
  BY <1>3 DEF Ends
<1>5. Roads[r] = Roads[o]
  BY <1>4, RoadIs
<1>6. QED
  BY <1>2, <1>5

\* getRoadByNode looks the pair up.
LEMMA RoadByNodeLooks ==
  ASSUME NEW u \in Crossing, NEW v \in Crossing
  PROVE  LET between == {r \in DOMAIN Roads : Ends(r) = {u, v}}
         IN  RoadByNode(u, v) = IF between = {} THEN NoRoad ELSE Min(between)
<1> DEFINE Between(e) == {r \in DOMAIN Roads : Ends(r) = {e[1], e[2]}}
           First(B) == IF B = {} THEN NoRoad ELSE Min(B)
           e == <<u, v>>
<1>1. e \in Crossing \X Crossing /\ e[1] = u /\ e[2] = v
  OBVIOUS
<1>2. RoadBetween = [d \in Crossing \X Crossing |-> First(Between(d))]
  BY DEF RoadBetween
<1>3. RoadByNode(u, v) = RoadBetween[e]
  BY DEF RoadByNode
<1>4. Between(e) = {r \in DOMAIN Roads : Ends(r) = {u, v}}
  BY <1>1
<1> HIDE DEF Between, First, e
<1>5. RoadByNode(u, v) = First(Between(e))
  BY <1>1, <1>2, <1>3
<1>6. QED
  BY <1>4, <1>5 DEF First

\* getRoadByNode finds it.
LEMMA RoadByNodeIs ==
  ASSUME NEW u \in Crossing, NEW v \in Crossing, NEW r \in Road, Ends(r) = {u, v}
  PROVE  RoadByNode(u, v) = r
<1> DEFINE B == {o \in DOMAIN Roads : Ends(o) = {u, v}}
<1>1. B = {r}
  BY OneRoad DEF Road
<1>2. RoadByNode(u, v) = IF B = {} THEN NoRoad ELSE Min(B)
  BY RoadByNodeLooks
<1> HIDE DEF B
<1>3. Min({r}) = r
  <2>1. r <= r
    BY RoadIs
  <2>2. QED
    BY <2>1 DEF Min
<1>4. QED
  BY <1>1, <1>2, <1>3

LEMMA TwoBounds ==
  ASSUME NEW a \in Int, NEW b \in Int
  PROVE  Min({a, b}) \in Int /\ Max({a, b}) \in Int
<1>1. \E x \in {a, b} : \A y \in {a, b} : x =< y
  OBVIOUS
<1>2. \E x \in {a, b} : \A y \in {a, b} : x >= y
  OBVIOUS
<1>3. QED
  BY <1>1, <1>2 DEF Min, Max

LEMMA FourBounds ==
  ASSUME NEW a \in Int, NEW b \in Int, NEW c \in Int, NEW d \in Int
  PROVE  Max({a, b, c, d}) \in Int
<1> DEFINE S == {a, b, c, d}
<1>1. \E x \in S : \A y \in S : x >= y
  <2>1. PICK x \in {a, b} : x >= a /\ x >= b
    OBVIOUS
  <2>2. PICK z \in {c, d} : z >= c /\ z >= d
    OBVIOUS
  <2>3. CASE x >= z
    BY <2>1, <2>2, <2>3
  <2>4. CASE ~(x >= z)
    BY <2>1, <2>2, <2>4
  <2>5. QED
    BY <2>3, <2>4
<1>2. QED
  BY <1>1 DEF Max

LEMMA PlaceOf ==
  ASSUME NEW p \in Place
  PROVE  p[1] \in Int /\ p[2] \in Int
BY DEF Place

LEMMA PointIs ==
  ASSUME NEW v \in Crossing
  PROVE  Point[v] \in Place
BY GeoSvrMapAssumption DEF GeoSvrMapAssumption, Place

LEMMA DistanceType ==
  ASSUME NEW p \in Place, NEW q \in Place
  PROVE  Distance(p, q) \in Int
<1>1. p[1] - q[1] \in Int /\ p[2] - q[2] \in Int
  BY PlaceOf
<1>2. \A x, y \in Int : x * x + y * y \in Int
  OBVIOUS
<1>3. QED
  BY <1>1, <1>2 DEF Distance

LEMMA OutsideType ==
  ASSUME NEW r \in Road, NEW p \in Place
  PROVE  Outside(r, p) \in Int
<1> DEFINE e(i) == {Point[v][i] : v \in Ends(r)}
           s == Point[Roads[r][1]]
           t == Point[Roads[r][2]]
<1>1. s \in Place /\ t \in Place
  BY RoadIs, PointIs
<1>2. s[1] \in Int /\ s[2] \in Int /\ t[1] \in Int /\ t[2] \in Int /\ p[1] \in Int /\ p[2] \in Int
  BY <1>1, PlaceOf
<1>3. e(1) = {s[1], t[1]} /\ e(2) = {s[2], t[2]}
  BY DEF Ends
<1>4. Outside(r, p) = Max({Min(e(1)) - p[1], p[1] - Max(e(1)), Min(e(2)) - p[2], p[2] - Max(e(2))})
  BY DEF Outside
<1> HIDE DEF e, s, t
<1>5. Min(e(1)) \in Int /\ Max(e(1)) \in Int /\ Min(e(2)) \in Int /\ Max(e(2)) \in Int
  BY <1>2, <1>3, TwoBounds
<1> DEFINE a == Min(e(1)) - p[1]
           b == p[1] - Max(e(1))
           c == Min(e(2)) - p[2]
           d == p[2] - Max(e(2))
<1>6. a \in Int /\ b \in Int /\ c \in Int /\ d \in Int
  BY <1>2, <1>5
<1>7. Outside(r, p) = Max({a, b, c, d})
  BY <1>4
<1> HIDE DEF a, b, c, d
<1>8. QED
  BY <1>6, <1>7, FourBounds

LEMMA GrowthsType ==
  ASSUME NEW r \in Road, NEW p \in Place
  PROVE  Growths(r, p) \in Nat
<1> DEFINE x == Outside(r, p)
<1>1. x \in Int
  BY OutsideType
<1>2. RoadPad \in Nat /\ PadStep \in Nat /\ PadStep > 0
  BY GeoSvrMapAssumption DEF GeoSvrMapAssumption
<1>3. Growths(r, p) = IF x <= RoadPad THEN 0 ELSE (x - RoadPad + PadStep - 1) \div PadStep
  BY DEF Growths
<1> HIDE DEF x
<1>4. ~(x <= RoadPad) => x - RoadPad + PadStep - 1 \in Nat
  BY <1>1, <1>2
<1>5. \A m \in Nat : m \div PadStep \in Nat
  BY <1>2
<1>6. QED
  BY <1>3, <1>4, <1>5

\* getRoadByPos finds a road for every place.
LEMMA RoadByPosIs ==
  ASSUME NEW p \in Place
  PROVE  RoadByPos(p) \in Road
<1> DEFINE G == {Growths(r, p) : r \in Road}
           B == Boxes(p)
<1>1. G \in SUBSET Nat /\ G # {}
  BY GrowthsType, RoadIs
<1>2. PICK g \in G : \A h \in G : g <= h
  BY <1>1, Least
<1>3. B \in SUBSET Road /\ B # {}
  BY <1>2 DEF Boxes, Road
<1> HIDE DEF B
<1> DEFINE F == {Roads[r][1] : r \in B}
<1>4. F \in SUBSET Nat /\ F # {}
  BY <1>3, RoadIs
<1>5. PICK a \in F : \A b \in F : a <= b
  BY <1>4, Least
<1> DEFINE A == {r \in B : Roads[r][1] = a}
<1>6. A \in SUBSET Nat /\ A # {}
  BY <1>3, <1>5, RoadIs
<1>7. PICK m \in A : \A k \in A : m <= k
  BY <1>6, Least
<1>8. \A o \in B : Roads[m][1] < Roads[o][1] \/ (Roads[m][1] = Roads[o][1] /\ m <= o)
  <2> TAKE o \in B
  <2>1. Roads[m][1] = a /\ a \in Nat /\ Roads[o][1] \in F /\ Roads[o][1] \in Nat
    BY <1>3, <1>4, <1>5, RoadIs
  <2>2. a <= Roads[o][1]
    BY <1>5, <2>1
  <2>3. CASE Roads[o][1] = a
    BY <1>7, <2>1, <2>3
  <2>4. CASE Roads[o][1] # a
    BY <2>1, <2>2, <2>4
  <2>5. QED
    BY <2>3, <2>4
<1>9. m \in B
  OBVIOUS
<1> HIDE DEF A, F, G
<1>10. RoadByPos(p) \in B
  BY <1>8, <1>9 DEF RoadByPos, B
<1>11. QED
  BY <1>3, <1>10

\* getSrcAndDst: an end of the first place's road, and another one of the second's.
LEMMA SrcAndDstAre ==
  ASSUME NEW p \in Place, NEW q \in Place
  PROVE  LET e == SrcAndDst(p, q)
         IN  /\ e \in Seq(Crossing) /\ Len(e) = 2
             /\ e[1] \in Ends(RoadByPos(p)) /\ e[2] \in Ends(RoadByPos(q))
             /\ e[1] # e[2]
             /\ RoadByPos(p) = RoadByPos(q) => {e[1], e[2]} = Ends(RoadByPos(p))
<1> DEFINE e == SrcAndDst(p, q)
           s == RoadByPos(p)
           d == RoadByPos(q)
           first == NearerEnd(s, q)
           last  == NearerEnd(d, p)
<1>1. s \in Road /\ d \in Road
  BY RoadByPosIs
<1>2. /\ Roads[s][1] \in Crossing /\ Roads[s][2] \in Crossing /\ Roads[s][1] # Roads[s][2]
      /\ Roads[s] = <<Roads[s][1], Roads[s][2]>>
  BY <1>1, RoadIs
<1>3. e = IF s = d
          THEN IF Distance(Point[Roads[s][1]], p) < Distance(Point[Roads[s][1]], q)
               THEN Roads[s] ELSE <<Roads[s][2], Roads[s][1]>>
          ELSE <<first, IF last = first THEN OtherEnd(d, last) ELSE last>>
  BY DEF SrcAndDst
<1>4. first \in Ends(s) /\ last \in Ends(d)
  BY DEF NearerEnd, Ends
<1> HIDE DEF e, s, d, first, last
<1>5. CASE s = d
  <2>1. \E a, b \in Crossing : e = <<a, b>> /\ a # b /\ {a, b} = Ends(s)
    BY <1>2, <1>3, <1>5 DEF Ends
  <2>2. QED
    BY <1>5, <2>1 DEF e, s, d
<1>6. CASE s # d
  <2> DEFINE l == IF last = first THEN OtherEnd(d, last) ELSE last
  <2>1. e = <<first, l>>
    BY <1>3, <1>6
  <2>2. l \in Ends(d) /\ l # first
    BY <1>1, <1>4, EndsAre
  <2>3. first \in Crossing /\ l \in Crossing
    BY <1>1, <1>4, <2>2, EndsAre
  <2> HIDE DEF l
  <2>4. e \in Seq(Crossing) /\ Len(e) = 2 /\ e[1] = first /\ e[2] = l
    BY <2>1, <2>3
  <2>5. QED
    BY <1>4, <1>6, <2>2, <2>4 DEF e, s, d
<1>7. QED
  BY <1>5, <1>6

-----------------------------------------------------------------------------
(***************************************************************************)
(* Paths                                                                    *)
(***************************************************************************)

\* A road leads from every crossing of a path to the next.
Way(path) ==
  /\ path \in Seq(Crossing)
  /\ \A k \in 1 .. Len(path) - 1 : \E r \in Road : Ends(r) = {path[k], path[k + 1]}

NoRepetition(path) == \A i, j \in 1 .. Len(path) : path[i] = path[j] => i = j

\* The k-th road of a path.
RoadOn(path, k) == RoadByNode(path[k], path[k + 1])

NoRoadTwice(path) == \A i, j \in 1 .. Len(path) - 1 : RoadOn(path, i) = RoadOn(path, j) => i = j

\* What a header may carry: a path whose roads are all different, in bytes.
Trails == {path \in Seq(Crossing) : Len(path) \in 2 .. 255 /\ NoRoadTwice(path)}

LEMMA RoadOnIs ==
  ASSUME NEW path, Way(path), NEW k \in 1 .. Len(path) - 1
  PROVE  RoadOn(path, k) \in Road /\ Ends(RoadOn(path, k)) = {path[k], path[k + 1]}
<1>1. path \in Seq(Crossing) /\ Len(path) \in Nat /\ k \in 1 .. Len(path) /\ k + 1 \in 1 .. Len(path)
  BY DEF Way
<1>2. path[k] \in Crossing /\ path[k + 1] \in Crossing
  BY <1>1
<1>3. PICK r \in Road : Ends(r) = {path[k], path[k + 1]}
  BY DEF Way
<1>4. RoadOn(path, k) = r
  BY <1>2, <1>3, RoadByNodeIs DEF RoadOn
<1>5. QED
  BY <1>3, <1>4

\* On a path without repetition no road is twice, and the first is the only one that
\* begins or ends where the path begins.
LEMMA SimpleIsTrail ==
  ASSUME NEW path, Way(path), NoRepetition(path)
  PROVE  /\ NoRoadTwice(path)
         /\ \A k \in 1 .. Len(path) - 1 : path[1] \in Ends(RoadOn(path, k)) => k = 1
         /\ \A k \in 1 .. Len(path) - 1 : path[Len(path)] \in Ends(RoadOn(path, k)) => k = Len(path) - 1
<1> DEFINE N == Len(path)
<1>1. N \in Nat /\ \A k \in 1 .. N - 1 : k \in 1 .. N /\ k + 1 \in 1 .. N
  BY DEF Way
<1>2. \A k \in 1 .. N - 1 : RoadOn(path, k) \in Road /\ Ends(RoadOn(path, k)) = {path[k], path[k + 1]}
  BY RoadOnIs
<1>3. \A i, j \in 1 .. N : path[i] = path[j] => i = j
  BY DEF NoRepetition
<1> HIDE DEF N
<1>4. ASSUME NEW i \in 1 .. N - 1, NEW j \in 1 .. N - 1, RoadOn(path, i) = RoadOn(path, j)
      PROVE  i = j
  <2>1. {path[i], path[i + 1]} = {path[j], path[j + 1]}
    BY <1>2, <1>4
  <2>2. /\ path[i] = path[j] => i = j
        /\ path[i] = path[j + 1] => i = j + 1
        /\ path[i + 1] = path[j] => i + 1 = j
    BY <1>1, <1>3
  <2>3. CASE path[i] = path[j]
    BY <2>2, <2>3
  <2>4. CASE path[i] = path[j + 1] /\ path[i + 1] = path[j]
    <3>1. i = j + 1 /\ i + 1 = j
      BY <2>2, <2>4
    <3>2. FALSE
      BY <1>1, <3>1
    <3>3. QED
      BY <3>2
  <2>5. QED
    BY <2>1, <2>3, <2>4
<1>5. ASSUME NEW k \in 1 .. N - 1, path[1] \in Ends(RoadOn(path, k)) PROVE k = 1
  <2>1. 1 \in 1 .. N /\ k + 1 # 1 /\ k \in 1 .. N /\ k + 1 \in 1 .. N
    BY <1>1
  <2>2. path[1] = path[k] \/ path[1] = path[k + 1]
    BY <1>2, <1>5
  <2>3. QED
    BY <1>3, <2>1, <2>2
<1>6. ASSUME NEW k \in 1 .. N - 1, path[N] \in Ends(RoadOn(path, k)) PROVE k = N - 1
  <2>1. N \in 1 .. N /\ k # N /\ k \in 1 .. N /\ k + 1 \in 1 .. N
    BY <1>1
  <2>2. path[N] = path[k] \/ path[N] = path[k + 1]
    BY <1>2, <1>6
  <2>3. k + 1 = N
    BY <1>3, <2>1, <2>2
  <2>4. QED
    BY <1>1, <2>3
<1>7. QED
  BY <1>4, <1>5, <1>6 DEF NoRoadTwice, N

\* The paths of k roads that SimplePaths finds from src.
PathsOf(src, k) ==
  {p \in Seq(Crossing) : Len(p) = k + 1 /\ p[1] = src /\ Way(p) /\ NoRepetition(p)}

\* One more crossing that is not on the path yet.
Longer(p) ==
  {Append(p, OtherEnd(r, Last(p))) :
     r \in {o \in RoadsAt(Last(p)) : OtherEnd(o, Last(p)) \notin ToSet(p)}}

LEMMA LongerIs ==
  ASSUME NEW src \in Crossing, NEW k \in Nat, NEW p \in PathsOf(src, k), NEW l \in Longer(p)
  PROVE  l \in PathsOf(src, k + 1)
<1>1. p \in Seq(Crossing) /\ Len(p) = k + 1 /\ p[1] = src /\ Way(p) /\ NoRepetition(p)
  BY DEF PathsOf
<1> DEFINE e == Last(p)
<1>2. e = p[k + 1] /\ k + 1 \in 1 .. Len(p)
  BY <1>1 DEF Last
<1>3. PICK r \in Road : e \in Ends(r) /\ OtherEnd(r, e) \notin ToSet(p) /\ l = Append(p, OtherEnd(r, e))
  BY DEF Longer, RoadsAt, Road
<1> HIDE DEF e
<1> DEFINE o == OtherEnd(r, e)
<1>4. o \in Crossing /\ Ends(r) = {e, o}
  BY <1>3, EndsAre
<1> HIDE DEF o
<1>5. /\ l \in Seq(Crossing) /\ Len(l) = k + 2 /\ l[k + 2] = o
      /\ \A i \in 1 .. k + 1 : l[i] = p[i]
  BY <1>1, <1>3, <1>4, AppendProperties DEF o
<1>6. \A i \in 1 .. k + 1 : p[i] # o
  BY <1>1, <1>3 DEF ToSet, o
<1>7. \A i \in 1 .. k + 2 : i \in 1 .. k + 1 \/ i = k + 2
  OBVIOUS
<1>8. NoRepetition(l)
  <2>1. \A i, j \in 1 .. k + 1 : p[i] = p[j] => i = j
    BY <1>1 DEF NoRepetition
  <2>2. \A i, j \in 1 .. k + 2 : l[i] = l[j] => i = j
    BY <1>5, <1>6, <1>7, <2>1
  <2>3. QED
    BY <1>5, <2>2 DEF NoRepetition
<1>9. Way(l)
  <2>1. ASSUME NEW i \in 1 .. Len(l) - 1 PROVE \E x \in Road : Ends(x) = {l[i], l[i + 1]}
    <3>1. i \in 1 .. k + 1
      BY <1>5
    <3>2. CASE i = k + 1
      <4>1. l[i] = e /\ l[i + 1] = o
        BY <1>2, <1>5, <3>1, <3>2
      <4>2. QED
        BY <1>3, <1>4, <4>1
    <3>3. CASE i # k + 1
      <4>1. i \in 1 .. Len(p) - 1 /\ i + 1 \in 1 .. k + 1
        BY <1>1, <3>1, <3>3
      <4>2. \E x \in Road : Ends(x) = {p[i], p[i + 1]}
        BY <1>1, <4>1 DEF Way
      <4>3. QED
        BY <1>5, <3>1, <4>1, <4>2
    <3>4. QED
      BY <3>2, <3>3
  <2>2. QED
    BY <1>5, <2>1 DEF Way
<1>10. l[1] = src /\ Len(l) = (k + 1) + 1
  BY <1>1, <1>5
<1>11. QED
  BY <1>5, <1>8, <1>9, <1>10 DEF PathsOf

\* What SimplePaths(src) is the union of: with every round the paths are one road longer.
Rounds(f, src) ==
  LET N == Cardinality(Crossing) - 1
  IN  /\ SimplePaths(src) = UNION {f[k] : k \in 0 .. N}
      /\ f[0] = {<<src>>}
      /\ \A k \in 1 .. N : f[k] = UNION {Longer(p) : p \in f[k - 1]}

LEMMA SimplePathsInRounds ==
  ASSUME NEW src \in Crossing
  PROVE  \E f : Rounds(f, src)
<1> DEFINE N == Cardinality(Crossing) - 1
           S == SUBSET Seq(Crossing)
           Step(P) == UNION {Longer(x) : x \in P}
           Goes(f) == f = [k \in 0 .. Cardinality(Crossing) - 1 |->
                             IF k = 0 THEN {<<src>>}
                             ELSE UNION {{Append(x, OtherEnd(r, Last(x))) :
                                            r \in {o \in RoadsAt(Last(x)) : OtherEnd(o, Last(x)) \notin ToSet(x)}} :
                                         x \in f[k - 1]}]
           paths == CHOOSE f : Goes(f)
<1>1. N \in Nat
  <2>1. Cardinality(Crossing) \in Nat
    BY RoadIs, FS_CardinalityType
  <2>2. Cardinality(Crossing) # 0
    BY RoadIs, FS_EmptySet
  <2>3. QED
    BY <2>1, <2>2
<1>2. SimplePaths(src) = UNION {paths[k] : k \in DOMAIN paths}
  BY DEF SimplePaths
<1>3. \A P \in S : Step(P) \in S
  <2> SUFFICES ASSUME NEW P \in S, NEW x \in P, NEW l \in Longer(x) PROVE l \in Seq(Crossing)
    OBVIOUS
  <2>1. PICK r \in Road : l = Append(x, OtherEnd(r, Last(x)))
    BY DEF Longer, RoadsAt, Road
  <2>2. OtherEnd(r, Last(x)) \in Crossing
    BY EndsAre
  <2>3. QED
    BY <2>1, <2>2
<1>4. \E f : Goes(f)
  <2> HIDE DEF Step
  <2> DEFINE g == [k \in 1 .. N |-> [P \in S |-> Step(P)]]
  <2>1. g \in [1 .. N -> [S -> S]]
    BY <1>3
  <2>2. \A k \in 1 .. N : \A P \in S : g[k][P] = Step(P)
    OBVIOUS
  <2>3. {<<src>>} \in S
    OBVIOUS
  <2> HIDE DEF g, S, N
  <2>4. PICK f : Unfolds(f, N, S, {<<src>>}, g)
    BY <1>1, <2>1, <2>3, Recursion
  <2>5. \A k \in 0 .. N : k # 0 => k \in 1 .. N /\ k - 1 \in 0 .. N
    BY <1>1
  <2>6. /\ f \in [0 .. N -> S] /\ f[0] = {<<src>>}
        /\ \A k \in 1 .. N : f[k] = g[k][f[k - 1]]
    BY <2>4 DEF Unfolds
  <2>7. \A k \in 0 .. N : f[k] = IF k = 0 THEN {<<src>>} ELSE Step(f[k - 1])
    BY <2>2, <2>5, <2>6
  <2>8. f = [k \in 0 .. N |-> IF k = 0 THEN {<<src>>} ELSE Step(f[k - 1])]
    BY <2>6, <2>7
  <2>9. Goes(f)
    BY <2>8 DEF Step, Longer, N
  <2>10. QED
    BY <2>9
<1>5. Goes(paths)
  <2> HIDE DEF Goes
  <2>1. QED
    BY <1>4
<1> HIDE DEF paths
<1>6. /\ DOMAIN paths = 0 .. N
      /\ \A k \in 0 .. N : paths[k] = IF k = 0 THEN {<<src>>} ELSE Step(paths[k - 1])
  BY <1>5 DEF Longer
<1> HIDE DEF Goes
<1>7. 0 \in 0 .. N /\ \A k \in 1 .. N : k \in 0 .. N /\ k # 0
  BY <1>1
<1>8. /\ SimplePaths(src) = UNION {paths[k] : k \in 0 .. N}
      /\ paths[0] = {<<src>>}
      /\ \A k \in 1 .. N : paths[k] = UNION {Longer(p) : p \in paths[k - 1]}
  BY <1>2, <1>6, <1>7
<1>9. QED
  BY <1>8 DEF Rounds

LEMMA SimplePathsAre ==
  ASSUME NEW src \in Crossing, NEW p \in SimplePaths(src)
  PROVE  /\ p \in Seq(Crossing) /\ Len(p) >= 1 /\ p[1] = src /\ Way(p) /\ NoRepetition(p)
         /\ Len(p) <= Cardinality(Crossing)
<1> DEFINE N == Cardinality(Crossing) - 1
           Step(P) == UNION {Longer(x) : x \in P}
<1>1. N \in Nat
  <2>1. Cardinality(Crossing) \in Nat
    BY RoadIs, FS_CardinalityType
  <2>2. Cardinality(Crossing) # 0
    BY RoadIs, FS_EmptySet
  <2>3. QED
    BY <2>1, <2>2
<1>2. PICK paths : Rounds(paths, src)
  BY SimplePathsInRounds
<1>3. /\ SimplePaths(src) = UNION {paths[k] : k \in 0 .. N}
      /\ paths[0] = {<<src>>}
      /\ \A k \in 1 .. N : paths[k] = Step(paths[k - 1])
  BY <1>2 DEF Rounds
<1>6. \A k \in 0 .. N : k # 0 => paths[k] = Step(paths[k - 1])
  BY <1>1, <1>3
<1> HIDE DEF Step, N
<1> DEFINE OK == {k \in 0 .. N : paths[k] \in SUBSET PathsOf(src, k)}
<1>7. 0 \in OK
  <2>1. <<src>> \in PathsOf(src, 0)
    BY DEF PathsOf, Way, NoRepetition
  <2>2. 0 \in 0 .. N /\ paths[0] = {<<src>>}
    BY <1>1, <1>3
  <2>3. QED
    BY <2>1, <2>2
<1>8. ASSUME NEW k \in 0 .. N - 1, k \in OK PROVE k + 1 \in OK
  <2>1. k + 1 \in 0 .. N /\ k + 1 # 0 /\ (k + 1) - 1 = k /\ k \in Nat
    BY <1>1
  <2>2. paths[k + 1] = Step(paths[k])
    BY <1>6, <2>1
  <2>3. paths[k] \in SUBSET PathsOf(src, k)
    BY <1>8
  <2>4. \A l \in Step(paths[k]) : l \in PathsOf(src, k + 1)
    BY <2>1, <2>3, LongerIs DEF Step
  <2>5. QED
    BY <2>1, <2>2, <2>4
<1> HIDE DEF OK
<1>9. 0 .. N \subseteq OK
  BY <1>1, <1>7, <1>8, UpTo
<1>10. PICK k \in 0 .. N : p \in paths[k]
  BY <1>3
<1>11. p \in PathsOf(src, k)
  BY <1>9, <1>10 DEF OK
<1>12. Len(p) = k + 1 /\ k + 1 >= 1 /\ k + 1 <= Cardinality(Crossing)
  <2>1. Cardinality(Crossing) \in Nat
    BY RoadIs, FS_CardinalityType
  <2>2. Len(p) = k + 1
    BY <1>11 DEF PathsOf
  <2>3. QED
    BY <2>1, <2>2 DEF N
<1>13. QED
  BY <1>11, <1>12 DEF PathsOf

\* The shortest of them: one road to the next crossing.
LEMMA DirectPath ==
  ASSUME NEW r \in Road, NEW u, NEW v, Ends(r) = {u, v}, u # v
  PROVE  <<u, v>> \in SimplePaths(u)
<1>1. u \in Crossing /\ v \in Crossing /\ OtherEnd(r, u) = v /\ u \in Ends(r)
  BY EndsAre
<1>2. PICK paths : Rounds(paths, u)
  BY <1>1, SimplePathsInRounds
<1>3. 1 \in 1 .. Cardinality(Crossing) - 1 /\ 1 \in 0 .. Cardinality(Crossing) - 1
  <2>1. {u, v} \in SUBSET Crossing /\ IsFiniteSet(Crossing)
    BY <1>1, RoadIs
  <2>2. Cardinality({u, v}) <= Cardinality(Crossing) /\ Cardinality(Crossing) \in Nat
    BY <2>1, FS_Subset, FS_CardinalityType
  <2>3. Cardinality({u, v}) = 2
    <3>1. IsFiniteSet({u}) /\ Cardinality({u}) = 1
      BY FS_Singleton
    <3>2. {u, v} = {u} \cup {v} /\ v \notin {u}
      OBVIOUS
    <3>3. QED
      BY <3>1, <3>2, FS_AddElement
  <2>4. QED
    BY <2>2, <2>3
<1>4. /\ SimplePaths(u) = UNION {paths[k] : k \in 0 .. Cardinality(Crossing) - 1}
      /\ paths[0] = {<<u>>}
      /\ paths[1] = UNION {Longer(p) : p \in paths[1 - 1]}
  BY <1>2, <1>3 DEF Rounds
<1>5. paths[1] = Longer(<<u>>)
  <2>1. 1 - 1 = 0
    OBVIOUS
  <2>2. QED
    BY <1>4, <2>1
<1>6. Append(<<u>>, v) \in Longer(<<u>>)
  <2>1. Last(<<u>>) = u /\ ToSet(<<u>>) = {u}
    BY DEF Last, ToSet
  <2>2. r \in RoadsAt(u)
    BY <1>1 DEF RoadsAt, Road
  <2>3. QED
    BY <1>1, <2>1, <2>2 DEF Longer
<1>7. Append(<<u>>, v) = <<u, v>>
  <2> DEFINE e == Append(<<u>>, v)
  <2>1. <<u>> \in Seq({u, v}) /\ Len(<<u>>) = 1 /\ <<u>>[1] = u
    OBVIOUS
  <2>2. e \in Seq({u, v}) /\ Len(e) = 2 /\ e[1] = u /\ e[2] = v
    BY <2>1, AppendProperties
  <2> HIDE DEF e
  <2>3. e = <<u, v>>
    BY <2>2
  <2>4. QED
    BY <2>3 DEF e
<1>8. QED
  BY <1>3, <1>4, <1>5, <1>6, <1>7

-----------------------------------------------------------------------------
(***************************************************************************)
(* The search for paths                                                     *)
(***************************************************************************)

On(path) == {RoadOn(path, k) : k \in 1 .. Len(path) - 1}

LEMMA Numbers ==
  /\ RoadType \in Nat /\ RoadType > 0 /\ IntMax \in Nat
  /\ Cardinality(Crossing) \in Nat /\ Cardinality(Crossing) < 255
  /\ IntMax > RoadType * Cardinality(Crossing)
  /\ IntMax > RoadType /\ RoadType # IntMax
<1>1. /\ RoadType \in Nat /\ RoadType > 0 /\ IntMax \in Nat
      /\ Cardinality(Crossing) < 255 /\ IntMax > RoadType * Cardinality(Crossing)
  BY GeoSvrMapAssumption DEF GeoSvrMapAssumption
<1>2. Cardinality(Crossing) \in Nat /\ Cardinality(Crossing) # 0
  <2>1. Crossing # {}
    BY RoadIs
  <2>2. QED
    BY <2>1, RoadIs, FS_CardinalityType, FS_EmptySet
<1>3. \A a, b \in Nat : a > 0 /\ b # 0 => a * b >= a
  <2>1. \A b \in Nat : b # 0 => b - 1 \in Nat /\ (b - 1) + 1 = b
    OBVIOUS
  <2>2. \A a, c \in Nat : a * (c + 1) = a * c + a /\ a * c \in Nat
    OBVIOUS
  <2>3. \A a, c \in Nat : a * (c + 1) >= a
    BY <2>2
  <2>4. QED
    BY <2>1, <2>3
<1>4. RoadType * Cardinality(Crossing) >= RoadType
  BY <1>1, <1>2, <1>3
<1> DEFINE m == RoadType * Cardinality(Crossing)
<1>5. m \in Int
  BY <1>1, <1>2
<1> HIDE DEF m
<1>6. IntMax > RoadType
  BY <1>1, <1>4, <1>5 DEF m
<1>7. QED
  BY <1>1, <1>2, <1>6

LEMMA TypesAre ==
  ASSUME NEW t \in TypesOfRoads, NEW path, Way(path), Len(path) >= 1
  PROVE  /\ Types(t, path) \in Seq({RoadType, IntMax}) /\ Len(Types(t, path)) = Len(path) - 1
         /\ \A k \in 1 .. Len(path) - 1 : Types(t, path)[k] = t[RoadOn(path, k)]
<1> DEFINE N == Len(path) - 1
<1>1. N \in Nat
  BY DEF Way
<1>2. \A k \in 1 .. N : RoadsOf(path)[k] = RoadOn(path, k)
  BY DEF RoadsOf, RoadOn
<1>3. Types(t, path) = [k \in 1 .. N |-> t[RoadOn(path, k)]]
  BY <1>2 DEF Types
<1>4. \A k \in 1 .. N : t[RoadOn(path, k)] \in {RoadType, IntMax}
  BY RoadOnIs DEF TypesOfRoads
<1> HIDE DEF N
<1>5. [k \in 1 .. N |-> t[RoadOn(path, k)]] \in [1 .. N -> {RoadType, IntMax}]
  BY <1>4
<1> DEFINE s == [k \in 1 .. N |-> t[RoadOn(path, k)]]
<1>6. \A k \in 1 .. N : s[k] = t[RoadOn(path, k)]
  OBVIOUS
<1> HIDE DEF s
<1>7. s \in Seq({RoadType, IntMax}) /\ Len(s) = N
  BY <1>1, <1>5 DEF s
<1>8. QED
  BY <1>3, <1>6, <1>7 DEF s, N

\* The roads of the path get the new types, the others keep theirs.
LEMMA WithTypesIs ==
  ASSUME NEW t \in TypesOfRoads, NEW path, Way(path), Len(path) >= 1, NEW new,
         \A k \in 1 .. Len(path) - 1 : new[k] \in {RoadType, IntMax}
  PROVE  LET w == WithTypes(t, path, new)
         IN  /\ w \in TypesOfRoads
             /\ \A r \in Road \ On(path) : w[r] = t[r]
             /\ \A r \in On(path) : \E k \in 1 .. Len(path) - 1 : RoadOn(path, k) = r /\ w[r] = new[k]
<1> DEFINE N == Len(path) - 1
           w == WithTypes(t, path, new)
           I(r) == {i \in 1 .. N : RoadOn(path, i) = r}
           at(r) == IF I(r) # {} THEN Min(I(r)) ELSE 0
<1>0. Len(path) \in Nat /\ N \in Nat
  BY DEF Way
<1> DEFINE q == RoadsOf(path)
           J(r) == {i \in 1 .. Len(q) : q[i] = r}
<1>1. \A r : J(r) = I(r)
  <2>1. q = [k \in 1 .. N |-> RoadOn(path, k)]
    BY DEF RoadsOf, RoadOn
  <2>2. q \in [1 .. N -> Road]
    BY <2>1, RoadOnIs
  <2>3. Len(q) = N /\ \A i \in 1 .. N : q[i] = RoadOn(path, i)
    BY <1>0, <2>1, <2>2
  <2> HIDE DEF q
  <2>4. QED
    BY <2>3
<1>2. w = [r \in Road |-> IF at(r) = 0 THEN t[r] ELSE new[at(r)]]
  <2>1. DOMAIN t = Road
    BY DEF TypesOfRoads
  <2>2. w = [r \in DOMAIN t |-> IF (IF J(r) # {} THEN Min(J(r)) ELSE 0) = 0 THEN t[r]
                               ELSE new[IF J(r) # {} THEN Min(J(r)) ELSE 0]]
    BY DEF WithTypes, SelectInSeq
  <2> HIDE DEF J, I, w
  <2>3. QED
    BY <1>1, <2>1, <2>2
<1> HIDE DEF q, J
<1>9. On(path) \in SUBSET Road
  <2>1. \A k \in 1 .. Len(path) - 1 : RoadOn(path, k) \in Road
    BY RoadOnIs
  <2>2. QED
    BY <2>1 DEF On
<1>3. ASSUME NEW r, I(r) # {} PROVE at(r) \in I(r) /\ at(r) # 0
  <2>1. I(r) \in SUBSET Nat
    OBVIOUS
  <2>2. \E m \in I(r) : \A k \in I(r) : m <= k
    BY <1>3, <2>1, Least
  <2>3. Min(I(r)) \in I(r)
    BY <2>2 DEF Min
  <2>4. QED
    BY <1>3, <2>3
<1>4. \A r \in Road : I(r) = {} <=> r \notin On(path)
  BY DEF On
<1>5. \A r \in Road \ On(path) : w[r] = t[r]
  BY <1>2, <1>4
<1>6. ASSUME NEW r \in On(path) PROVE \E k \in 1 .. N : RoadOn(path, k) = r /\ w[r] = new[k]
  <2>1. r \in Road /\ I(r) # {}
    BY <1>4, <1>9
  <2>2. at(r) \in 1 .. N /\ RoadOn(path, at(r)) = r /\ at(r) # 0
    BY <1>3, <2>1
  <2> HIDE DEF at
  <2>3. w[r] = new[at(r)]
    BY <1>2, <2>1, <2>2
  <2>4. QED
    BY <2>2, <2>3
<1>7. w \in TypesOfRoads
  <2>1. \A r \in Road : w[r] \in {RoadType, IntMax}
    BY <1>5, <1>6 DEF TypesOfRoads
  <2> HIDE DEF at
  <2>2. w = [r \in Road |-> w[r]]
    BY <1>2
  <2> HIDE DEF w
  <2>3. QED
    BY <2>1, <2>2 DEF TypesOfRoads
<1>8. QED
  BY <1>5, <1>6, <1>7

LEMMA CloseIs ==
  ASSUME NEW t \in TypesOfRoads, NEW path, Way(path), Len(path) >= 1
  PROVE  /\ Close(t, path) \in TypesOfRoads
         /\ \A r \in Road \ On(path) : Close(t, path)[r] = t[r]
         /\ \A r \in On(path) : Close(t, path)[r] = IntMax
<1> DEFINE new == [k \in 1 .. Len(path) - 1 |-> IntMax]
<1>1. \A k \in 1 .. Len(path) - 1 : new[k] = IntMax
  OBVIOUS
<1>2. Close(t, path) = WithTypes(t, path, new)
  BY DEF Close
<1> HIDE DEF new
<1>3. QED
  BY <1>1, <1>2, WithTypesIs

\* What the search keeps of a path from src to dst.
Finding(src, dst) ==
  [path : {p \in SimplePaths(src) : Last(p) = dst}, types : Seq({RoadType, IntMax}), left : TypesOfRoads]

\* The paths were found one after the other: each among the shortest when it was found,
\* with the types its roads had, and its roads were closed.
Chain(t, src, dst, found) ==
  /\ found \in Seq(Finding(src, dst))
  /\ \A k \in 1 .. Len(found) :
       /\ found[k].path \in ShortestPaths(Before(t, found, k), src, dst)
       /\ found[k].types = Types(Before(t, found, k), found[k].path)
       /\ found[k].left = Close(Before(t, found, k), found[k].path)

LEMMA FindingIs ==
  ASSUME NEW src \in Crossing, NEW dst, NEW f \in Finding(src, dst)
  PROVE  /\ f.path \in Seq(Crossing) /\ Len(f.path) \in Nat /\ Len(f.path) >= 1
         /\ f.path[1] = src /\ f.path[Len(f.path)] = dst
         /\ Way(f.path) /\ NoRepetition(f.path) /\ Len(f.path) <= Cardinality(Crossing)
         /\ f.types \in Seq({RoadType, IntMax}) /\ f.left \in TypesOfRoads
<1>1. f.path \in SimplePaths(src) /\ Last(f.path) = dst
  BY DEF Finding
<1>2. QED
  BY <1>1, SimplePathsAre DEF Finding, Last

LEMMA BeforeIs ==
  ASSUME NEW t \in TypesOfRoads, NEW src \in Crossing, NEW dst, NEW found \in Seq(Finding(src, dst)),
         NEW k \in 1 .. Len(found) + 1
  PROVE  Before(t, found, k) \in TypesOfRoads
<1>1. CASE k = 1
  BY <1>1 DEF Before
<1>2. CASE k # 1
  <2>1. k - 1 \in 1 .. Len(found)
    BY <1>2
  <2>2. found[k - 1] \in Finding(src, dst)
    BY <2>1
  <2>3. QED
    BY <1>2, <2>2, FindingIs DEF Before
<1>3. QED
  BY <1>1, <1>2

LEMMA ChainGrows ==
  ASSUME NEW t \in TypesOfRoads, NEW src \in Crossing, NEW dst, NEW found, 
         found \in Seq(Finding(src, dst)), NEW l \in FoundNext(t, src, dst, found)
  PROVE  /\ l \in Seq(Finding(src, dst))
         /\ Chain(t, src, dst, found) => Chain(t, src, dst, l)
<1> DEFINE N == Len(found)
           now == Before(t, found, N + 1)
<1>1. N \in Nat /\ now \in TypesOfRoads
  BY BeforeIs
<1>2. PICK p \in ShortestPaths(now, src, dst) :
        l = Append(found, [path |-> p, types |-> Types(now, p), left |-> Close(now, p)])
  BY DEF FoundNext
<1> HIDE DEF now
<1>3. p \in SimplePaths(src) /\ Last(p) = dst
  BY DEF ShortestPaths
<1>4. Way(p) /\ Len(p) >= 1
  BY <1>3, SimplePathsAre
<1> DEFINE f == [path |-> p, types |-> Types(now, p), left |-> Close(now, p)]
<1>5. f \in Finding(src, dst)
  BY <1>1, <1>3, <1>4, TypesAre, CloseIs DEF Finding
<1>6. f.path = p /\ f.types = Types(now, p) /\ f.left = Close(now, p)
  OBVIOUS
<1> HIDE DEF f
<1>7. /\ l \in Seq(Finding(src, dst)) /\ Len(l) = N + 1 /\ l[N + 1] = f
      /\ \A k \in 1 .. N : l[k] = found[k]
  BY <1>2, <1>5, AppendProperties DEF f
<1> HIDE DEF N
<1>8. \A k \in 1 .. N + 1 : Before(t, l, k) = Before(t, found, k)
  <2> TAKE k \in 1 .. N + 1
  <2>1. CASE k = 1
    BY <2>1 DEF Before
  <2>2. CASE k # 1
    <3>1. k - 1 \in 1 .. N
      BY <1>1, <2>2
    <3>2. QED
      BY <1>7, <2>2, <3>1 DEF Before
  <2>3. QED
    BY <2>1, <2>2
<1>9. ASSUME Chain(t, src, dst, found) PROVE Chain(t, src, dst, l)
  <2>1. ASSUME NEW k \in 1 .. N + 1
        PROVE  /\ l[k].path \in ShortestPaths(Before(t, l, k), src, dst)
               /\ l[k].types = Types(Before(t, l, k), l[k].path)
               /\ l[k].left = Close(Before(t, l, k), l[k].path)
    <3>1. CASE k = N + 1
      <4>1. Before(t, l, k) = now /\ l[k] = f
        BY <1>7, <1>8, <3>1 DEF now, N
      <4>2. QED
        BY <1>2, <1>6, <4>1
    <3>2. CASE k # N + 1
      <4>1. k \in 1 .. N
        BY <1>1, <3>2
      <4>2. l[k] = found[k] /\ Before(t, l, k) = Before(t, found, k)
        BY <1>7, <1>8, <4>1
      <4>3. QED
        BY <1>9, <4>1, <4>2 DEF Chain, N
    <3>3. QED
      BY <3>1, <3>2
  <2>2. QED
    BY <1>7, <2>1 DEF Chain
<1>10. QED
  BY <1>7, <1>9

\* Whatever the loop of getPaths finds.
LEMMA FoundAre ==
  ASSUME NEW t \in TypesOfRoads, NEW src \in Crossing, NEW dst, NEW found \in Found(t, src, dst)
  PROVE  Chain(t, src, dst, found)
<1> DEFINE N == Len(Roads)
           S == SUBSET Seq(Finding(src, dst))
           goesOn(f) == HasNextPath(Before(t, f, Len(f) + 1), src, dst)
           Step(F) == UNION {FoundNext(t, src, dst, f) : f \in {g \in F : goesOn(g)}}
           Goes(f) == f = [k \in 0 .. Len(Roads) |-> IF k = 0 THEN {<<>>} ELSE Step(f[k - 1])]
           rounds == CHOOSE f : Goes(f)
<1>1. N \in Nat
  BY RoadIs
<1>2. found \in UNION {rounds[k] : k \in 0 .. N}
  BY DEF Found
<1> HIDE DEF goesOn
<1>3. \A F \in S : Step(F) \in S
  BY ChainGrows
<1>4. \E f : Goes(f)
  <2> HIDE DEF Step
  <2> DEFINE g == [k \in 1 .. N |-> [F \in S |-> Step(F)]]
  <2>1. g \in [1 .. N -> [S -> S]]
    BY <1>3
  <2>2. \A k \in 1 .. N : \A F \in S : g[k][F] = Step(F)
    OBVIOUS
  <2>3. {<<>>} \in S
    OBVIOUS
  <2> HIDE DEF g, S, N
  <2>4. PICK f : Unfolds(f, N, S, {<<>>}, g)
    BY <1>1, <2>1, <2>3, Recursion
  <2>5. \A k \in 0 .. N : k # 0 => k \in 1 .. N /\ k - 1 \in 0 .. N
    BY <1>1
  <2>6. /\ f \in [0 .. N -> S] /\ f[0] = {<<>>}
        /\ \A k \in 1 .. N : f[k] = g[k][f[k - 1]]
    BY <2>4 DEF Unfolds
  <2>7. \A k \in 0 .. N : f[k] = IF k = 0 THEN {<<>>} ELSE Step(f[k - 1])
    BY <2>2, <2>5, <2>6
  <2>8. f = [k \in 0 .. N |-> IF k = 0 THEN {<<>>} ELSE Step(f[k - 1])]
    BY <2>6, <2>7
  <2>9. Goes(f)
    BY <2>8 DEF N
  <2>10. QED
    BY <2>9
<1>5. Goes(rounds)
  <2> HIDE DEF Goes
  <2>1. QED
    BY <1>4
<1> HIDE DEF rounds
<1>6. \A k \in 0 .. N : rounds[k] = IF k = 0 THEN {<<>>} ELSE Step(rounds[k - 1])
  BY <1>5
<1> HIDE DEF Goes, Step, N
<1> DEFINE C == {f \in Seq(Finding(src, dst)) : Chain(t, src, dst, f)}
           OK == {k \in 0 .. N : rounds[k] \in SUBSET C}
<1>7. 0 \in OK
  <2>1. <<>> \in C
    BY DEF Chain
  <2>2. 0 \in 0 .. N /\ rounds[0] = {<<>>}
    BY <1>1, <1>6
  <2> HIDE DEF C
  <2>3. QED
    BY <2>1, <2>2
<1>8. ASSUME NEW k \in 0 .. N - 1, k \in OK PROVE k + 1 \in OK
  <2>1. k + 1 \in 0 .. N /\ k + 1 # 0 /\ (k + 1) - 1 = k
    BY <1>1
  <2>2. rounds[k + 1] = Step(rounds[k])
    BY <1>6, <2>1
  <2>3. rounds[k] \in SUBSET C
    BY <1>8
  <2>4. \A l \in Step(rounds[k]) : l \in C
    BY <2>3, ChainGrows DEF Step
  <2> HIDE DEF C
  <2>5. QED
    BY <2>1, <2>2, <2>4
<1> HIDE DEF OK
<1>9. 0 .. N \subseteq OK
  BY <1>1, <1>7, <1>8, UpTo
<1>10. QED
  BY <1>2, <1>9 DEF OK

\* The k-th path found, as the search kept it.
LEMMA ChainIs ==
  ASSUME NEW t \in TypesOfRoads, NEW src \in Crossing, NEW dst, NEW found, Chain(t, src, dst, found),
         NEW k \in 1 .. Len(found)
  PROVE  /\ found[k] \in Finding(src, dst) /\ Len(found) \in Nat
         /\ Before(t, found, k) \in TypesOfRoads
         /\ Before(t, found, k + 1) = Close(Before(t, found, k), found[k].path)
         /\ found[k].types = Types(Before(t, found, k), found[k].path)
         /\ Len(found[k].types) = Len(found[k].path) - 1
         /\ \A i \in 1 .. Len(found[k].path) - 1 : found[k].types[i] = Before(t, found, k)[RoadOn(found[k].path, i)]
<1>1. found \in Seq(Finding(src, dst)) /\ Len(found) \in Nat /\ k \in 1 .. Len(found) + 1
  BY DEF Chain
<1>2. found[k] \in Finding(src, dst)
  BY <1>1
<1>3. Before(t, found, k) \in TypesOfRoads
  BY <1>1, BeforeIs
<1>4. Before(t, found, k + 1) = found[k].left
  <2>1. k + 1 # 1 /\ (k + 1) - 1 = k
    BY <1>1
  <2>2. QED
    BY <2>1 DEF Before
<1>5. /\ found[k].types = Types(Before(t, found, k), found[k].path)
      /\ found[k].left = Close(Before(t, found, k), found[k].path)
  BY DEF Chain
<1>6. Way(found[k].path) /\ Len(found[k].path) >= 1
  BY <1>2, FindingIs
<1>7. QED
  BY <1>1, <1>2, <1>3, <1>4, <1>5, <1>6, TypesAre

\* A closed road stays closed while the search goes on.
LEMMA StaysClosed ==
  ASSUME NEW t \in TypesOfRoads, NEW src \in Crossing, NEW dst, NEW found, Chain(t, src, dst, found),
         Len(found) >= 1, NEW r \in On(found[1].path)
  PROVE  \A k \in 2 .. Len(found) : Before(t, found, k)[r] = IntMax
<1> DEFINE N == Len(found)
           OK == {j \in 0 .. N - 1 : Before(t, found, j + 2)[r] = IntMax}
<1>1. N \in Nat /\ N >= 1
  BY DEF Chain
<1>2. \A k \in 1 .. N : /\ Before(t, found, k) \in TypesOfRoads
                        /\ Before(t, found, k + 1) = Close(Before(t, found, k), found[k].path)
                        /\ Way(found[k].path) /\ Len(found[k].path) >= 1
  BY ChainIs, FindingIs
<1>3. 1 \in 1 .. N /\ r \in Road
  <2>1. 1 \in 1 .. N
    BY <1>1
  <2>2. Way(found[1].path)
    BY <1>2, <2>1
  <2>3. QED
    BY <2>1, <2>2, RoadOnIs DEF On
<1> HIDE DEF N
<1>4. 0 \in OK
  <2>1. Before(t, found, 1 + 1)[r] = IntMax
    BY <1>2, <1>3, CloseIs
  <2>2. 0 \in 0 .. N - 1 /\ 0 + 2 = 1 + 1
    BY <1>1
  <2>3. QED
    BY <2>1, <2>2
<1>5. ASSUME NEW j \in 0 .. (N - 1) - 1, j \in OK PROVE j + 1 \in OK
  <2>1. j + 2 \in 1 .. N /\ j + 1 \in 0 .. N - 1 /\ (j + 2) + 1 = (j + 1) + 2
    BY <1>1
  <2>2. Before(t, found, j + 2)[r] = IntMax
    BY <1>5
  <2>3. Before(t, found, (j + 2) + 1)[r] = IntMax
    BY <1>2, <1>3, <2>1, <2>2, CloseIs
  <2>4. QED
    BY <2>1, <2>3
<1> HIDE DEF OK
<1>6. 0 .. N - 1 \subseteq OK
  BY <1>1, <1>4, <1>5, UpTo
<1>7. ASSUME NEW k \in 2 .. N PROVE Before(t, found, k)[r] = IntMax
  <2>1. k - 2 \in 0 .. N - 1 /\ (k - 2) + 2 = k
    BY <1>1
  <2>2. k - 2 \in OK
    BY <1>6, <2>1
  <2>3. QED
    BY <2>1, <2>2 DEF OK
<1>8. QED
  BY <1>7 DEF N

\* The map is left with types; all roads are as open as before if no path found ran over
\* a closed one.
LEMMA RestoredIs ==
  ASSUME NEW t \in TypesOfRoads, NEW src \in Crossing, NEW dst, NEW found, Chain(t, src, dst, found)
  PROVE  /\ Restored(t, found) \in TypesOfRoads
         /\ t = Open /\ (\A f \in ToSet(found) : IntMax \notin ToSet(f.types)) => Restored(t, found) = Open
<1> DEFINE N == Len(found)
           closed == Before(t, found, N + 1)
           S == TypesOfRoads
           Step(k, x) == WithTypes(x, found[k].path, found[k].types)
           Goes(f) == f = [k \in 0 .. Len(found) |->
                             IF k = 0 THEN Before(t, found, Len(found) + 1)
                             ELSE WithTypes(f[k - 1], found[k].path, found[k].types)]
           back == CHOOSE f : Goes(f)
<1>1. N \in Nat /\ found \in Seq(Finding(src, dst))
  BY DEF Chain
<1>2. Restored(t, found) = back[N]
  BY DEF Restored
<1>3. closed \in S
  BY <1>1, BeforeIs
<1>4. \A k \in 1 .. N : /\ found[k] \in Finding(src, dst)
                        /\ Way(found[k].path) /\ Len(found[k].path) >= 1
                        /\ Len(found[k].types) = Len(found[k].path) - 1
                        /\ found[k].types \in Seq({RoadType, IntMax})
                        /\ \A i \in 1 .. Len(found[k].path) - 1 : found[k].types[i] \in {RoadType, IntMax}
  <2> TAKE k \in 1 .. N
  <2>1. /\ found[k] \in Finding(src, dst)
        /\ Len(found[k].types) = Len(found[k].path) - 1
    BY ChainIs
  <2>2. Way(found[k].path) /\ Len(found[k].path) >= 1 /\ found[k].types \in Seq({RoadType, IntMax})
    BY <2>1, FindingIs
  <2>3. \A i \in 1 .. Len(found[k].types) : found[k].types[i] \in {RoadType, IntMax}
    BY <2>2
  <2>4. QED
    BY <2>1, <2>2, <2>3
<1>5. \A k \in 1 .. N : \A x \in S : Step(k, x) \in S
  BY <1>4, WithTypesIs
<1>6. \E f : Goes(f)
  <2> HIDE DEF Step
  <2> DEFINE g == [k \in 1 .. N |-> [x \in S |-> Step(k, x)]]
  <2>1. g \in [1 .. N -> [S -> S]]
    BY <1>5
  <2>2. \A k \in 1 .. N : \A x \in S : g[k][x] = Step(k, x)
    OBVIOUS
  <2> HIDE DEF g, S, N, closed
  <2>3. PICK f : Unfolds(f, N, S, closed, g)
    BY <1>1, <1>3, <2>1, Recursion
  <2>4. \A k \in 0 .. N : k # 0 => k \in 1 .. N /\ k - 1 \in 0 .. N
    BY <1>1
  <2>5. /\ f \in [0 .. N -> S] /\ f[0] = closed
        /\ \A k \in 1 .. N : f[k] = g[k][f[k - 1]]
    BY <2>3 DEF Unfolds
  <2>6. \A k \in 0 .. N : f[k] = IF k = 0 THEN closed ELSE Step(k, f[k - 1])
    BY <2>2, <2>4, <2>5
  <2>7. f = [k \in 0 .. N |-> IF k = 0 THEN closed ELSE Step(k, f[k - 1])]
    BY <2>5, <2>6
  <2>8. Goes(f)
    BY <2>7 DEF Step, N, closed
  <2>9. QED
    BY <2>8
<1>7. Goes(back)
  <2> HIDE DEF Goes
  <2>1. QED
    BY <1>6
<1> HIDE DEF back
<1>8. \A k \in 0 .. N : back[k] = IF k = 0 THEN closed ELSE Step(k, back[k - 1])
  BY <1>7
<1> HIDE DEF Goes
<1>9. back[0] = closed /\ \A k \in 0 .. N - 1 : back[k + 1] = Step(k + 1, back[k])
  <2>1. 0 \in 0 .. N /\ \A k \in 0 .. N - 1 : k + 1 \in 0 .. N /\ k + 1 # 0 /\ (k + 1) - 1 = k
    BY <1>1
  <2> HIDE DEF Step, closed
  <2>2. QED
    BY <1>8, <2>1
<1> DEFINE OK == {k \in 0 .. N : back[k] \in S}
<1>10. 0 .. N \subseteq OK
  <2>1. 0 \in OK
    BY <1>1, <1>3, <1>9
  <2>2. ASSUME NEW k \in 0 .. N - 1, k \in OK PROVE k + 1 \in OK
    <3>1. k + 1 \in 1 .. N /\ k + 1 \in 0 .. N
      BY <1>1
    <3>2. back[k] \in S
      BY <2>2
    <3> HIDE DEF Step
    <3>3. QED
      BY <1>5, <1>9, <2>2, <3>1, <3>2
  <2> HIDE DEF OK
  <2>3. QED
    BY <1>1, <2>1, <2>2, UpTo
<1>11. \A k \in 0 .. N : back[k] \in S
  BY <1>10 DEF OK
<1>12. Restored(t, found) \in TypesOfRoads
  <2>1. N \in 0 .. N
    BY <1>1
  <2>2. QED
    BY <1>2, <1>11, <2>1
<1>13. ASSUME t = Open, \A f \in ToSet(found) : IntMax \notin ToSet(f.types)
       PROVE  Restored(t, found) = Open
  <2> DEFINE hit(k) == UNION {On(found[j].path) : j \in 1 .. k}
             Clean(k) == \A r \in Road \ hit(k) : Before(t, found, k + 1)[r] = RoadType
             Goods == {k \in 0 .. N : Clean(k)}
  <2>1. \A r \in Road : Open[r] = RoadType
    BY DEF Open, Road
  <2>2. \A k \in 0 .. N - 1 : k + 1 \in 1 .. N /\ k + 1 \in 0 .. N
    BY <1>1
  <2>3. \A k \in 0 .. N - 1 : hit(k + 1) = hit(k) \cup On(found[k + 1].path)
    <3> TAKE k \in 0 .. N - 1
    <3>1. \A j \in 1 .. k + 1 : j \in 1 .. k \/ j = k + 1
      OBVIOUS
    <3>2. k + 1 \in 1 .. k + 1 /\ \A j \in 1 .. k : j \in 1 .. k + 1
      OBVIOUS
    <3>3. QED
      BY <3>1, <3>2
  <2> HIDE DEF hit
  <2>4. 0 .. N \subseteq Goods
    <3>1. 0 \in Goods
      <4>1. Before(t, found, 0 + 1) = Open
        BY <1>13 DEF Before
      <4>2. 0 \in 0 .. N
        BY <1>1
      <4>3. QED
        BY <2>1, <4>1, <4>2
    <3>2. ASSUME NEW k \in 0 .. N - 1, k \in Goods PROVE k + 1 \in Goods
      <4>1. \A r \in Road \ hit(k) : Before(t, found, k + 1)[r] = RoadType
        BY <3>2
      <4>2. /\ Before(t, found, k + 1) \in TypesOfRoads
            /\ Before(t, found, (k + 1) + 1) = Close(Before(t, found, k + 1), found[k + 1].path)
        BY <2>2, ChainIs
      <4>3. Way(found[k + 1].path) /\ Len(found[k + 1].path) >= 1
        BY <1>4, <2>2
      <4>4. \A r \in Road \ On(found[k + 1].path) :
              Close(Before(t, found, k + 1), found[k + 1].path)[r] = Before(t, found, k + 1)[r]
        BY <4>2, <4>3, CloseIs
      <4>5. Clean(k + 1)
        BY <2>3, <4>1, <4>2, <4>4
      <4> HIDE DEF Clean
      <4>6. QED
        BY <2>2, <4>5
    <3> HIDE DEF Goods
    <3>3. QED
      BY <1>1, <3>1, <3>2, UpTo
  <2>5. \A r \in Road \ hit(N) : closed[r] = RoadType
    <3>1. N \in Goods
      BY <1>1, <2>4
    <3>2. QED
      BY <3>1
  <2> HIDE DEF Goods, Clean
  <2>6. \A k \in 1 .. N : \A i \in 1 .. Len(found[k].path) - 1 : found[k].types[i] = RoadType
    <3> TAKE k \in 1 .. N
    <3>1. found[k] \in ToSet(found)
      BY <1>1 DEF ToSet
    <3>2. IntMax \notin ToSet(found[k].types)
      BY <1>13, <3>1
    <3>3. \A i \in 1 .. Len(found[k].types) : found[k].types[i] # IntMax
      BY <1>4, <3>2 DEF ToSet
    <3>4. QED
      BY <1>4, <3>3
  <2> DEFINE Healed(k) == \A r \in Road : back[k][r] = RoadType \/ (r \notin hit(k) /\ back[k][r] = closed[r])
             Heals == {k \in 0 .. N : Healed(k)}
  <2> HIDE DEF closed
  <2>7. 0 .. N \subseteq Heals
    <3>1. 0 \in Heals
      <4>1. 0 \in 0 .. N /\ \A r : r \notin hit(0)
        BY <1>1 DEF hit
      <4>2. QED
        BY <1>9, <4>1
    <3>2. ASSUME NEW k \in 0 .. N - 1, k \in Heals PROVE k + 1 \in Heals
      <4> DEFINE w == WithTypes(back[k], found[k + 1].path, found[k + 1].types)
      <4>1. back[k] \in TypesOfRoads /\ back[k + 1] = w
        <5>1. k \in 0 .. N
          BY <1>1
        <5>2. QED
          BY <1>9, <1>11, <5>1
      <4>2. /\ \A r \in Road \ On(found[k + 1].path) : w[r] = back[k][r]
            /\ \A r \in On(found[k + 1].path) :
                 \E i \in 1 .. Len(found[k + 1].path) - 1 : w[r] = found[k + 1].types[i]
        <5>1. /\ Way(found[k + 1].path) /\ Len(found[k + 1].path) >= 1
              /\ \A i \in 1 .. Len(found[k + 1].path) - 1 : found[k + 1].types[i] \in {RoadType, IntMax}
          BY <1>4, <2>2
        <5>2. back[k] \in TypesOfRoads
          BY <4>1
        <5> HIDE DEF w
        <5>3. QED
          BY <5>1, <5>2, WithTypesIs DEF w
      <4> HIDE DEF w
      <4>3. \A r \in On(found[k + 1].path) : w[r] = RoadType
        BY <2>2, <2>6, <4>2
      <4>4. \A r \in Road : back[k][r] = RoadType \/ (r \notin hit(k) /\ back[k][r] = closed[r])
        BY <3>2
      <4>5. Healed(k + 1)
        BY <2>2, <2>3, <4>1, <4>2, <4>3, <4>4
      <4> HIDE DEF Healed
      <4>6. QED
        BY <2>2, <4>5
    <3> HIDE DEF Heals
    <3>3. QED
      BY <1>1, <3>1, <3>2, UpTo
  <2>8. N \in 0 .. N
    BY <1>1
  <2>9. \A r \in Road : back[N][r] = RoadType
    <3>1. Healed(N)
      BY <2>7, <2>8
    <3>2. QED
      BY <2>5, <3>1 DEF closed
  <2>10. back[N] \in [Road -> {RoadType, IntMax}]
    BY <1>11, <2>8 DEF TypesOfRoads
  <2>11. back[N] = [r \in Road |-> RoadType]
    BY <2>9, <2>10
  <2>12. QED
    BY <1>2, <2>11 DEF Open, Road
<1>14. QED
  BY <1>12, <1>13

\* The sum of types that are all alike.
LEMMA SumOfEqual ==
  ASSUME NEW s \in Seq(Nat), \A k \in 1 .. Len(s) : s[k] = RoadType
  PROVE  SumOf(s) = RoadType * Len(s)
<1> DEFINE N == Len(s)
           Goes(f) == f = [k \in 0 .. Len(s) |-> IF k = 0 THEN 0 ELSE f[k - 1] + s[k]]
           sum == CHOOSE f : Goes(f)
           h == [k \in 0 .. N |-> RoadType * k]
<1>1. N \in Nat /\ RoadType \in Nat
  BY Numbers
<1>2. SumOf(s) = sum[N]
  BY DEF SumOf
<1>3. \A c \in Nat : RoadType * (c + 1) = RoadType * c + RoadType
  BY <1>1
<1>4. \A k \in 0 .. N : h[k] = RoadType * k
  OBVIOUS
<1>5. \A k \in 1 .. N : h[k] = h[k - 1] + s[k]
  <2> TAKE k \in 1 .. N
  <2>1. k - 1 \in Nat /\ k - 1 \in 0 .. N /\ k \in 0 .. N /\ (k - 1) + 1 = k
    BY <1>1
  <2>2. RoadType * ((k - 1) + 1) = RoadType * (k - 1) + RoadType
    BY <1>3, <2>1
  <2> HIDE DEF h
  <2>3. QED
    BY <1>4, <2>1, <2>2
<1>6. h[0] = 0
  <2>1. 0 \in 0 .. N /\ RoadType * 0 = 0
    BY <1>1
  <2> HIDE DEF h
  <2>2. QED
    BY <1>4, <2>1
<1>7. Goes(h)
  <2>1. \A k \in 0 .. N : h[k] = IF k = 0 THEN 0 ELSE h[k - 1] + s[k]
    <3>1. \A k \in 0 .. N : k = 0 \/ k \in 1 .. N
      BY <1>1
    <3> HIDE DEF h
    <3>2. QED
      BY <1>5, <1>6, <3>1
  <2>2. h = [k \in 0 .. N |-> h[k]]
    OBVIOUS
  <2> HIDE DEF h
  <2>3. QED
    BY <2>1, <2>2
<1>8. Goes(sum)
  <2> HIDE DEF Goes, h
  <2>1. QED
    BY <1>7
<1> HIDE DEF sum
<1>9. \A k \in 0 .. N : sum[k] = IF k = 0 THEN 0 ELSE sum[k - 1] + s[k]
  BY <1>8
<1> HIDE DEF Goes, N
<1> DEFINE OK == {k \in 0 .. N : sum[k] = h[k]}
<1>10. 0 .. N \subseteq OK
  <2> HIDE DEF h
  <2>1. 0 \in OK
    BY <1>1, <1>6, <1>9
  <2>2. ASSUME NEW k \in 0 .. N - 1, k \in OK PROVE k + 1 \in OK
    <3>1. k + 1 \in 1 .. N /\ k + 1 \in 0 .. N /\ (k + 1) - 1 = k /\ k + 1 # 0
      BY <1>1
    <3>2. QED
      BY <1>5, <1>9, <2>2, <3>1
  <2> HIDE DEF OK
  <2>3. QED
    BY <1>1, <2>1, <2>2, UpTo
<1>11. N \in 0 .. N
  BY <1>1
<1> HIDE DEF h
<1>12. sum[N] = h[N]
  BY <1>10, <1>11
<1>13. QED
  BY <1>2, <1>4, <1>11, <1>12 DEF N

\* More roads, more length.
LEMMA Products ==
  /\ \A n \in Nat : RoadType * n \in Nat
  /\ \A m, n \in Nat : m <= n => RoadType * m <= RoadType * n
  /\ \A m, n \in Nat : m < n => RoadType * m < RoadType * n
<1>1. RoadType \in Nat /\ RoadType > 0
  BY Numbers
<1>2. \A n \in Nat : RoadType * n \in Nat
  BY <1>1
<1>3. \A m, k \in Nat : RoadType * (m + k) = RoadType * m + RoadType * k
  BY <1>1
<1>4. ASSUME NEW m \in Nat, NEW n \in Nat, m <= n PROVE RoadType * m <= RoadType * n
  <2>1. n - m \in Nat /\ m + (n - m) = n
    BY <1>4
  <2>2. RoadType * n = RoadType * m + RoadType * (n - m)
    BY <1>3, <2>1
  <2>3. RoadType * (n - m) \in Nat /\ RoadType * m \in Nat /\ RoadType * n \in Nat
    BY <1>2, <2>1
  <2>4. \A x, y, z \in Nat : z = x + y => x <= z
    OBVIOUS
  <2>5. QED
    BY <2>2, <2>3, <2>4
<1>5. ASSUME NEW m \in Nat, NEW n \in Nat, m < n PROVE RoadType * m < RoadType * n
  <2>1. m + 1 \in Nat /\ m + 1 <= n
    BY <1>5
  <2>2. RoadType * (m + 1) <= RoadType * n
    BY <1>4, <2>1
  <2>3. RoadType * (m + 1) = RoadType * m + RoadType
    BY <1>1
  <2>4. RoadType * m \in Nat /\ RoadType * n \in Nat
    BY <1>2
  <2>5. \A x, y, z \in Nat : y > 0 /\ x + y <= z => x < z
    OBVIOUS
  <2>6. QED
    BY <1>1, <2>2, <2>3, <2>4, <2>5
<1>6. QED
  BY <1>2, <1>4, <1>5

\* The sum of the types of a path whose roads are all open.
LEMMA OpenSum ==
  ASSUME NEW s \in Seq({RoadType, IntMax}), \A i \in 1 .. Len(s) : s[i] = RoadType
  PROVE  SumOf(s) = RoadType * Len(s) /\ SumOf(s) \in Nat
<1>1. s \in Seq(Nat) /\ Len(s) \in Nat
  BY Numbers
<1>2. SumOf(s) = RoadType * Len(s)
  BY <1>1, SumOfEqual
<1>3. QED
  BY <1>1, <1>2, Products

\* Where a road leads straight to the destination it is the first path found.
LEMMA FirstIsDirect ==
  ASSUME NEW src \in Crossing, NEW dst, src # dst, NEW r \in Road, Ends(r) = {src, dst},
         NEW found, Chain(Open, src, dst, found), Len(found) >= 1
  PROVE  found[1].path \in Seq(Crossing) /\ Len(found[1].path) = 2
<1> DEFINE p == found[1].path
           between == {x \in SimplePaths(src) : Last(x) = dst}
           sum(x) == SumOf(Types(Open, x))
           Sums == {sum(x) : x \in between}
<1>1. Len(found) \in Nat /\ 1 \in 1 .. Len(found)
  BY DEF Chain
<1>2. Before(Open, found, 1) = Open
  BY DEF Before
<1>3. p \in ShortestPaths(Open, src, dst)
  BY <1>1, <1>2 DEF Chain
<1>4. p \in between /\ sum(p) = Min(Sums)
  BY <1>3 DEF ShortestPaths
<1>5. Open \in TypesOfRoads /\ \A o \in Road : Open[o] = RoadType
  BY DEF Open, TypesOfRoads, Road
<1>6. ASSUME NEW x \in between PROVE sum(x) = RoadType * (Len(x) - 1) /\ sum(x) \in Nat /\ Len(x) - 1 \in Nat
  <2>1. x \in Seq(Crossing) /\ Len(x) >= 1 /\ Way(x)
    BY SimplePathsAre
  <2>2. /\ Types(Open, x) \in Seq({RoadType, IntMax}) /\ Len(Types(Open, x)) = Len(x) - 1
        /\ \A k \in 1 .. Len(x) - 1 : Types(Open, x)[k] = Open[RoadOn(x, k)]
    BY <1>5, <2>1, TypesAre
  <2>3. \A k \in 1 .. Len(x) - 1 : RoadOn(x, k) \in Road
    BY <2>1, RoadOnIs
  <2>4. \A k \in 1 .. Len(Types(Open, x)) : Types(Open, x)[k] = RoadType
    BY <1>5, <2>2, <2>3
  <2>5. QED
    BY <2>1, <2>2, <2>4, OpenSum
<1> DEFINE direct == <<src, dst>>
<1>7. direct \in between /\ Len(direct) = 2
  <2>1. direct \in SimplePaths(src)
    BY DirectPath
  <2>2. Last(direct) = dst
    BY DEF Last
  <2>3. QED
    BY <2>1, <2>2
<1> HIDE DEF direct
<1>8. /\ p \in Seq(Crossing) /\ Len(p) \in Nat /\ Len(p) >= 1
      /\ p[1] = src /\ p[Len(p)] = dst
  BY <1>4, SimplePathsAre DEF Last
<1> HIDE DEF between, p, sum
<1>9. Sums \in SUBSET Nat /\ sum(direct) \in Sums
  BY <1>6, <1>7
<1>10. Min(Sums) <= sum(direct)
  <2>1. Sums # {}
    BY <1>9
  <2> HIDE DEF Sums
  <2>2. \E m \in Sums : \A k \in Sums : m <= k
    BY <1>9, <2>1, Least
  <2>3. QED
    BY <1>9, <2>2 DEF Min
<1>11. sum(direct) = RoadType * 1 /\ sum(p) = RoadType * (Len(p) - 1)
  <2>1. sum(direct) = RoadType * (Len(direct) - 1)
    BY <1>6, <1>7
  <2>2. Len(direct) - 1 = 1
    BY <1>7
  <2>3. QED
    BY <1>4, <1>6, <2>1, <2>2
<1>12. ~(1 < Len(p) - 1)
  <2> SUFFICES ASSUME 1 < Len(p) - 1 PROVE FALSE
    OBVIOUS
  <2>1. 1 \in Nat /\ Len(p) - 1 \in Nat
    BY <1>8
  <2>2. RoadType * 1 < RoadType * (Len(p) - 1)
    BY <2>1, Products
  <2>3. RoadType * 1 \in Nat /\ RoadType * (Len(p) - 1) \in Nat
    BY <2>1, Products
  <2>4. RoadType * (Len(p) - 1) <= RoadType * 1
    BY <1>4, <1>10, <1>11
  <2>5. \A x, y \in Nat : x < y => ~(y <= x)
    OBVIOUS
  <2>6. QED
    BY <2>2, <2>3, <2>4, <2>5
<1>13. Len(p) # 1
  BY <1>8
<1>14. Len(p) = 2
  <2>1. \A x \in Nat : x >= 1 /\ x # 1 /\ ~(1 < x - 1) => x = 2
    OBVIOUS
  <2> HIDE DEF p
  <2>2. Len(p) \in Nat /\ Len(p) >= 1
    BY <1>8
  <2>3. QED
    BY <1>12, <1>13, <2>1, <2>2
<1>15. QED
  BY <1>8, <1>14 DEF p

LEMMA MeanMinIs ==
  ASSUME NEW S, NEW found \in Seq(S), found # <<>>
  PROVE  FindMeanMin(found) \in SUBSET DOMAIN found
<1> DEFINE sum(k) == Int32(SumOf(found[k].types))
           least  == {k \in DOMAIN found : \A l \in DOMAIN found : sum(k) <= sum(l)}
           even   == {k \in DOMAIN found : Even(found[k].types)}
           A == Cardinality(least) = 1 /\ \A k \in least : sum(k) < IntMax
<1>1. FindMeanMin(found) = IF A THEN least ELSE IF even # {} THEN {Min(even)} ELSE DOMAIN found
  BY DEF FindMeanMin
<1>2. least \in SUBSET DOMAIN found /\ even \in SUBSET DOMAIN found /\ DOMAIN found \in SUBSET Nat
  OBVIOUS
<1> HIDE DEF least, even, A, sum
<1>3. even # {} => Min(even) \in even
  <2>1. even # {} => \E m \in even : \A k \in even : m <= k
    BY <1>2, Least
  <2>2. QED
    BY <2>1 DEF Min
<1>4. QED
  BY <1>1, <1>2, <1>3

\* Of paths over open roads the one straight to the destination has the least sum.
LEMMA DirectIsChosen ==
  ASSUME NEW src \in Crossing, NEW dst, src # dst, NEW r \in Road, Ends(r) = {src, dst},
         NEW found, Chain(Open, src, dst, found), Len(found) >= 1,
         \A f \in ToSet(found) : IntMax \notin ToSet(f.types)
  PROVE  FindMeanMin(found) = {1}
<1> DEFINE N == Len(found)
           sum(k) == Int32(SumOf(found[k].types))
           D == DOMAIN found
           least == {k \in D : \A l \in D : sum(k) <= sum(l)}
<1>1. N \in Nat /\ D = 1 .. N /\ 1 \in 1 .. N /\ found \in Seq(Finding(src, dst))
  BY DEF Chain
<1>2. Open \in TypesOfRoads
  BY DEF Open, TypesOfRoads, Road
<1>3. ASSUME NEW k \in 1 .. N
      PROVE  /\ found[k].types \in Seq({RoadType, IntMax}) /\ Len(found[k].types) = Len(found[k].path) - 1
             /\ Len(found[k].path) \in Nat /\ Len(found[k].path) >= 2
             /\ Len(found[k].path) <= Cardinality(Crossing)
             /\ \A i \in 1 .. Len(found[k].types) : found[k].types[i] = RoadType
             /\ sum(k) = RoadType * (Len(found[k].path) - 1)
  <2> DEFINE f == found[k]
  <2>1. /\ f \in Finding(src, dst) /\ Len(f.types) = Len(f.path) - 1
    BY <1>2, ChainIs
  <2>2. f \in ToSet(found)
    BY <1>1 DEF ToSet
  <2>3. IntMax \notin ToSet(f.types)
    BY <2>2
  <2> HIDE DEF f
  <2>4. /\ f.types \in Seq({RoadType, IntMax}) /\ Len(f.path) \in Nat /\ Len(f.path) >= 1
        /\ Len(f.path) <= Cardinality(Crossing) /\ f.path[1] = src /\ f.path[Len(f.path)] = dst
    BY <2>1, FindingIs
  <2>5. \A i \in 1 .. Len(f.types) : f.types[i] = RoadType
    BY <2>3, <2>4 DEF ToSet
  <2>6. Len(f.path) # 1
    BY <2>4
  <2>7. Len(f.path) >= 2
    BY <2>4, <2>6
  <2>8. SumOf(f.types) = RoadType * Len(f.types)
    BY <2>4, <2>5, OpenSum
  <2>9. RoadType * (Len(f.path) - 1) \in Nat /\ RoadType * (Len(f.path) - 1) <= IntMax
    <3>1. Len(f.path) - 1 \in Nat /\ Len(f.path) - 1 <= Cardinality(Crossing) /\ Cardinality(Crossing) \in Nat
      BY <2>4, Numbers
    <3>2. RoadType * (Len(f.path) - 1) <= RoadType * Cardinality(Crossing)
      BY <3>1, Products
    <3>3. RoadType * (Len(f.path) - 1) \in Nat /\ RoadType * Cardinality(Crossing) \in Nat
      BY <3>1, Products
    <3>4. \A x, y, z \in Nat : x <= y /\ z > y => x <= z
      OBVIOUS
    <3>5. QED
      BY <3>2, <3>3, <3>4, Numbers
  <2>10. \A n \in Nat : n <= IntMax => Int32(n) = n
    <3> SUFFICES ASSUME NEW n \in Nat, n <= IntMax PROVE Int32(n) = n
      OBVIOUS
    <3>1. IntMax \in Nat
      BY Numbers
    <3> DEFINE M == IntMax + 1
    <3>2. M \in Nat /\ M > 0 /\ n < M /\ n + IntMax + 1 = n + M /\ 2 * (IntMax + 1) = M + M
      BY <3>1
    <3> HIDE DEF M
    <3>3. (n + M) % (M + M) = n + M
      <4>1. n + M \in 0 .. (M + M) - 1 /\ M + M > 0 /\ M + M \in Nat
        BY <3>2
      <4>2. \A a, b \in Nat : b > 0 /\ a < b => a % b = a
        OBVIOUS
      <4>3. QED
        BY <4>1, <4>2
    <3>4. Int32(n) = ((n + IntMax + 1) % (2 * (IntMax + 1))) - (IntMax + 1)
      BY DEF Int32
    <3>5. Int32(n) = (n + M) - M
      BY <3>2, <3>3, <3>4 DEF M
    <3>6. QED
      BY <3>2, <3>5
  <2>11. Int32(SumOf(f.types)) = RoadType * (Len(f.path) - 1)
    BY <2>1, <2>8, <2>9, <2>10 DEF f
  <2>12. QED
    BY <2>1, <2>4, <2>5, <2>7, <2>11 DEF f
<1>4. Len(found[1].path) = 2
  BY FirstIsDirect
<1>5. sum(1) = RoadType * 1 /\ RoadType * 1 = RoadType
  <2>1. sum(1) = RoadType * (Len(found[1].path) - 1)
    BY <1>1, <1>3
  <2>2. QED
    BY <1>4, <2>1, Numbers
<1>6. ASSUME NEW k \in 1 .. N, k # 1 PROVE sum(k) > sum(1) /\ sum(k) \in Nat
  <2>1. k \in 2 .. N /\ Len(found[k].path) >= 2
    BY <1>1, <1>3, <1>6
  <2>2. ASSUME Len(found[k].path) = 2 PROVE FALSE
    <3>1. /\ found[1].path[1] = src /\ found[1].path[2] = dst
          /\ found[k].path[1] = src /\ found[k].path[2] = dst
      BY <1>1, <1>4, <2>2, FindingIs
    <3>2. dst \in Crossing
      BY EndsAre
    <3>3. RoadOn(found[1].path, 1) = r /\ RoadOn(found[k].path, 1) = r
      BY <3>1, <3>2, RoadByNodeIs DEF RoadOn
    <3>4. r \in On(found[1].path)
      BY <1>4, <3>3 DEF On
    <3>5. Before(Open, found, k)[r] = IntMax
      BY <1>1, <1>2, <2>1, <3>4, StaysClosed
    <3>6. found[k].types[1] = Before(Open, found, k)[RoadOn(found[k].path, 1)]
      <4>1. 1 \in 1 .. Len(found[k].path) - 1 /\ k \in 1 .. Len(found)
        BY <1>1, <2>1, <2>2
      <4>2. QED
        BY <1>2, <4>1, ChainIs
    <3>7. found[k].types[1] = RoadType
      BY <1>3, <2>2
    <3>8. QED
      BY <3>3, <3>5, <3>6, <3>7, Numbers
  <2>3. Len(found[k].path) - 1 \in Nat /\ 1 < Len(found[k].path) - 1
    <3>1. \A x \in Nat : x >= 2 /\ x # 2 => x - 1 \in Nat /\ 1 < x - 1
      OBVIOUS
    <3>2. Len(found[k].path) \in Nat /\ Len(found[k].path) >= 2 /\ Len(found[k].path) # 2
      BY <1>1, <1>3, <2>1, <2>2
    <3>3. QED
      BY <3>1, <3>2
  <2>4. RoadType * 1 < RoadType * (Len(found[k].path) - 1)
    BY <2>3, Products
  <2>5. RoadType * (Len(found[k].path) - 1) \in Nat /\ RoadType * 1 \in Nat
    BY <2>3, Products
  <2>6. sum(k) = RoadType * (Len(found[k].path) - 1)
    BY <1>3
  <2> HIDE DEF sum
  <2>7. QED
    BY <1>5, <2>4, <2>5, <2>6
<1>7. sum(1) \in Nat /\ sum(1) < IntMax
  BY <1>5, Numbers
<1> HIDE DEF sum
<1>8. least = {1}
  <2>1. 1 \in least
    BY <1>1, <1>6, <1>7
  <2>2. \A k \in least : k = 1
    BY <1>1, <1>6, <1>7
  <2>3. QED
    BY <2>1, <2>2
<1>9. Cardinality({1}) = 1
  BY FS_Singleton
<1>10. FindMeanMin(found) = IF Cardinality(least) = 1 /\ \A k \in least : sum(k) < IntMax THEN least
        ELSE IF {k \in D : Even(found[k].types)} # {} THEN {Min({k \in D : Even(found[k].types)})} ELSE D
  BY DEF FindMeanMin, sum
<1> HIDE DEF least
<1>11. QED
  BY <1>7, <1>8, <1>9, <1>10

----------------------------------------------------------------------------
(* The path that is found *)

\* Two crossings have no road between them, or the one that has them as its ends.
LEMMA RoadByNodeJoins ==
  ASSUME NEW u \in Crossing, NEW v \in Crossing, RoadByNode(u, v) \in Road
  PROVE  Ends(RoadByNode(u, v)) = {u, v}
<1> DEFINE between == {r \in Road : Ends(r) = {u, v}}
<1>1. RoadByNode(u, v) = IF between = {} THEN NoRoad ELSE Min(between)
  BY RoadByNodeLooks DEF Road
<1>2. between # {}
  BY <1>1, GeoSvrMapAssumption DEF GeoSvrMapAssumption, Road
<1>3. PICK r \in between : TRUE
  BY <1>2
<1>4. RoadByNode(u, v) = r
  BY <1>3, RoadByNodeIs
<1>5. QED
  BY <1>3, <1>4

\* With the destination's road the path is one that runs over no road twice.
LEMMA LastRoad ==
  ASSUME NEW path \in Seq(Crossing), Len(path) \in 2 .. 254, NoRepetition(path), NoRoadTwice(path),
         NEW q \in Place, path[Len(path)] \in Ends(RoadByPos(q))
  PROVE  LET A == AddLastRoad(path, q)
             n == Len(path)
         IN  /\ A \in Trails
             /\ \A k \in 1 .. n : A[k] = path[k]
             /\ {path[n - 1], path[n]} = Ends(RoadByPos(q)) => A = path
             /\ \A k \in 1 .. n - 1 : RoadOn(A, k) = RoadOn(path, k)
             /\ \A k \in 1 .. Len(A) - 1 : k < n \/ RoadOn(A, k) = RoadByPos(q)
<1> DEFINE n == Len(path)
           d == RoadByPos(q)
           x == IF path[n] = Roads[d][1] THEN Roads[d][2] ELSE Roads[d][1]
           A == AddLastRoad(path, q)
<1>1. d \in Road /\ n \in Nat /\ n \in 2 .. 254 /\ \A k \in 1 .. n : path[k] \in Crossing
  BY RoadByPosIs
<1>2. A = IF {path[n - 1], path[n]} = Ends(d) THEN path ELSE Append(path, x)
  BY DEF AddLastRoad
<1>3. x \in Crossing /\ Ends(d) = {path[n], x} /\ x # path[n]
  <2>1. path[n] \in Ends(d)
    OBVIOUS
  <2> HIDE DEF n, d
  <2>2. Ends(d) = {Roads[d][1], Roads[d][2]} /\ Roads[d][1] < Roads[d][2]
        /\ Roads[d][1] \in Nat /\ Roads[d][2] \in Nat
        /\ Roads[d][1] \in Crossing /\ Roads[d][2] \in Crossing
    BY <1>1, RoadIs DEF Ends
  <2>3. \A a, b \in Nat : a < b => a # b
    OBVIOUS
  <2>4. Roads[d][1] # Roads[d][2]
    BY <2>2, <2>3
  <2>5. QED
    BY <2>1, <2>2, <2>4
<1> HIDE DEF d, x, A
<1>a. \A y \in 2 .. 254 : y \in 1 .. y /\ y + 1 \in 2 .. 255
  OBVIOUS
<1>b. \A y, k \in Nat : k + 1 = y => y - 1 = k
  OBVIOUS
<1>4. CASE {path[n - 1], path[n]} = Ends(d)
  <2>1. A = path
    BY <1>2, <1>4
  <2>2. n \in 2 .. 255
    BY <1>1
  <2>3. \A k \in 1 .. n - 1 : k < n
    BY <1>1
  <2>4. QED
    BY <1>4, <2>1, <2>2, <2>3 DEF Trails, A, d
<1>5. CASE {path[n - 1], path[n]} # Ends(d)
  <2>1. A = Append(path, x)
    BY <1>2, <1>5
  <2>2. A \in Seq(Crossing) /\ Len(A) = n + 1 /\ A[n + 1] = x /\ \A k \in 1 .. n : A[k] = path[k]
    BY <1>1, <1>3, <2>1
  <2>3. \A k \in 1 .. n - 1 : RoadOn(A, k) = RoadOn(path, k)
    <3> TAKE k \in 1 .. n - 1
    <3>1. k \in 1 .. n /\ k + 1 \in 1 .. n
      BY <1>1
    <3>2. QED
      BY <2>2, <3>1 DEF RoadOn
  <2>4. RoadOn(A, n) = d
    <3>1. n \in 1 .. n
      BY <1>1, <1>a
    <3>2. A[n] = path[n] /\ path[n] \in Crossing
      BY <1>1, <2>2, <3>1
    <3>3. RoadByNode(path[n], x) = d
      BY <1>1, <1>3, <3>2, RoadByNodeIs
    <3>4. QED
      BY <2>2, <3>2, <3>3 DEF RoadOn
  <2>5. \A k \in 1 .. n - 1 : RoadOn(path, k) # d
    <3> SUFFICES ASSUME NEW k \in 1 .. n - 1, RoadOn(path, k) = d PROVE FALSE
      OBVIOUS
    <3>1. k \in 1 .. n /\ k + 1 \in 1 .. n /\ n \in 1 .. n /\ k # n
      BY <1>1
    <3>2. Ends(d) = {path[k], path[k + 1]}
      BY <1>1, <3>1, RoadByNodeJoins DEF RoadOn
    <3>3. path[n] = path[k] \/ path[n] = path[k + 1]
      BY <1>3, <3>2
    <3>4. k + 1 = n
      BY <3>1, <3>3 DEF NoRepetition
    <3>5. n - 1 = k
      <4>1. n \in Nat /\ k \in Nat
        BY <1>1
      <4> HIDE DEF n
      <4>2. QED
        BY <1>b, <3>4, <4>1
    <3>6. QED
      BY <1>5, <3>2, <3>4, <3>5
  <2>6. \A k \in 1 .. Len(A) - 1 : k \in 1 .. n - 1 \/ k = n
    BY <1>1, <2>2
  <2>7. NoRoadTwice(A)
    <3> SUFFICES ASSUME NEW i \in 1 .. Len(A) - 1, NEW j \in 1 .. Len(A) - 1, RoadOn(A, i) = RoadOn(A, j)
                 PROVE  i = j
      BY DEF NoRoadTwice
    <3>1. CASE i \in 1 .. n - 1 /\ j \in 1 .. n - 1
      BY <2>3, <3>1 DEF NoRoadTwice
    <3>2. CASE i = n \/ j = n
      BY <2>3, <2>4, <2>5, <2>6, <3>2
    <3>3. QED
      BY <2>6, <3>1, <3>2
  <2>8. A \in Trails
    <3>1. Len(A) \in 2 .. 255
      <4>1. Len(A) = n + 1 /\ n \in 2 .. 254
        BY <1>1, <2>2
      <4> HIDE DEF n
      <4>2. QED
        BY <1>a, <4>1
    <3>2. QED
      BY <2>2, <2>7, <3>1 DEF Trails
  <2>9. \A k \in 1 .. Len(A) - 1 : k < n \/ RoadOn(A, k) = d
    BY <1>1, <2>4, <2>6
  <2>10. QED
    BY <1>5, <2>2, <2>3, <2>8, <2>9 DEF A, d
<1>6. QED
  BY <1>4, <1>5

\* What a search gives: a path that runs over no road twice and leads away from the road
\* it starts at; on one road and with all roads open, that road alone.
LEMMA RouteIs ==
  ASSUME NEW t \in TypesOfRoads, NEW p \in Place, NEW q \in Place, NEW r \in GetPaths(t, p, q)
  PROVE  /\ r.types \in TypesOfRoads /\ r.twice \in BOOLEAN
         /\ t = Open /\ ~r.twice => r.types = Open
         /\ r.path \in Trails
         /\ RoadByPos(p) # RoadByPos(q) =>
              \A k \in 2 .. Len(r.path) - 1 : RoadOn(r.path, k) # RoadByPos(p)
         /\ RoadByPos(p) = RoadByPos(q) /\ t = Open /\ ~r.twice => Len(r.path) = 2
<1> DEFINE e == SrcAndDst(p, q)
           Away(path) == \A k \in 2 .. Len(path) - 1 : RoadOn(path, k) # RoadByPos(p)
<1>1. /\ e \in Seq(Crossing) /\ Len(e) = 2
      /\ e[1] \in Ends(RoadByPos(p)) /\ e[2] \in Ends(RoadByPos(q)) /\ e[1] # e[2]
      /\ RoadByPos(p) = RoadByPos(q) => {e[1], e[2]} = Ends(RoadByPos(p))
      /\ e[1] \in Crossing /\ e[2] \in Crossing
      /\ RoadByPos(p) \in Road /\ RoadByPos(q) \in Road
  BY SrcAndDstAre, RoadByPosIs
<1>2. PICK found \in Found(t, e[1], e[2]) :
        IF found = <<>> THEN r = [path |-> AddLastRoad(e, q), types |-> t, twice |-> FALSE]
        ELSE \E k \in FindMeanMin(found) :
               r = [path  |-> AddLastRoad(found[k].path, q),
                    types |-> Restored(t, found),
                    twice |-> \E f \in ToSet(found) : IntMax \in ToSet(f.types)]
  <2>1. \E found \in Found(t, e[1], e[2]) :
          r \in IF found = <<>>
                THEN {[path |-> AddLastRoad(e, q), types |-> t, twice |-> FALSE]}
                ELSE {[path  |-> AddLastRoad(found[k].path, q),
                       types |-> Restored(t, found),
                       twice |-> \E f \in ToSet(found) : IntMax \in ToSet(f.types)] :
                      k \in FindMeanMin(found)}
    BY DEF GetPaths
  <2> HIDE DEF e
  <2>2. QED
    BY <2>1
<1> HIDE DEF e
<1>3. Chain(t, e[1], e[2], found)
  BY <1>1, <1>2, FoundAre
\* A path that starts at the one and ends at the other, and what becomes of it.
<1>4. ASSUME NEW path \in Seq(Crossing), Len(path) \in 2 .. 254, NoRepetition(path), NoRoadTwice(path),
             path[1] = e[1], path[Len(path)] = e[2], r.path = AddLastRoad(path, q)
      PROVE  /\ r.path \in Trails
             /\ RoadByPos(p) # RoadByPos(q) => Away(r.path)
             /\ Len(path) = 2 /\ RoadByPos(p) = RoadByPos(q) => Len(r.path) = 2
  <2> DEFINE n == Len(path)
             A == r.path
  <2>1. n \in Nat /\ n \in 2 .. 254 /\ path[n] \in Ends(RoadByPos(q))
    BY <1>1, <1>4
  <2>2. /\ A \in Trails
        /\ {path[n - 1], path[n]} = Ends(RoadByPos(q)) => A = path
        /\ \A k \in 1 .. n - 1 : RoadOn(A, k) = RoadOn(path, k)
        /\ \A k \in 1 .. Len(A) - 1 : k < n \/ RoadOn(A, k) = RoadByPos(q)
    BY <1>4, <2>1, LastRoad
  <2>3. ASSUME RoadByPos(p) # RoadByPos(q), NEW k \in 2 .. Len(A) - 1, RoadOn(A, k) = RoadByPos(p)
        PROVE  FALSE
    <3>1. k \in 1 .. Len(A) - 1 /\ k \in Nat /\ k >= 2
      BY <2>2 DEF Trails
    <3>2. k < n
      BY <2>2, <2>3, <3>1
    <3>3. k \in 1 .. n - 1 /\ 1 \in 1 .. n /\ k \in 1 .. n /\ k + 1 \in 1 .. n
      BY <2>1, <3>1, <3>2
    <3>4. RoadByNode(path[k], path[k + 1]) = RoadByPos(p)
      BY <2>2, <2>3, <3>3 DEF RoadOn
    <3>5. path[k] \in Crossing /\ path[k + 1] \in Crossing
      BY <3>3
    <3>6. Ends(RoadByPos(p)) = {path[k], path[k + 1]}
      BY <1>1, <3>4, <3>5, RoadByNodeJoins
    <3>7. path[1] = path[k] \/ path[1] = path[k + 1]
      BY <1>1, <1>4, <3>6
    <3>8. 1 = k \/ 1 = k + 1
      BY <1>4, <3>3, <3>7 DEF NoRepetition
    <3>9. QED
      BY <3>1, <3>8
  <2>4. ASSUME Len(path) = 2, RoadByPos(p) = RoadByPos(q) PROVE Len(A) = 2
    <3>1. n - 1 = 1 /\ n = 2
      BY <2>4
    <3>2. {path[n - 1], path[n]} = Ends(RoadByPos(q))
      BY <1>1, <1>4, <2>4, <3>1
    <3>3. QED
      BY <2>2, <2>4, <3>2
  <2>5. QED
    BY <2>2, <2>3, <2>4
<1>5. CASE found = <<>>
  <2>1. r = [path |-> AddLastRoad(e, q), types |-> t, twice |-> FALSE]
    BY <1>2, <1>5
  <2>2. NoRepetition(e) /\ NoRoadTwice(e) /\ Len(e) \in 2 .. 254
    BY <1>1 DEF NoRepetition, NoRoadTwice
  <2>3. r.path = AddLastRoad(e, q) /\ r.types = t /\ r.twice = FALSE
    BY <2>1
  <2>4. /\ r.path \in Trails
        /\ RoadByPos(p) # RoadByPos(q) => Away(r.path)
        /\ RoadByPos(p) = RoadByPos(q) => Len(r.path) = 2
    BY <1>1, <1>4, <2>2, <2>3
  <2>5. QED
    BY <2>3, <2>4
<1>6. CASE found # <<>>
  <2>1. PICK k \in FindMeanMin(found) :
               r = [path  |-> AddLastRoad(found[k].path, q),
                    types |-> Restored(t, found),
                    twice |-> \E f \in ToSet(found) : IntMax \in ToSet(f.types)]
    BY <1>2, <1>6
  <2>2. found \in Seq(Finding(e[1], e[2])) /\ Len(found) \in Nat /\ Len(found) >= 1
    BY <1>3, <1>6 DEF Chain
  <2>3. k \in 1 .. Len(found)
    BY <1>6, <2>2, MeanMinIs
  <2> DEFINE path == found[k].path
  <2>4. found[k] \in Finding(e[1], e[2])
    BY <2>2, <2>3
  <2>5. /\ path \in Seq(Crossing) /\ Len(path) \in Nat /\ Len(path) >= 1
        /\ path[1] = e[1] /\ path[Len(path)] = e[2]
        /\ Way(path) /\ NoRepetition(path) /\ Len(path) <= Cardinality(Crossing)
    BY <1>1, <2>4, FindingIs
  <2> HIDE DEF path
  <2>6. Len(path) # 1
    BY <1>1, <2>5
  <2>7. Len(path) \in 2 .. 254
    <3>1. \A y, c \in Nat : y >= 1 /\ y # 1 /\ y <= c /\ c < 255 => y \in 2 .. 254
      OBVIOUS
    <3>2. QED
      BY <2>5, <2>6, <3>1, Numbers
  <2>8. NoRoadTwice(path)
    BY <2>5, SimpleIsTrail
  <2>9. /\ r.path = AddLastRoad(path, q) /\ r.types = Restored(t, found)
        /\ r.twice = \E f \in ToSet(found) : IntMax \in ToSet(f.types)
    BY <2>1 DEF path
  <2>10. /\ r.path \in Trails
         /\ RoadByPos(p) # RoadByPos(q) => Away(r.path)
         /\ Len(path) = 2 /\ RoadByPos(p) = RoadByPos(q) => Len(r.path) = 2
    BY <1>4, <2>5, <2>7, <2>8, <2>9
  <2>11. r.types \in TypesOfRoads /\ (t = Open /\ ~r.twice => r.types = Open) /\ r.twice \in BOOLEAN
    BY <1>1, <1>3, <2>9, RestoredIs
  <2>12. ASSUME RoadByPos(p) = RoadByPos(q), t = Open, ~r.twice PROVE Len(path) = 2
    <3>1. \A f \in ToSet(found) : IntMax \notin ToSet(f.types)
      BY <2>9, <2>12
    <3>2. Ends(RoadByPos(p)) = {e[1], e[2]}
      BY <1>1, <2>12
    <3>3. Chain(Open, e[1], e[2], found)
      BY <1>3, <2>12
    <3>4. FindMeanMin(found) = {1}
      BY <1>1, <2>2, <3>1, <3>2, <3>3, DirectIsChosen
    <3>5. k = 1
      BY <3>4
    <3>6. Len(found[1].path) = 2
      BY <1>1, <2>2, <3>2, <3>3, FirstIsDirect
    <3>7. QED
      BY <3>5, <3>6 DEF path
  <2>13. QED
    BY <2>10, <2>11, <2>12
<1>7. QED
  BY <1>5, <1>6

----------------------------------------------------------------------------
(* What is on the wire *)

\* The paths that a header carries: one that has been found, or none.
Carried == Trails \cup {<<>>}

Octet == 0 .. 255

LEMMA OctetIs == Octet \in SUBSET Nat /\ 0 \in Octet
BY DEF Octet

\* A number before a sequence of numbers.
LEMMA Prefixed ==
  ASSUME NEW S, NEW e \in S, NEW s \in Seq(S)
  PROVE  /\ <<e>> \o s \in Seq(S) /\ Len(<<e>> \o s) = Len(s) + 1 /\ (<<e>> \o s)[1] = e
         /\ \A k \in 1 .. Len(s) : (<<e>> \o s)[k + 1] = s[k]
OBVIOUS

\* Two sequences of the same elements.
LEMMA SameSequence ==
  ASSUME NEW S, NEW s \in Seq(S), NEW T, NEW t \in Seq(T), Len(s) = Len(t),
         \A k \in 1 .. Len(s) : s[k] = t[k]
  PROVE  s = t
<1>1. s = [k \in 1 .. Len(s) |-> s[k]] /\ t = [k \in 1 .. Len(t) |-> t[k]]
  OBVIOUS
<1>2. QED
  BY <1>1

LEMMA CarriedIs ==
  ASSUME NEW path \in Carried
  PROVE  /\ path \in Seq(Crossing) /\ Len(path) \in Nat /\ Len(path) \in Octet
         /\ \A k \in 1 .. Len(path) : path[k] \in Int /\ path[k] \in Octet
<1>1. path \in Seq(Crossing) /\ Len(path) \in Octet
  <2>1. CASE path \in Trails
    <3>1. path \in Seq(Crossing) /\ Len(path) \in 2 .. 255
      BY <2>1 DEF Trails
    <3>2. \A n \in 2 .. 255 : n \in Octet
      BY DEF Octet
    <3>3. QED
      BY <3>1, <3>2
  <2>2. CASE path = <<>>
    <3>1. Len(<<>>) = 0 /\ <<>> \in Seq(Crossing)
      OBVIOUS
    <3>2. QED
      BY <2>2, <3>1, OctetIs
  <2>3. QED
    BY <2>1, <2>2 DEF Carried
<1>2. Crossing \subseteq Octet
  BY GeoSvrMapAssumption DEF GeoSvrMapAssumption, Octet
<1>3. \A k \in 1 .. Len(path) : path[k] \in Octet
  BY <1>1, <1>2
<1>4. \A k \in Octet : k \in Nat /\ k \in Int
  BY DEF Octet
<1> DEFINE N == Len(path)
<1> HIDE DEF N
<1>5. QED
  BY <1>1, <1>3, <1>4

LEMMA Byte ==
  ASSUME NEW k \in Octet
  PROVE  AsByte(k) = k
<1>1. \A a, b \in Nat : a < b => a % b = a
  OBVIOUS
<1>2. k \in Nat /\ k < 256
  BY DEF Octet
<1>3. QED
  BY <1>1, <1>2 DEF AsByte

\* A path in bytes.
IsBytes(b, path) ==
  /\ b \in Seq(Int) /\ Len(b) = Len(path) + 1 /\ b[1] = Len(path)
  /\ \A k \in 1 .. Len(path) : b[k + 1] = path[k]

LEMMA Encoded ==
  ASSUME NEW path \in Carried
  PROVE  IsBytes(EncodePath(path), path)
<1> DEFINE N == Len(path)
           s == [k \in DOMAIN path |-> AsByte(path[k])]
           b == EncodePath(path)
<1>1. N \in Nat /\ N \in Octet /\ DOMAIN path = 1 .. N /\ \A k \in 1 .. N : path[k] \in Int /\ path[k] \in Octet
  BY CarriedIs
<1>2. s \in Seq(Int) /\ Len(s) = N /\ \A k \in 1 .. N : s[k] = path[k]
  <2>1. \A k \in 1 .. N : AsByte(path[k]) = path[k]
    BY <1>1, Byte
  <2>2. QED
    BY <1>1, <2>1
<1>3. AsByte(N) = N
  BY <1>1, Byte
<1>4. b = <<N>> \o s
  BY <1>3 DEF EncodePath
<1> HIDE DEF s, b
<1>5. b \in Seq(Int) /\ Len(b) = N + 1 /\ b[1] = N /\ \A k \in 1 .. N : b[k + 1] = s[k]
  BY <1>1, <1>2, <1>4, Prefixed
<1>6. QED
  BY <1>2, <1>5 DEF IsBytes, b

LEMMA Decoded ==
  ASSUME NEW path \in Carried, NEW b, IsBytes(b, path)
  PROVE  DecodePath(b) = path
<1> DEFINE N == Len(path)
           s == SubSeq(b, 2, b[1] + 1)
<1>1. N \in Nat /\ path \in Seq(Crossing)
  BY CarriedIs
<1>2. b \in Seq(Int) /\ Len(b) = N + 1 /\ b[1] = N /\ \A k \in 1 .. N : b[k + 1] = path[k]
  BY DEF IsBytes
<1>3. b # NoPath
  BY <1>1, <1>2 DEF NoPath
<1>4. DecodePath(b) = s
  BY <1>3 DEF DecodePath
<1>5. s \in Seq(Int) /\ Len(s) = N /\ \A k \in 1 .. N : s[k] = b[k + 1]
  <2>1. s = SubSeq(b, 2, N + 1)
    BY <1>2
  <2> HIDE DEF s, N
  <2>2. QED
    BY <1>1, <1>2, <2>1
<1> HIDE DEF s
<1>6. s = path
  <2>1. Len(s) = Len(path) /\ \A k \in 1 .. Len(s) : s[k] = path[k]
    BY <1>1, <1>2, <1>5
  <2>2. QED
    BY <1>1, <1>5, <2>1, SameSequence
<1>7. QED
  BY <1>4, <1>6

\* The tag brings the bytes as they are.
LEMMA Tagged ==
  ASSUME NEW path \in Carried, NEW b, IsBytes(b, path)
  PROVE  IsBytes(PathOfTag(SerializeTag(b)), path)
<1> DEFINE N == Len(path)
           t == SubSeq(b, 1, b[1] + 1)
           c == [k \in 1 .. t[1] + 1 |-> AsByte(t[k])]
<1>1. N \in Nat /\ path \in Seq(Crossing) /\ N \in Octet /\ \A k \in 1 .. N : path[k] \in Octet
  BY CarriedIs
<1>2. b \in Seq(Int) /\ Len(b) = N + 1 /\ b[1] = N /\ \A k \in 1 .. N : b[k + 1] = path[k]
  BY DEF IsBytes
<1>3. SerializeTag(b) = t /\ PathOfTag(t) = c
  <2>1. b # NoPath
    BY <1>1, <1>2 DEF NoPath
  <2>2. QED
    BY <2>1 DEF SerializeTag, PathOfTag
<1>4. t \in Seq(Int) /\ Len(t) = N + 1 /\ \A k \in 1 .. N + 1 : t[k] = b[k]
  <2>1. t = SubSeq(b, 1, N + 1)
    BY <1>2
  <2> HIDE DEF t, N
  <2>2. QED
    BY <1>1, <1>2, <2>1
<1> HIDE DEF t
<1>5. 1 \in 1 .. N + 1 /\ \A k \in 1 .. N + 1 : k = 1 \/ (k - 1 \in 1 .. N /\ (k - 1) + 1 = k)
  BY <1>1
<1>6. \A k \in 1 .. N + 1 : b[k] \in Octet
  <2> TAKE k \in 1 .. N + 1
  <2>1. CASE k = 1
    BY <1>1, <1>2, <2>1
  <2>2. CASE k - 1 \in 1 .. N /\ (k - 1) + 1 = k
    <3>1. b[(k - 1) + 1] = path[k - 1] /\ path[k - 1] \in Octet
      BY <1>1, <1>2, <2>2
    <3>2. QED
      BY <2>2, <3>1
  <2>3. QED
    BY <1>5, <2>1, <2>2
<1>7. \A k \in 1 .. N + 1 : AsByte(t[k]) = b[k]
  BY <1>4, <1>6, Byte
<1>8. t[1] = N
  BY <1>2, <1>4, <1>5
<1>9. c = [k \in 1 .. N + 1 |-> b[k]]
  <2>1. c = [k \in 1 .. N + 1 |-> AsByte(t[k])]
    BY <1>8
  <2>2. QED
    BY <1>7, <2>1
<1> HIDE DEF c
<1>10. c = b
  <2>1. b = [k \in 1 .. N + 1 |-> b[k]]
    BY <1>2
  <2>2. QED
    BY <1>9, <2>1
<1>11. QED
  BY <1>3, <1>10

LEMMA TaggedNone == IsBytes(PathOfTag(SerializeTag(NoPath)), <<>>)
<1>1. SerializeTag(NoPath) = <<0>>
  BY DEF SerializeTag
<1>2. PathOfTag(<<0>>) = [k \in 1 .. 1 |-> 0]
  <2>1. <<0>>[1] = 0 /\ 0 + 1 = 1 /\ AsByte(0) = 0
    BY Byte, OctetIs
  <2>2. PathOfTag(<<0>>) = [k \in 1 .. 1 |-> AsByte(<<0>>[k])]
    BY <2>1 DEF PathOfTag
  <2>3. \A k \in 1 .. 1 : AsByte(<<0>>[k]) = 0
    BY <2>1
  <2>4. QED
    BY <2>2, <2>3
<1>3. QED
  <2> DEFINE b == [k \in 1 .. 1 |-> 0]
  <2>1. b \in Seq(Int) /\ Len(b) = 1 /\ b[1] = 0
    OBVIOUS
  <2>2. Len(<<>>) = 0 /\ 0 + 1 = 1 /\ 1 .. 0 = {}
    OBVIOUS
  <2> HIDE DEF b
  <2>3. IsBytes(b, <<>>)
    BY <2>1, <2>2 DEF IsBytes
  <2>4. QED
    BY <1>1, <1>2, <2>3 DEF b

\* n elements of S.
IsWire(S, s, n) == s \in Seq(S) /\ Len(s) = n /\ n \in Nat

\* w is the n elements of s with the k of v behind them.
Follows(S, w, s, n, v, k) ==
  /\ IsWire(S, w, n + k)
  /\ \A i \in 1 .. n : w[i] = s[i]
  /\ \A i \in 1 .. k : w[n + i] = v[i]

LEMMA AppendNumbers ==
  ASSUME NEW S, NEW s, NEW n, IsWire(S, s, n), NEW v, NEW k, IsWire(S, v, k)
  PROVE  Follows(S, s \o v, s, n, v, k)
<1>1. s \in Seq(S) /\ Len(s) = n /\ n \in Nat /\ v \in Seq(S) /\ Len(v) = k /\ k \in Nat
  BY DEF IsWire
<1>2. /\ s \o v \in Seq(S) /\ Len(s \o v) = Len(s) + Len(v)
      /\ \A i \in 1 .. Len(s) + Len(v) : (s \o v)[i] = IF i <= Len(s) THEN s[i] ELSE v[i - Len(s)]
  BY <1>1, ConcatProperties
<1> DEFINE w == s \o v
<1>3. IsWire(S, w, n + k)
  BY <1>1, <1>2 DEF IsWire
<1>4. \A i \in 1 .. n + k : w[i] = IF i <= n THEN s[i] ELSE v[i - n]
  BY <1>1, <1>2
<1> HIDE DEF w
<1>5. ASSUME NEW i \in 1 .. n PROVE w[i] = s[i]
  <2>1. i \in 1 .. n + k /\ i <= n
    BY <1>1
  <2>2. QED
    BY <1>4, <2>1
<1>6. ASSUME NEW i \in 1 .. k PROVE w[n + i] = v[i]
  <2>1. n + i \in 1 .. n + k /\ ~(n + i <= n) /\ (n + i) - n = i
    BY <1>1
  <2>2. QED
    BY <1>4, <2>1
<1>7. QED
  BY <1>3, <1>5, <1>6 DEF w, Follows

LEMMA TailOf ==
  ASSUME NEW S, NEW s, NEW n \in Nat, IsWire(S, s, n + 1)
  PROVE  IsWire(S, Tail(s), n) /\ \A i \in 1 .. n : Tail(s)[i] = s[i + 1]
<1>1. s \in Seq(S) /\ Len(s) = n + 1
  BY DEF IsWire
<1>2. s # <<>>
  <2>1. Len(<<>>) = 0
    OBVIOUS
  <2>2. QED
    BY <1>1, <2>1
<1>3. Tail(s) \in Seq(S) /\ Len(Tail(s)) = Len(s) - 1 /\ \A i \in 1 .. Len(Tail(s)) : Tail(s)[i] = s[i + 1]
  BY <1>1, <1>2, HeadTailProperties
<1>4. QED
  BY <1>1, <1>3 DEF IsWire

LEMMA PairWire ==
  ASSUME NEW v \in Place
  PROVE  IsWire(Int, v, 2) /\ v = <<v[1], v[2]>> /\ v[1] \in Int /\ v[2] \in Int
<1>1. v = <<v[1], v[2]>> /\ v[1] \in Int /\ v[2] \in Int
  BY DEF Place
<1>2. <<v[1], v[2]>> \in Seq(Int) /\ Len(<<v[1], v[2]>>) = 2
  BY <1>1
<1>3. QED
  BY <1>1, <1>2 DEF IsWire

\* The fixed part of a data header.
LEMMA FixedPart ==
  ASSUME NEW src \in Place, NEW dst \in Place, NEW L \in Nat
  PROVE  LET w == SerializeType("data") \o <<L, 1, 2, 1>> \o src \o dst
         IN  /\ IsWire(Int, w, 9) /\ w[1] = 1 /\ w[2] = L
             /\ w[6] = src[1] /\ w[7] = src[2] /\ w[8] = dst[1] /\ w[9] = dst[2]
<1> DEFINE v == <<L, 1, 2, 1>>
           w1 == <<1>> \o v
           w2 == w1 \o src
           w3 == w2 \o dst
<1>1. SerializeType("data") = <<1>>
  BY DEF SerializeType, MessageTypes
<1>2. IsWire(Int, <<1>>, 1) /\ <<1>>[1] = 1 /\ IsWire(Int, v, 4) /\ v[1] = L
  BY DEF IsWire
<1> HIDE DEF v
<1>3. IsWire(Int, src, 2) /\ IsWire(Int, dst, 2)
  BY PairWire
<1>4. Follows(Int, w1, <<1>>, 1, v, 4)
  BY <1>2, AppendNumbers
<1> HIDE DEF w1
<1>5. IsWire(Int, w1, 5) /\ w1[1] = 1 /\ w1[2] = L
  <2>1. 1 + 4 = 5 /\ 1 + 1 = 2 /\ 1 \in 1 .. 1 /\ 1 \in 1 .. 4
    OBVIOUS
  <2>2. w1[1 + 1] = v[1] /\ w1[1] = <<1>>[1]
    BY <1>4, <2>1 DEF Follows
  <2>3. QED
    BY <1>2, <1>4, <2>1, <2>2 DEF Follows
<1>6. Follows(Int, w2, w1, 5, src, 2)
  BY <1>3, <1>5, AppendNumbers
<1> HIDE DEF w2
<1>7. IsWire(Int, w2, 7) /\ w2[1] = 1 /\ w2[2] = L /\ w2[6] = src[1] /\ w2[7] = src[2]
  <2>1. 5 + 2 = 7 /\ 5 + 1 = 6 /\ 1 \in 1 .. 2 /\ 2 \in 1 .. 2 /\ 1 \in 1 .. 5 /\ 2 \in 1 .. 5
    OBVIOUS
  <2>2. w2[5 + 1] = src[1] /\ w2[5 + 2] = src[2] /\ w2[1] = w1[1] /\ w2[2] = w1[2] /\ IsWire(Int, w2, 5 + 2)
    BY <1>6, <2>1 DEF Follows
  <2>3. QED
    BY <1>5, <2>1, <2>2
<1>8. Follows(Int, w3, w2, 7, dst, 2)
  BY <1>3, <1>7, AppendNumbers
<1> HIDE DEF w3
<1>9. IsWire(Int, w3, 9) /\ w3[1] = 1 /\ w3[2] = L /\ w3[6] = src[1] /\ w3[7] = src[2]
      /\ w3[8] = dst[1] /\ w3[9] = dst[2]
  <2>1. /\ 7 + 2 = 9 /\ 7 + 1 = 8 /\ 1 \in 1 .. 2 /\ 2 \in 1 .. 2
        /\ 1 \in 1 .. 7 /\ 2 \in 1 .. 7 /\ 6 \in 1 .. 7 /\ 7 \in 1 .. 7
    OBVIOUS
  <2>2. /\ w3[7 + 1] = dst[1] /\ w3[7 + 2] = dst[2] /\ w3[1] = w2[1] /\ w3[2] = w2[2]
        /\ w3[6] = w2[6] /\ w3[7] = w2[7] /\ IsWire(Int, w3, 7 + 2)
    BY <1>8, <2>1 DEF Follows
  <2>3. QED
    BY <1>7, <2>1, <2>2
<1>10. SerializeType("data") \o <<L, 1, 2, 1>> \o src \o dst = w3
  BY <1>1 DEF w3, w2, w1, v
<1>11. QED
  BY <1>9, <1>10

\* A data packet whose header carries the path.
HasPath(w, path) ==
  /\ IsWire(Int, w, 9 + Len(path)) /\ w[1] = 1 /\ w[2] = Len(path)
  /\ \A k \in 1 .. Len(path) : w[9 + k] = path[k]

LEMMA HeaderWritten ==
  ASSUME NEW src \in Place, NEW dst \in Place, NEW path \in Carried, NEW b,
         IsBytes(b, path) \/ (b = NoPath /\ path = <<>>)
  PROVE  HasPath(SerializeData(DataHeader(src, dst, b)), path)
<1> DEFINE L == Len(path)
           h == DataHeader(src, dst, b)
           s == SubSeq(h.path, 2, h.length + 1)
           f == SerializeType("data") \o <<h.length, 1, 2, 1>> \o h.src \o h.dst
<1>1. L \in Nat /\ \A k \in 1 .. L : path[k] \in Int
  BY CarriedIs
<1>2. h.length = L /\ h.src = src /\ h.dst = dst /\ h.path = b
  <2>1. h.length = (IF b = NoPath THEN 0 ELSE b[1]) /\ h.src = src /\ h.dst = dst /\ h.path = b
    BY DEF DataHeader
  <2>2. CASE b = NoPath /\ path = <<>>
    BY <2>1, <2>2
  <2>3. CASE IsBytes(b, path)
    <3>1. Len(b) = L + 1 /\ b[1] = L
      BY <2>3 DEF IsBytes
    <3>2. b # NoPath
      BY <1>1, <3>1 DEF NoPath
    <3>3. QED
      BY <2>1, <3>1, <3>2
  <2>4. QED
    BY <2>2, <2>3
<1>3. s = SubSeq(b, 2, L + 1)
  BY <1>2
<1>4. f = SerializeType("data") \o <<L, 1, 2, 1>> \o src \o dst
  BY <1>2
<1>5. SerializeData(h) = f \o s
  BY DEF SerializeData
<1> HIDE DEF L, h, s, f
<1>6. IsWire(Int, s, L) /\ \A k \in 1 .. L : s[k] = path[k]
  <2>1. CASE b = NoPath /\ path = <<>>
    <3>1. L = 0 /\ SubSeq(<<>>, 2, 1) = <<>> /\ 0 + 1 = 1
      BY <2>1 DEF L
    <3>2. s = <<>>
      BY <1>3, <2>1, <3>1 DEF NoPath
    <3>3. QED
      BY <3>1, <3>2 DEF IsWire
  <2>2. CASE IsBytes(b, path)
    <3>1. b \in Seq(Int) /\ Len(b) = L + 1 /\ \A k \in 1 .. L : b[k + 1] = path[k]
      BY <2>2 DEF IsBytes, L
    <3>2. s \in Seq(Int) /\ Len(s) = L /\ \A k \in 1 .. L : s[k] = b[k + 1]
      BY <1>1, <1>3, <3>1
    <3>3. QED
      BY <1>1, <3>1, <3>2 DEF IsWire
  <2>3. QED
    BY <2>1, <2>2
<1>7. IsWire(Int, f, 9) /\ f[1] = 1 /\ f[2] = L
  BY <1>1, <1>4, FixedPart
<1>8. Follows(Int, f \o s, f, 9, s, L)
  BY <1>6, <1>7, AppendNumbers
<1> DEFINE w == f \o s
<1> HIDE DEF w
<1>9. IsWire(Int, w, 9 + L) /\ w[1] = f[1] /\ w[2] = f[2] /\ \A i \in 1 .. L : w[9 + i] = s[i]
  <2>1. 1 \in 1 .. 9 /\ 2 \in 1 .. 9
    OBVIOUS
  <2>2. QED
    BY <1>8, <2>1 DEF Follows, w
<1>10. HasPath(w, path)
  BY <1>6, <1>7, <1>9 DEF HasPath, L
<1>11. QED
  BY <1>5, <1>10 DEF w, h

\* And it is read as it was written.
LEMMA PathRead ==
  ASSUME NEW path \in Carried, NEW r, HasPath(r.wire, path)
  PROVE  /\ PathIn(r) = path
         /\ DeserializeData(Tail(r.wire)).src \in Place /\ DeserializeData(Tail(r.wire)).dst \in Place
<1> DEFINE L == Len(path)
           w == r.wire
           t == Tail(w)
           b == IF t[1] = 0 THEN NoPath ELSE <<AsByte(t[1])>> \o [k \in 1 .. t[1] |-> t[8 + k]]
<1>1. L \in Nat /\ L \in Octet /\ path \in Seq(Crossing) /\ \A k \in 1 .. L : path[k] \in Int
  BY CarriedIs
<1>2. IsWire(Int, w, 9 + L) /\ w[2] = L /\ \A k \in 1 .. L : w[9 + k] = path[k]
  BY DEF HasPath
<1> HIDE DEF w
<1>3. IsWire(Int, t, 8 + L) /\ \A i \in 1 .. 8 + L : t[i] = w[i + 1]
  <2>1. 8 + L \in Nat /\ (8 + L) + 1 = 9 + L
    BY <1>1
  <2>2. IsWire(Int, w, (8 + L) + 1)
    BY <1>2, <2>1
  <2>3. QED
    BY <2>1, <2>2, TailOf
<1>4. DeserializeData(t) = DataHeader(<<t[5], t[6]>>, <<t[7], t[8]>>, b)
  BY DEF DeserializeData
<1> HIDE DEF t
<1>5. t[1] = L /\ \A k \in 1 .. L : t[8 + k] = path[k]
  <2>1. 1 \in 1 .. 8 + L /\ 1 + 1 = 2 /\ \A k \in 1 .. L : 8 + k \in 1 .. 8 + L /\ (8 + k) + 1 = 9 + k
    BY <1>1
  <2>2. QED
    BY <1>2, <1>3, <2>1
<1>6. t[5] \in Int /\ t[6] \in Int /\ t[7] \in Int /\ t[8] \in Int
  <2>1. 5 \in 1 .. 8 + L /\ 6 \in 1 .. 8 + L /\ 7 \in 1 .. 8 + L /\ 8 \in 1 .. 8 + L
    BY <1>1
  <2>2. t \in Seq(Int) /\ Len(t) = 8 + L
    BY <1>3 DEF IsWire
  <2>3. \A i \in 1 .. 8 + L : t[i] \in Int
    BY <2>2
  <2>4. QED
    BY <2>1, <2>3
<1>7. DecodePath(b) = path
  <2>1. CASE L = 0
    <3>1. b = NoPath
      BY <1>5, <2>1
    <3>2. path = <<>>
      BY <1>1, <2>1 DEF L
    <3>3. QED
      BY <3>1, <3>2 DEF DecodePath
  <2>2. CASE L # 0
    <3> DEFINE s == [k \in 1 .. L |-> path[k]]
    <3>1. AsByte(L) = L
      BY <1>1, Byte
    <3>2. [k \in 1 .. t[1] |-> t[8 + k]] = s
      BY <1>5
    <3>3. b = <<L>> \o s
      BY <1>5, <2>2, <3>1, <3>2
    <3>4. s = path /\ path \in Seq(Int)
      BY <1>1 DEF L
    <3> HIDE DEF s, b
    <3>5. b \in Seq(Int) /\ Len(b) = L + 1 /\ b[1] = L /\ \A k \in 1 .. L : b[k + 1] = path[k]
      BY <1>1, <3>3, <3>4, Prefixed DEF L
    <3>6. IsBytes(b, path)
      BY <3>5 DEF IsBytes, L
    <3>7. QED
      BY <3>6, Decoded
  <2>3. QED
    BY <2>1, <2>2
<1> HIDE DEF b
<1>8. DeserializeData(t).path = b /\ DeserializeData(t).src = <<t[5], t[6]>> /\ DeserializeData(t).dst = <<t[7], t[8]>>
  BY <1>4 DEF DataHeader
<1>9. <<t[5], t[6]>> \in Place /\ <<t[7], t[8]>> \in Place
  BY <1>6 DEF Place
<1>10. PathIn(r) = DecodePath(DeserializeData(t).path)
  BY DEF PathIn, t, w
<1>11. QED
  BY <1>7, <1>8, <1>9, <1>10 DEF t, w

LEMMA Wider ==
  ASSUME NEW S, NEW T, S \subseteq T, NEW s, NEW n, IsWire(S, s, n)
  PROVE  IsWire(T, s, n)
<1>1. s \in Seq(S) /\ Len(s) = n /\ n \in Nat
  BY DEF IsWire
<1>2. s \in Seq(T)
  BY <1>1
<1>3. QED
  BY <1>1, <1>2 DEF IsWire

LEMMA Cut ==
  ASSUME NEW S, NEW s \in Seq(S), NEW m \in Nat, NEW n \in Nat, m <= n, n <= Len(s)
  PROVE  /\ SubSeq(s, m + 1, n) \in Seq(S) /\ Len(SubSeq(s, m + 1, n)) = n - m
         /\ \A k \in 1 .. n - m : SubSeq(s, m + 1, n)[k] = s[m + k]
OBVIOUS

\* A vehicle that hears a hello enters who sent it, and where it is.
LEMMA HelloRead ==
  ASSUME NEW n \in Node, pos[n] \in Place, NEW t
  PROVE  RecvHello(t, HelloPacket(n)) = Update(t, n, pos[n])
<1> DEFINE S == Int \cup {n}
           p == pos[n]
           D == SerializeData(DataHeader(<<0, 0>>, <<0, 0>>, PathOfTag(SerializeTag(NoPath))))
           v == <<0, 0, n>>
           h1 == <<0>> \o p
           H == h1 \o v
           W == D \o H
           T == Tail(W)
           R == SubSeq(T, 9, 14)
           Q == Tail(R)
<1>1. IsWire(S, D, 9) /\ D[1] = 1 /\ D[2] = 0
  <2>1. <<0, 0>> \in Place
    BY DEF Place
  <2>2. <<>> \in Carried /\ Len(<<>>) = 0 /\ 9 + 0 = 9
    BY DEF Carried
  <2>3. HasPath(D, <<>>)
    BY <2>1, <2>2, TaggedNone, HeaderWritten
  <2>4. IsWire(Int, D, 9) /\ D[1] = 1 /\ D[2] = 0
    BY <2>2, <2>3 DEF HasPath
  <2>5. Int \subseteq S
    OBVIOUS
  <2> HIDE DEF D, S
  <2>6. QED
    BY <2>4, <2>5, Wider
<1>2. SerializeHello(p, n) = H
  BY DEF SerializeHello, SerializeType, MessageTypes
<1>3. IsWire(S, p, 2) /\ p = <<p[1], p[2]>>
  <2>1. Int \subseteq S
    OBVIOUS
  <2> HIDE DEF S
  <2>2. QED
    BY <2>1, PairWire, Wider
<1>4. IsWire(S, <<0>>, 1) /\ <<0>>[1] = 0 /\ IsWire(S, v, 3) /\ v[3] = n
  BY DEF IsWire
<1>5. HelloPacket(n) = W
  BY <1>2 DEF HelloPacket
<1> HIDE DEF D, v, S, p
<1>6. Follows(S, h1, <<0>>, 1, p, 2)
  BY <1>3, <1>4, AppendNumbers
<1> HIDE DEF h1
<1>7. IsWire(S, h1, 3) /\ h1[1] = 0 /\ h1[2] = p[1] /\ h1[3] = p[2]
  <2>1. 1 + 2 = 3 /\ 1 + 1 = 2 /\ 1 \in 1 .. 1 /\ 1 \in 1 .. 2 /\ 2 \in 1 .. 2
    OBVIOUS
  <2>2. h1[1 + 1] = p[1] /\ h1[1 + 2] = p[2] /\ h1[1] = <<0>>[1] /\ IsWire(S, h1, 1 + 2)
    BY <1>6, <2>1 DEF Follows
  <2>3. QED
    BY <1>4, <2>1, <2>2
<1>8. Follows(S, H, h1, 3, v, 3)
  BY <1>4, <1>7, AppendNumbers
<1> HIDE DEF H
<1>9. IsWire(S, H, 6) /\ H[1] = 0 /\ H[2] = p[1] /\ H[3] = p[2] /\ H[6] = n
  <2>1. 3 + 3 = 6 /\ 1 \in 1 .. 3 /\ 2 \in 1 .. 3 /\ 3 \in 1 .. 3
    OBVIOUS
  <2>2. H[3 + 3] = v[3] /\ H[1] = h1[1] /\ H[2] = h1[2] /\ H[3] = h1[3] /\ IsWire(S, H, 3 + 3)
    BY <1>8, <2>1 DEF Follows
  <2>3. QED
    BY <1>4, <1>7, <2>1, <2>2
<1>10. Follows(S, W, D, 9, H, 6)
  BY <1>1, <1>9, AppendNumbers
<1> HIDE DEF W
<1>11. IsWire(S, W, 15) /\ W[1] = 1 /\ W[2] = 0 /\ \A k \in 1 .. 6 : W[9 + k] = H[k]
  <2>1. 9 + 6 = 15 /\ 1 \in 1 .. 9 /\ 2 \in 1 .. 9
    OBVIOUS
  <2>2. QED
    BY <1>1, <1>10, <2>1 DEF Follows
<1>12. IsWire(S, T, 14) /\ \A k \in 1 .. 6 : T[8 + k] = H[k]
  <2>1. 14 + 1 = 15 /\ 14 \in Nat
    OBVIOUS
  <2>2. IsWire(S, T, 14) /\ \A i \in 1 .. 14 : T[i] = W[i + 1]
    BY <1>11, <2>1, TailOf
  <2>3. \A k \in 1 .. 6 : 8 + k \in 1 .. 14 /\ (8 + k) + 1 = 9 + k
    OBVIOUS
  <2>4. QED
    BY <1>11, <2>2, <2>3
<1>13. Payload(W) = R
  <2>1. W \in Seq(S) /\ Len(W) = 15
    BY <1>11 DEF IsWire
  <2>2. Head(W) = 1 /\ 9 + 0 = 9 /\ 15 - 1 = 14
    BY <1>11, <2>1
  <2>3. IsType(W, "data")
    BY <2>2 DEF IsType, MessageTypes
  <2>4. QED
    BY <1>11, <2>1, <2>2, <2>3 DEF Payload
<1> HIDE DEF T
<1>14. IsWire(S, R, 6) /\ \A k \in 1 .. 6 : R[k] = H[k]
  <2>1. T \in Seq(S) /\ Len(T) = 14
    BY <1>12 DEF IsWire
  <2>2. R \in Seq(S) /\ Len(R) = 6 /\ \A k \in 1 .. 6 : R[k] = T[8 + k]
    <3>1. 8 \in Nat /\ 14 \in Nat /\ 8 <= 14 /\ 14 <= 14 /\ 8 + 1 = 9 /\ 14 - 8 = 6
      OBVIOUS
    <3>2. LET c == SubSeq(T, 8 + 1, 14)
          IN  c \in Seq(S) /\ Len(c) = 14 - 8 /\ \A k \in 1 .. 14 - 8 : c[k] = T[8 + k]
      BY <2>1, <3>1, Cut
    <3>3. QED
      BY <3>1, <3>2
  <2>3. QED
    BY <1>12, <2>2 DEF IsWire
<1> HIDE DEF R
<1>15. ValidType(R)
  <2>1. R \in Seq(S) /\ Len(R) = 6 /\ R[1] = 0
    BY <1>9, <1>14 DEF IsWire
  <2>2. Head(R) = 0
    BY <2>1
  <2>3. QED
    BY <2>2 DEF ValidType, MessageTypes
<1>16. Q[1] = p[1] /\ Q[2] = p[2] /\ Q[5] = n
  <2>1. 5 + 1 = 6 /\ 5 \in Nat
    OBVIOUS
  <2>2. \A i \in 1 .. 5 : Q[i] = R[i + 1]
    BY <1>14, <2>1, TailOf
  <2>3. /\ 1 \in 1 .. 5 /\ 2 \in 1 .. 5 /\ 5 \in 1 .. 5 /\ 1 + 1 = 2 /\ 2 + 1 = 3
        /\ 2 \in 1 .. 6 /\ 3 \in 1 .. 6 /\ 6 \in 1 .. 6
    OBVIOUS
  <2>4. Q[1] = R[2] /\ Q[2] = R[3] /\ Q[5] = R[6]
    BY <2>1, <2>2, <2>3
  <2>5. R[2] = H[2] /\ R[3] = H[3] /\ R[6] = H[6]
    BY <1>14, <2>3
  <2>6. QED
    BY <1>9, <2>4, <2>5
<1>17. DeserializeHello(Q).dst = n /\ DeserializeHello(Q).pos = p
  BY <1>3, <1>16 DEF DeserializeHello
<1>18. RecvHello(t, W) = Update(t, n, p)
  BY <1>13, <1>15, <1>17 DEF RecvHello
<1>19. QED
  BY <1>5, <1>18 DEF p

----------------------------------------------------------------------------
(* Vehicles, tables and hops *)

Outcomes == {Delivered, Lost}

LEMMA Network ==
  /\ \A p \in Packet : Src[p] \in Node /\ Dst[p] \in Node /\ Src[p] # Dst[p]
  /\ Layouts \subseteq [Node -> Place]
  /\ Ttl \in Nat /\ Ttl >= 1 /\ MaxQueueLen \in Nat /\ MaxQueueLen # 0 /\ MaxEvents \in Nat
BY GeoSvrAssumption DEF GeoSvrAssumption, Place

\* What a packet's place may be, all told apart.
LEMMA PlacesDiffer ==
  /\ None \notin Node /\ Fresh \notin Node /\ Loopback \notin Node /\ Queued \notin Node
  /\ Delivered \notin Node /\ Lost \notin Node
  /\ Fresh # Loopback /\ Fresh # Queued /\ Loopback # Queued
  /\ Fresh \notin Outcomes /\ Loopback \notin Outcomes /\ Queued \notin Outcomes
<1> DEFINE s == <<None, Fresh, Loopback, Queued, Delivered, Lost>>
<1>1. \A i, j \in 1 .. 6 : s[i] = s[j] => i = j
  BY GeoSvrAssumption DEF GeoSvrAssumption, IsInjective
<1>2. /\ s[1] = None /\ s[2] = Fresh /\ s[3] = Loopback /\ s[4] = Queued
      /\ s[5] = Delivered /\ s[6] = Lost
  OBVIOUS
<1>3. {None, Fresh, Loopback, Queued, Delivered, Lost} \cap Node = {}
  BY GeoSvrAssumption DEF GeoSvrAssumption
<1> HIDE DEF s
<1>4. /\ Fresh # Loopback /\ Fresh # Queued /\ Loopback # Queued
      /\ Fresh # Delivered /\ Fresh # Lost
      /\ Loopback # Delivered /\ Loopback # Lost
      /\ Queued # Delivered /\ Queued # Lost
  BY <1>1, <1>2
<1>5. QED
  BY <1>3, <1>4 DEF Outcomes

\* The road a vehicle is on.
OnRoad(n) == RoadAt[pos[n]]

LEMMA RoadAtIs ==
  ASSUME NEW l \in Layouts, NEW n \in Node
  PROVE  l[n] \in Place /\ RoadAt[l[n]] = RoadByPos(l[n]) /\ RoadAt[l[n]] \in Road
<1>1. l[n] \in Place
  BY Network
<1>2. l[n] \in UNION {{k[m] : m \in Node} : k \in Layouts}
  OBVIOUS
<1>3. RoadAt[l[n]] = RoadByPos(l[n])
  BY <1>2 DEF RoadAt
<1>4. QED
  BY <1>1, <1>3, RoadByPosIs

Entry == [pos : Place, road : Road, old : BOOLEAN]

\* The tables that vehicle n may have.
TablesOf(n) == {t \in [Node -> {None} \cup Entry] : t[n] = None}

\* An entry says where the vehicle was that it is about, or is if none has moved.
Tables ==
  /\ table \in [Node -> [Node -> {None} \cup Entry]]
  /\ \A n \in Node : table[n] \in TablesOf(n)
  /\ ~moved => \A n, m \in Node : table[n][m] # None =>
                 table[n][m].pos = pos[m] /\ table[n][m].road = OnRoad(m)

LEMMA Swapped ==
  ASSUME NEW a \in Int, NEW b \in Int
  PROVE  (a - b) * (a - b) = (b - a) * (b - a)
<1>1. \A x \in Int : x * x = (-x) * (-x)
  OBVIOUS
<1>2. a - b \in Int /\ b - a = -(a - b)
  OBVIOUS
<1>3. QED
  BY <1>1, <1>2

LEMMA BothWays ==
  ASSUME NEW p \in Place, NEW q \in Place
  PROVE  Distance(p, q) = Distance(q, p)
<1>1. p[1] \in Int /\ p[2] \in Int /\ q[1] \in Int /\ q[2] \in Int
  BY PlaceOf
<1>2. /\ (p[1] - q[1]) * (p[1] - q[1]) = (q[1] - p[1]) * (q[1] - p[1])
      /\ (p[2] - q[2]) * (p[2] - q[2]) = (q[2] - p[2]) * (q[2] - p[2])
  BY <1>1, Swapped
<1>3. QED
  BY <1>2 DEF Distance

\* How far a vehicle is from the crossing that a path leads to next.
Away(n, path) == Distance(pos[n], Point[path[2]])

LEMMA TrailIs ==
  ASSUME NEW path \in Trails
  PROVE  /\ path \in Seq(Crossing) /\ Len(path) \in Nat /\ Len(path) >= 2 /\ Len(path) <= 255
         /\ path \in Carried /\ path[1] \in Crossing /\ path[2] \in Crossing /\ Point[path[2]] \in Place
         /\ RoadOn(path, 1) \in On(path)
<1>1. path \in Seq(Crossing) /\ Len(path) \in 2 .. 255
  BY DEF Trails
<1>2. Len(path) \in Nat /\ Len(path) >= 2 /\ Len(path) <= 255
  <2>1. \A n \in 2 .. 255 : n \in Nat /\ n >= 2 /\ n <= 255
    OBVIOUS
  <2>2. QED
    BY <1>1, <2>1
<1> DEFINE N == Len(path)
<1>3. 1 \in 1 .. N /\ 2 \in 1 .. N /\ 1 \in 1 .. N - 1
  <2> HIDE DEF N
  <2>1. QED
    BY <1>2 DEF N
<1>4. path[1] \in Crossing /\ path[2] \in Crossing
  BY <1>1, <1>3
<1>5. QED
  BY <1>1, <1>2, <1>3, <1>4, PointIs DEF Carried, On

LEMMA AwayType ==
  ASSUME pos \in Layouts, NEW n \in Node, NEW path \in Trails
  PROVE  Away(n, path) \in Int
<1>1. pos[n] \in Place /\ Point[path[2]] \in Place
  BY RoadAtIs, TrailIs
<1>2. QED
  BY <1>1, DistanceType DEF Away

\* What is left of a path when the crossing passed is gone.
LEMMA ErasedIs ==
  ASSUME NEW P \in Trails, NEW place
  PROVE  LET path == ErasePassed(P, place)
         IN  /\ path \in Trails
             /\ \/ path = P /\ (Len(P) > 2 => RoadAt[place] # RoadOn(P, 1))
                \/ /\ Len(P) > 2 /\ RoadAt[place] = RoadOn(P, 1)
                   /\ On(path) \subseteq On(P) /\ RoadOn(P, 1) \notin On(path)
<1> DEFINE path == ErasePassed(P, place)
           t == Tail(P)
           N == Len(P)
<1>1. RoadOn(P, 1) = RoadByNode(P[1], P[2])
  <2>1. 1 + 1 = 2
    OBVIOUS
  <2>2. QED
    BY <2>1 DEF RoadOn
<1>2. P \in Seq(Crossing) /\ N \in Nat /\ N >= 2 /\ N <= 255
  BY TrailIs
<1>3. CASE ~(N > 2 /\ RoadAt[place] = RoadOn(P, 1))
  <2>1. path = P
    BY <1>1, <1>3 DEF ErasePassed
  <2>2. QED
    BY <1>3, <2>1
<1>4. CASE N > 2 /\ RoadAt[place] = RoadOn(P, 1)
  <2>1. path = t
    BY <1>1, <1>4 DEF ErasePassed
  <2>2. t \in Seq(Crossing) /\ Len(t) = N - 1 /\ \A k \in 1 .. N - 1 : t[k] = P[k + 1]
    BY <1>2, HeadTailProperties
  <2> HIDE DEF path, t, N
  <2>3. ASSUME NEW k \in 1 .. Len(t) - 1
        PROVE  RoadOn(t, k) = RoadOn(P, k + 1) /\ k + 1 \in 1 .. N - 1 /\ k + 1 # 1
    <3>1. k \in 1 .. N - 1 /\ k + 1 \in 1 .. N - 1 /\ k + 1 # 1
      BY <1>2, <2>2
    <3>2. t[k] = P[k + 1] /\ t[k + 1] = P[(k + 1) + 1]
      BY <2>2, <3>1
    <3>3. QED
      BY <3>1, <3>2 DEF RoadOn
  <2>4. \A i, j \in 1 .. N - 1 : RoadOn(P, i) = RoadOn(P, j) => i = j
    BY DEF Trails, NoRoadTwice, N
  <2>5. NoRoadTwice(t)
    <3> SUFFICES ASSUME NEW i \in 1 .. Len(t) - 1, NEW j \in 1 .. Len(t) - 1, RoadOn(t, i) = RoadOn(t, j)
                 PROVE  i = j
      BY DEF NoRoadTwice
    <3>1. i + 1 = j + 1
      BY <2>3, <2>4
    <3>2. i \in Int /\ j \in Int
      OBVIOUS
    <3>3. QED
      BY <3>1, <3>2
  <2>6. Len(t) \in 2 .. 255
    BY <1>2, <1>4, <2>2
  <2>7. t \in Trails
    BY <2>2, <2>5, <2>6 DEF Trails
  <2>8. 1 \in 1 .. N - 1
    BY <1>2
  <2>9. On(t) \subseteq On(P)
    BY <2>3 DEF On, N
  <2>10. RoadOn(P, 1) \notin On(t)
    BY <2>3, <2>4, <2>8 DEF On
  <2>11. QED
    BY <1>4, <2>1, <2>7, <2>9, <2>10 DEF path, N
<1>5. QED
  BY <1>3, <1>4

\* The next hop is on the vehicle's road or on the one ahead, and nearer to the crossing.
LEMMA NextHopIs ==
  ASSUME Tables, pos \in Layouts, NEW n \in Node, NEW path \in Trails, NEW m \in NextHops(n, path)
  PROVE  /\ m \in Node
         /\ ~moved /\ (Len(path) > 2 => OnRoad(n) # RoadOn(path, 1)) =>
              /\ OnRoad(m) \in {OnRoad(n), RoadOn(path, 1)}
              /\ Away(m, path) < Away(n, path)
<1> DEFINE mine    == RoadAt[pos[n]]
           road    == RoadByNode(path[1], path[2])
           further == mine = road /\ Len(path) > 2
           roads   == {mine, road} \cup (IF further THEN {RoadByNode(path[2], path[3])} ELSE {})
           ahead   == Point[path[IF further THEN 3 ELSE 2]]
<1>1. m \in FindNextHop(n, roads, ahead)
  BY DEF NextHops
<1> HIDE DEF roads, ahead
<1>2. /\ m \in Neighbors(n) /\ table[n][m].road \in roads
      /\ Distance(ahead, table[n][m].pos) < Distance(pos[n], ahead)
  BY <1>1 DEF FindNextHop
<1>3. m \in Node /\ table[n][m] # None
  BY <1>2 DEF Neighbors
<1>4. ASSUME ~moved, Len(path) > 2 => OnRoad(n) # RoadOn(path, 1)
      PROVE  /\ OnRoad(m) \in {OnRoad(n), RoadOn(path, 1)}
             /\ Away(m, path) < Away(n, path)
  <2>1. road = RoadOn(path, 1) /\ mine = OnRoad(n)
    <3>1. 1 + 1 = 2
      OBVIOUS
    <3>2. QED
      BY <3>1 DEF RoadOn, OnRoad
  <2>2. ~further
    BY <1>4, <2>1
  <2>3. roads = {mine, road} /\ ahead = Point[path[2]]
    BY <2>2 DEF roads, ahead
  <2>4. table[n][m].pos = pos[m] /\ table[n][m].road = OnRoad(m)
    BY <1>3, <1>4 DEF Tables
  <2>5. ahead \in Place /\ pos[m] \in Place
    BY <1>3, <2>3, TrailIs, RoadAtIs
  <2>6. Distance(ahead, pos[m]) = Distance(pos[m], ahead)
    BY <2>5, BothWays
  <2>7. QED
    BY <1>2, <2>1, <2>3, <2>4, <2>6 DEF Away
<1>5. QED
  BY <1>3, <1>4

----------------------------------------------------------------------------
(* A packet on its way *)

\* by are the vehicles that have handled the packet, m is next: it is on the road of the
\* last of them or on the one ahead.  None of the others is there; those that were on the
\* last one's road, or are on a road still to come, are farther from the crossing ahead.
Leads(by, m, path) ==
  /\ by # <<>>
  /\ OnRoad(m) \in {OnRoad(by[Len(by)]), RoadOn(path, 1)}
  /\ Len(path) > 2 => \A u \in ToSet(by) : OnRoad(u) \notin On(path)
  /\ \A u \in ToSet(by) : \/ OnRoad(u) \notin {OnRoad(by[Len(by)])} \cup On(path)
                          \/ Away(m, path) < Away(u, path)

\* The next hop has not handled the packet.
LEMMA NotAgain ==
  ASSUME pos \in Layouts, NEW by, NEW m \in Node, NEW path \in Trails, Leads(by, m, path)
  PROVE  m \notin ToSet(by)
<1> SUFFICES ASSUME m \in ToSet(by) PROVE FALSE
  OBVIOUS
<1>1. RoadOn(path, 1) \in On(path)
  BY TrailIs
<1>2. OnRoad(m) \in {OnRoad(by[Len(by)])} \cup On(path)
  BY <1>1 DEF Leads
<1>3. Away(m, path) < Away(m, path)
  BY <1>2 DEF Leads
<1>4. QED
  BY <1>3, AwayType

\* The vehicle that handles it next passes it on in the same way.
LEMMA PassedOn ==
  ASSUME Tables, ~moved, pos \in Layouts, NEW by \in Seq(Node), NEW n \in Node, NEW P \in Trails,
         Leads(by, n, P), NEW m \in NextHops(n, ErasePassed(P, pos[n]))
  PROVE  Leads(Append(by, n), m, ErasePassed(P, pos[n])) /\ m \in Node
<1> DEFINE path == ErasePassed(P, pos[n])
           c == Append(by, n)
           v == by[Len(by)]
<1>1. /\ path \in Trails
      /\ \/ path = P /\ (Len(P) > 2 => OnRoad(n) # RoadOn(P, 1))
         \/ /\ Len(P) > 2 /\ OnRoad(n) = RoadOn(P, 1)
            /\ On(path) \subseteq On(P) /\ RoadOn(P, 1) \notin On(path)
  BY ErasedIs DEF OnRoad
<1> HIDE DEF path
<1>2. /\ c # <<>> /\ c[Len(c)] = n /\ v \in ToSet(by)
      /\ \A x : x \in ToSet(c) <=> x \in ToSet(by) \/ x = n
      /\ \A x \in ToSet(by) : x \in Node
  <2> DEFINE N == Len(by)
  <2>1. N \in Nat /\ N # 0
    BY DEF Leads
  <2>2. c \in Seq(Node) /\ Len(c) = N + 1 /\ c[N + 1] = n /\ \A i \in 1 .. N : c[i] = by[i]
    BY AppendProperties
  <2> HIDE DEF c
  <2>3. /\ \A x : x \in ToSet(c) <=> \E i \in 1 .. N + 1 : c[i] = x
        /\ \A x : x \in ToSet(by) <=> \E i \in 1 .. N : by[i] = x
        /\ ToSet(by) \subseteq Node
    <3>1. \A x : x \in ToSet(c) <=> \E i \in 1 .. Len(c) : c[i] = x
      BY <2>2, Members
    <3>2. (\A x : x \in ToSet(by) <=> \E i \in 1 .. N : by[i] = x) /\ ToSet(by) \subseteq Node
      BY Members
    <3>3. QED
      BY <2>2, <3>1, <3>2
  <2> HIDE DEF N
  <2>4. N \in 1 .. N /\ N + 1 \in 1 .. N + 1 /\ \A i \in 1 .. N + 1 : i = N + 1 \/ i \in 1 .. N
    BY <2>1
  <2>5. \A i \in 1 .. N : i \in 1 .. N + 1
    BY <2>1
  <2>6. c # <<>>
    <3>1. Len(<<>>) = 0
      OBVIOUS
    <3>2. QED
      BY <2>1, <2>2, <3>1
  <2>7. c[Len(c)] = n /\ v \in ToSet(by)
    BY <2>2, <2>3, <2>4 DEF N
  <2>8. QED
    BY <2>2, <2>3, <2>4, <2>5, <2>6, <2>7
<1>3. /\ OnRoad(n) \in {OnRoad(v), RoadOn(P, 1)}
      /\ Len(P) > 2 => \A u \in ToSet(by) : OnRoad(u) \notin On(P)
      /\ \A u \in ToSet(by) : OnRoad(u) \notin {OnRoad(v)} \cup On(P) \/ Away(n, P) < Away(u, P)
      /\ RoadOn(P, 1) \in On(P)
  BY TrailIs DEF Leads
\* The road ahead is not the vehicle's own while the path goes on behind it.
<1>4. Len(path) > 2 => \A u \in ToSet(c) : OnRoad(u) \notin On(path)
  <2>1. CASE path = P /\ (Len(P) > 2 => OnRoad(n) # RoadOn(P, 1))
    BY <1>2, <1>3, <2>1
  <2>2. CASE /\ Len(P) > 2 /\ OnRoad(n) = RoadOn(P, 1)
             /\ On(path) \subseteq On(P) /\ RoadOn(P, 1) \notin On(path)
    BY <1>2, <1>3, <2>2
  <2>3. QED
    BY <1>1, <2>1, <2>2
<1>5. Len(path) > 2 => OnRoad(n) # RoadOn(path, 1)
  BY <1>1, <1>2, <1>4, TrailIs
<1>6. m \in Node /\ OnRoad(m) \in {OnRoad(n), RoadOn(path, 1)} /\ Away(m, path) < Away(n, path)
  <2>1. m \in NextHops(n, path)
    BY DEF path
  <2>2. QED
    BY <1>1, <1>5, <2>1, NextHopIs
<1>7. ASSUME NEW u \in ToSet(c)
      PROVE  OnRoad(u) \notin {OnRoad(n)} \cup On(path) \/ Away(m, path) < Away(u, path)
  <2>1. CASE u = n
    BY <1>6, <2>1
  <2>2. CASE u \in ToSet(by)
    <3>1. CASE path = P
      <4>1. CASE OnRoad(u) \notin {OnRoad(v)} \cup On(P)
        BY <1>3, <3>1, <4>1
      <4>2. CASE Away(n, P) < Away(u, P)
        <5>1. Away(m, path) \in Int /\ Away(n, path) \in Int /\ Away(u, path) \in Int
          BY <1>1, <1>2, <1>6, <2>2, AwayType
        <5>2. Away(n, path) < Away(u, path) /\ Away(m, path) < Away(n, path)
          BY <1>6, <3>1, <4>2
        <5> DEFINE a == Away(m, path)  b == Away(n, path)  d == Away(u, path)
        <5> HIDE DEF a, b, d
        <5>3. a < d
          BY <5>1, <5>2 DEF a, b, d
        <5>4. QED
          BY <5>3 DEF a, d
      <4>3. QED
        BY <1>3, <2>2, <4>1, <4>2
    <3>2. CASE /\ Len(P) > 2 /\ OnRoad(n) = RoadOn(P, 1)
               /\ On(path) \subseteq On(P) /\ RoadOn(P, 1) \notin On(path)
      BY <1>3, <2>2, <3>2
    <3>3. QED
      BY <1>1, <3>1, <3>2
  <2>3. QED
    BY <1>2, <2>1, <2>2
<1>8. Leads(c, m, path)
  BY <1>2, <1>4, <1>6, <1>7 DEF Leads
<1>9. QED
  BY <1>6, <1>8 DEF path, c

\* The source starts it so, with a path that leads away from its road.
LEMMA SetsOut ==
  ASSUME Tables, ~moved, pos \in Layouts, NEW n \in Node, NEW P \in Trails,
         Len(P) > 2 => \A k \in 2 .. Len(P) - 1 : RoadOn(P, k) # OnRoad(n),
         NEW m \in NextHops(n, ErasePassed(P, pos[n]))
  PROVE  Leads(<<n>>, m, ErasePassed(P, pos[n])) /\ m \in Node
<1> DEFINE path == ErasePassed(P, pos[n])
           c == <<n>>
<1>1. /\ path \in Trails
      /\ \/ path = P /\ (Len(P) > 2 => OnRoad(n) # RoadOn(P, 1))
         \/ /\ Len(P) > 2 /\ OnRoad(n) = RoadOn(P, 1)
            /\ On(path) \subseteq On(P) /\ RoadOn(P, 1) \notin On(path)
  BY ErasedIs DEF OnRoad
<1> HIDE DEF path
<1>2. c # <<>> /\ Len(c) = 1 /\ c[1] = n /\ ToSet(c) = {n}
  BY DEF ToSet
<1> HIDE DEF c
<1>3. Len(path) > 2 => OnRoad(n) \notin On(path)
  <2>1. CASE path = P /\ (Len(P) > 2 => OnRoad(n) # RoadOn(P, 1))
    <3> SUFFICES ASSUME Len(P) > 2, NEW k \in 1 .. Len(P) - 1, OnRoad(n) = RoadOn(P, k) PROVE FALSE
      BY <2>1 DEF On
    <3>1. k # 1
      BY <2>1
    <3>2. k \in 2 .. Len(P) - 1
      <4> DEFINE N == Len(P)
      <4>1. N \in Nat
        BY TrailIs
      <4> HIDE DEF N
      <4>2. k \in 2 .. N - 1
        BY <3>1, <4>1 DEF N
      <4>3. QED
        BY <4>2 DEF N
    <3>3. QED
      BY <3>2
  <2>2. CASE OnRoad(n) = RoadOn(P, 1) /\ RoadOn(P, 1) \notin On(path)
    BY <2>2
  <2>3. QED
    BY <1>1, <2>1, <2>2
<1>4. Len(path) > 2 => OnRoad(n) # RoadOn(path, 1)
  BY <1>1, <1>3, TrailIs
<1>5. m \in Node /\ OnRoad(m) \in {OnRoad(n), RoadOn(path, 1)} /\ Away(m, path) < Away(n, path)
  <2>1. m \in NextHops(n, path)
    BY DEF path
  <2>2. QED
    BY <1>1, <1>4, <2>1, NextHopIs
<1>6. Leads(c, m, path)
  BY <1>2, <1>3, <1>5 DEF Leads
<1>7. QED
  BY <1>5, <1>6 DEF path, c

----------------------------------------------------------------------------
(* The inductive invariant *)

PlacesOfPackets == Node \cup {Fresh, Loopback, Queued} \cup Outcomes

PacketState == [place : PlacesOfPackets, wire : Seq(Int), ttl : 0 .. Ttl, by : Seq(Node)]

\* The header carries a path; only a packet that never had a header has none.
Headed(r) ==
  (r.place \in {Fresh, Lost} /\ r.wire = <<>>) \/ \E path \in Carried : HasPath(r.wire, path)

\* A packet at its source has been handled by none, one that is not done with can still be
\* forwarded, and the destination handles none.
PacketOK(p, r) ==
  /\ r \in PacketState /\ Headed(r)
  /\ r.place \in {Fresh, Loopback, Queued} => r.by = <<>>
  /\ r.place \notin Outcomes => r.ttl >= 1
  /\ Dst[p] \notin ToSet(r.by)

\* While no vehicle moves a packet that is on its way to another than its destination has a
\* path that leads it on.
Course(p, r) ==
  /\ IsInjective(r.by)
  /\ r.place \in Node \ {Dst[p]} =>
       \E path \in Trails : HasPath(r.wire, path) /\ Leads(r.by, r.place, path)

Excepted(p, careless) == OnRoad(Src[p]) = OnRoad(Dst[p]) /\ Src[p] \in careless

Good(p, r, careless) == PacketOK(p, r) /\ (moved \/ Excepted(p, careless) \/ Course(p, r))

Packets ==
  /\ pk \in [Packet -> PacketState]
  /\ \A p \in Packet : Good(p, pk[p], twice)

Vehicles ==
  /\ pos \in Layouts
  /\ running \in SUBSET Node /\ addressed \in SUBSET Node /\ up = running \cap addressed
  /\ timer \in SUBSET Node /\ expired \in SUBSET Packet
  /\ moved \in BOOLEAN /\ spent \in 0 .. MaxEvents

Maps ==
  /\ types \in [Node -> TypesOfRoads] /\ twice \in SUBSET Node
  /\ \A n \in Node \ twice : types[n] = Open

\* The packets in the queue of n wait at n.
QueueOK(n, q, waits) ==
  /\ q \in Seq(Packet) /\ Len(q) <= MaxQueueLen
  /\ IsInjective(q)
  /\ \A p \in ToSet(q) : Src[p] = n /\ p \in waits

Waiting == {p \in Packet : pk[p].place = Queued}

Queues ==
  /\ queue \in [Node -> Seq(Packet)]
  /\ addresses \in [Node -> Seq(Node)]
  /\ \A n \in Node : ToSet(addresses[n]) \subseteq Node \ {n} /\ QueueOK(n, queue[n], Waiting)

IInv == Vehicles /\ Tables /\ Maps /\ Packets /\ Queues

----------------------------------------------------------------------------
(* What is made of a packet *)

LEMMA PacketFields ==
  ASSUME NEW r \in PacketState
  PROVE  /\ r.place \in PlacesOfPackets /\ r.ttl \in 0 .. Ttl /\ r.ttl \in Nat
         /\ r.by \in Seq(Node) /\ r.wire \in Seq(Int)
         /\ r = [place |-> r.place, wire |-> r.wire, ttl |-> r.ttl, by |-> r.by]
BY Network DEF PacketState

\* A packet ends as it was.
LEMMA EndGood ==
  ASSUME NEW p \in Packet, NEW r, NEW careless, Good(p, r, careless), NEW o \in Outcomes,
         o = Lost \/ r.place \in Node
  PROVE  /\ [r EXCEPT !.place = o] \in PacketState
         /\ Good(p, [r EXCEPT !.place = o], careless)
         /\ [r EXCEPT !.place = o].place # Queued
<1> DEFINE s == [r EXCEPT !.place = o]
<1>1. o \notin Node /\ o # Fresh /\ o # Loopback /\ o # Queued /\ Fresh \notin Node /\ Lost \notin Node
  BY PlacesDiffer DEF Outcomes
<1>2. r \in PacketState
  BY DEF Good, PacketOK
<1>3. s \in PacketState /\ s.place = o /\ s.by = r.by /\ s.wire = r.wire
  BY <1>2 DEF PacketState, PlacesOfPackets
<1> HIDE DEF s
<1>4. Headed(s)
  BY <1>1, <1>3 DEF Headed, Good, PacketOK
<1>5. PacketOK(p, s)
  BY <1>1, <1>3, <1>4 DEF PacketOK, Good
<1>6. Course(p, r) => Course(p, s)
  BY <1>1, <1>3 DEF Course
<1>7. QED
  BY <1>1, <1>3, <1>5, <1>6 DEF Good, s

\* One that goes to a next hop, or ends, with a path in its header.
LEMMA HopGood ==
  ASSUME NEW p \in Packet, NEW s \in PacketState, NEW careless, s.place \in Node \cup {Lost},
         s.place \in Node => s.ttl >= 1,
         NEW path \in Carried, HasPath(s.wire, path), Dst[p] \notin ToSet(s.by),
         \/ moved \/ Excepted(p, careless)
         \/ /\ IsInjective(s.by)
            /\ s.place \in Node \ {Dst[p]} => path \in Trails /\ Leads(s.by, s.place, path)
  PROVE  Good(p, s, careless) /\ s.place # Queued
<1>1. s.place # Fresh /\ s.place # Loopback /\ s.place # Queued /\ Lost \in Outcomes /\ Lost \notin Node
  BY PlacesDiffer DEF Outcomes
<1>2. PacketOK(p, s)
  BY <1>1 DEF PacketOK, Headed
<1>3. moved \/ Excepted(p, careless) \/ Course(p, s)
  BY DEF Course
<1>4. QED
  BY <1>1, <1>2, <1>3 DEF Good

LEMMA Forwarded ==
  ASSUME NEW r \in PacketState, r.ttl >= 1, NEW hop \in Node
  PROVE  LET f == IpForward(r, hop)
         IN  /\ f \in PacketState /\ f.place \in {hop, Lost}
             /\ f.place \in Node => f.place = hop /\ f.ttl >= 1
             /\ f.by = r.by /\ f.wire = r.wire
<1> DEFINE f == IpForward(r, hop)
<1>1. r.ttl \in Nat /\ r.ttl \in 0 .. Ttl /\ r.ttl - 1 \in 0 .. Ttl /\ 0 \in 0 .. Ttl
  BY Network, PacketFields
<1>2. Lost \in PlacesOfPackets /\ hop \in PlacesOfPackets /\ Lost \notin Node
  BY PlacesDiffer DEF PlacesOfPackets, Outcomes
<1>3. CASE r.ttl = 1
  <2>1. f = [r EXCEPT !.place = Lost, !.ttl = 0]
    BY <1>3 DEF IpForward
  <2>2. QED
    BY <1>1, <1>2, <2>1 DEF PacketState
<1>4. CASE r.ttl # 1
  <2>1. f = [r EXCEPT !.place = hop, !.ttl = @ - 1]
    BY <1>4 DEF IpForward
  <2>2. r.ttl - 1 >= 1
    BY <1>1, <1>4
  <2>3. QED
    BY <1>1, <1>2, <2>1, <2>2 DEF PacketState
<1>5. QED
  BY <1>3, <1>4

LEMMA Handled ==
  ASSUME NEW r \in PacketState, NEW n \in Node
  PROVE  LET h == HandledBy(r, n)
         IN  /\ h \in PacketState /\ h.by = Append(r.by, n)
             /\ h.place = r.place /\ h.ttl = r.ttl /\ h.wire = r.wire
<1>1. Append(r.by, n) \in Seq(Node)
  BY PacketFields
<1>2. HandledBy(r, n) = [r EXCEPT !.by = Append(r.by, n)]
  BY DEF HandledBy
<1>3. QED
  BY <1>1, <1>2 DEF PacketState

\* The vehicles that have handled a packet, and one more.
LEMMA OneMore ==
  ASSUME NEW by \in Seq(Node), NEW n \in Node
  PROVE  /\ Append(by, n) \in Seq(Node) /\ ToSet(Append(by, n)) = ToSet(by) \cup {n}
         /\ IsInjective(by) /\ n \notin ToSet(by) => IsInjective(Append(by, n))
<1> DEFINE e == Append(by, n)
           N == Len(by)
<1>1. /\ N \in Nat /\ e \in Seq(Node) /\ Len(e) = N + 1 /\ e[N + 1] = n
      /\ \A i \in 1 .. N : e[i] = by[i]
  BY AppendProperties
<1> HIDE DEF e
<1>2. (\A x : x \in ToSet(e) <=> \E i \in 1 .. N + 1 : e[i] = x)
  <2>1. \A x : x \in ToSet(e) <=> \E i \in 1 .. Len(e) : e[i] = x
    BY <1>1, Members
  <2>2. QED
    BY <1>1, <2>1
<1>3. \A x : x \in ToSet(by) <=> \E i \in 1 .. N : by[i] = x
  BY Members
<1>4. \A i \in 1 .. N + 1 : i \in 1 .. N \/ i = N + 1
  BY <1>1
<1>5. N + 1 \in 1 .. N + 1 /\ \A i \in 1 .. N : i \in 1 .. N + 1
  BY <1>1
<1> HIDE DEF N
<1>6. ASSUME NEW x PROVE x \in ToSet(e) <=> x \in ToSet(by) \/ x = n
  BY <1>1, <1>2, <1>3, <1>4, <1>5
<1>7. IsInjective(by) /\ n \notin ToSet(by) => IsInjective(e)
  BY Appended DEF e
<1>8. QED
  BY <1>1, <1>6, <1>7 DEF e

LEMMA First ==
  ASSUME NEW n
  PROVE  Append(<<>>, n) = <<n>> /\ IsInjective(<<n>>) /\ ToSet(<<n>>) = {n}
BY DEF IsInjective, ToSet

----------------------------------------------------------------------------
(* What a step leaves as it is *)

LEMMA PacketsKept ==
  ASSUME pos' = pos, moved' = moved, pk' \in [Packet -> PacketState],
         \A p \in Packet : Good(p, pk'[p], twice')
  PROVE  Packets'
<1>1. ASSUME NEW p \in Packet PROVE Good(p, pk[p], twice)'
  <2>1. PacketOK(p, pk'[p]) /\ (moved \/ Excepted(p, twice') \/ Course(p, pk'[p]))
    BY DEF Good
  <2>2. PacketOK(p, pk[p])'
    BY <2>1 DEF PacketOK, Headed
  <2>3. Excepted(p, twice') => Excepted(p, twice)'
    BY DEF Excepted, OnRoad
  <2>4. Course(p, pk'[p]) => Course(p, pk[p])'
    BY DEF Course, Leads, OnRoad, Away
  <2>5. QED
    BY <2>1, <2>2, <2>3, <2>4 DEF Good
<1>2. QED
  BY <1>1 DEF Packets

LEMMA StillGood ==
  ASSUME Packets, NEW p \in Packet, NEW careless, twice \subseteq careless
  PROVE  Good(p, pk[p], careless) /\ pk[p] \in PacketState
BY DEF Packets, Good, Excepted

\* One packet changes.
LEMMA OneChanges ==
  ASSUME Packets, pos' = pos, moved' = moved, twice \subseteq twice',
         NEW p \in Packet, NEW s \in PacketState, pk' = [pk EXCEPT ![p] = s], Good(p, s, twice')
  PROVE  Packets' /\ pk'[p] = s /\ \A o \in Packet \ {p} : pk'[o] = pk[o]
<1>1. pk \in [Packet -> PacketState]
  BY DEF Packets
<1>2. pk' \in [Packet -> PacketState] /\ pk'[p] = s /\ \A o \in Packet \ {p} : pk'[o] = pk[o]
  BY <1>1
<1>3. ASSUME NEW o \in Packet PROVE Good(o, pk'[o], twice')
  <2>1. CASE o = p
    BY <1>2, <2>1
  <2>2. CASE o # p
    <3>1. pk'[o] = pk[o]
      BY <1>2, <2>2
    <3>2. Good(o, pk[o], twice')
      BY StillGood
    <3>3. QED
      BY <3>1, <3>2
  <2>3. QED
    BY <2>1, <2>2
<1>4. QED
  BY <1>2, <1>3, PacketsKept

LEMMA QueuesKept ==
  ASSUME Queues, queue' = queue, addresses' = addresses,
         \A p \in Packet : pk[p].place = Queued => pk'[p].place = Queued
  PROVE  Queues'
<1>1. Waiting \subseteq Waiting'
  BY DEF Waiting
<1>2. ASSUME NEW n \in Node PROVE QueueOK(n, queue[n], Waiting')
  BY <1>1 DEF Queues, QueueOK
<1>3. QED
  BY <1>2 DEF Queues, QueueOK

LEMMA TablesKept ==
  ASSUME Tables, pos' = pos, moved' = moved, table' = table
  PROVE  Tables'
BY DEF Tables, OnRoad

LEMMA Purged ==
  ASSUME Tables, pos' = pos, moved' = moved, NEW n \in Node, Purge(n)
  PROVE  Tables'
<1> DEFINE t == [m \in Node |-> IF m \in Neighbors(n) THEN table[n][m] ELSE None]
<1>1. table \in [Node -> [Node -> {None} \cup Entry]] /\ \A o \in Node : table[o] \in TablesOf(o)
  BY DEF Tables
<1>2. table' = [table EXCEPT ![n] = t]
  BY DEF Purge
<1>3. t \in [Node -> {None} \cup Entry] /\ t[n] = None /\ \A m \in Node : t[m] # None => t[m] = table[n][m]
  BY <1>1 DEF TablesOf
<1> HIDE DEF t
<1>4. t \in TablesOf(n)
  BY <1>3 DEF TablesOf
<1>5. /\ table' \in [Node -> [Node -> {None} \cup Entry]] /\ table'[n] = t
      /\ \A o \in Node \ {n} : table'[o] = table[o]
  BY <1>1, <1>2, <1>3
<1>6. \A o \in Node : table'[o] \in TablesOf(o)
  BY <1>1, <1>4, <1>5
<1>7. \A o, m \in Node : table'[o][m] # None => table'[o][m] = table[o][m]
  BY <1>3, <1>5
<1>8. ~moved => \A o, m \in Node : table'[o][m] # None =>
                  table'[o][m].pos = pos[m] /\ table'[o][m].road = OnRoad(m)
  BY <1>7 DEF Tables
<1>9. QED
  BY <1>5, <1>6, <1>8 DEF Tables, OnRoad, TablesOf

LEMMA NeighboursAre ==
  ASSUME NEW n, NEW m \in Neighbors(n)
  PROVE  m \in Node
BY DEF Neighbors

----------------------------------------------------------------------------
(* What a vehicle sends itself *)

LEMMA SentTo ==
  ASSUME pos \in Layouts, NEW p \in Packet, pk[p] \in PacketState, NEW hop \in Node,
         NEW path \in Carried, NEW bytes,
         bytes = EncodePath(path) \/ (bytes = NoPath /\ path = <<>>)
  PROVE  LET s == SendTo(p, hop, bytes)
         IN  /\ s \in PacketState /\ s.place = hop /\ s.ttl = pk[p].ttl
             /\ s.by = Append(pk[p].by, Src[p]) /\ HasPath(s.wire, path)
<1> DEFINE b == PathOfTag(SerializeTag(bytes))
           w == SerializeData(DataHeader(pos[Src[p]], pos[Dst[p]], b))
           h == HandledBy(pk[p], Src[p])
           s == SendTo(p, hop, bytes)
<1>1. Src[p] \in Node /\ pos[Src[p]] \in Place /\ pos[Dst[p]] \in Place
  BY Network, RoadAtIs
<1>2. IsBytes(b, path)
  BY Encoded, Tagged, TaggedNone
<1> HIDE DEF b
<1>3. HasPath(w, path)
  BY <1>1, <1>2, HeaderWritten
<1>4. w \in Seq(Int)
  BY <1>3 DEF HasPath, IsWire
<1>5. /\ h \in PacketState /\ h.by = Append(pk[p].by, Src[p])
      /\ h.place = pk[p].place /\ h.ttl = pk[p].ttl
  BY <1>1, Handled
<1>6. s = [[h EXCEPT !.wire = w] EXCEPT !.place = hop]
  BY DEF SendTo, AddHeaders, GetPosition, b
<1> HIDE DEF h, w, s
<1>7. hop \in PlacesOfPackets
  BY DEF PlacesOfPackets
<1>8. s \in PacketState /\ s.place = hop /\ s.wire = w /\ s.ttl = h.ttl /\ s.by = h.by
  BY <1>4, <1>5, <1>6, <1>7 DEF PacketState
<1>9. QED
  BY <1>3, <1>5, <1>8 DEF s

\* At the source a packet has been handled by none.
LEMMA AtSource ==
  ASSUME Packets, NEW p \in Packet, pk[p].place \in {Fresh, Loopback, Queued}
  PROVE  pk[p] \in PacketState /\ pk[p].by = <<>> /\ pk[p].ttl >= 1
<1>1. pk[p].place \notin Outcomes
  BY PlacesDiffer
<1>2. QED
  BY <1>1 DEF Packets, Good, PacketOK

LEMMA LoopbackGood ==
  ASSUME Packets, pos \in Layouts, NEW p \in Packet, pk[p].place = Fresh, NEW careless
  PROVE  LET s == LoopbackRoute(p)
         IN  s \in PacketState /\ Good(p, s, careless)
<1> DEFINE w == SerializeData(DataHeader(pos[Src[p]], pos[Dst[p]], NoPath))
           s == LoopbackRoute(p)
<1>1. pos[Src[p]] \in Place /\ pos[Dst[p]] \in Place
  BY Network, RoadAtIs
<1>2. <<>> \in Carried
  BY DEF Carried
<1>3. HasPath(w, <<>>)
  BY <1>1, <1>2, HeaderWritten
<1>4. w \in Seq(Int)
  BY <1>3 DEF HasPath, IsWire
<1>5. pk[p] \in PacketState /\ pk[p].by = <<>> /\ pk[p].ttl >= 1
  BY AtSource
<1>6. s = [pk[p] EXCEPT !.place = Loopback, !.wire = w]
  BY DEF LoopbackRoute, GetPosition
<1> HIDE DEF w, s
<1>7. Loopback \in PlacesOfPackets
  BY DEF PlacesOfPackets
<1>8. s \in PacketState /\ s.place = Loopback /\ s.wire = w /\ s.ttl >= 1 /\ s.by = <<>>
  BY <1>4, <1>5, <1>6, <1>7 DEF PacketState
<1>9. ToSet(<<>>) = {} /\ IsInjective(<<>>)
  BY DEF ToSet, IsInjective
<1>10. PacketOK(p, s)
  BY <1>2, <1>3, <1>8, <1>9 DEF PacketOK, Headed
<1>11. Course(p, s)
  BY <1>8, <1>9, PlacesDiffer DEF Course
<1>12. QED
  BY <1>8, <1>10, <1>11 DEF Good, s

\* The neighbour is the destination.
LEMMA DirectGood ==
  ASSUME Packets, pos \in Layouts, NEW p \in Packet, pk[p].place = Fresh, NEW careless
  PROVE  LET s == SendTo(p, Dst[p], NoPath)
         IN  s \in PacketState /\ Good(p, s, careless) /\ s.place # Queued
<1> DEFINE s == SendTo(p, Dst[p], NoPath)
<1>1. pk[p] \in PacketState /\ pk[p].by = <<>> /\ pk[p].ttl >= 1
  BY AtSource
<1>2. <<>> \in Carried /\ Dst[p] \in Node /\ Src[p] # Dst[p]
  BY Network DEF Carried
<1>3. s \in PacketState /\ s.place = Dst[p] /\ s.ttl >= 1 /\ s.by = <<Src[p]>> /\ HasPath(s.wire, <<>>)
  BY <1>1, <1>2, SentTo, First
<1> HIDE DEF s
<1>4. Dst[p] \notin ToSet(s.by) /\ IsInjective(s.by)
  BY <1>2, <1>3, First
<1>5. Good(p, s, careless) /\ s.place # Queued
  BY <1>2, <1>3, <1>4, HopGood
<1>6. QED
  BY <1>3, <1>5 DEF s

\* A next hop on the path that has been found.
LEMMA SourceGood ==
  ASSUME Packets, Tables, Maps, pos \in Layouts, NEW p \in Packet, pk[p].place = Fresh,
         NEW r \in GetPaths(types[Src[p]], pos[Src[p]], pos[Dst[p]]),
         NEW careless, r.twice => Src[p] \in careless, twice \subseteq careless,
         NEW m \in NextHops(Src[p], ErasePassed(r.path, pos[Src[p]]))
  PROVE  LET s == SendTo(p, m, EncodePath(ErasePassed(r.path, pos[Src[p]])))
         IN  s \in PacketState /\ Good(p, s, careless) /\ s.place # Queued
<1> DEFINE n == Src[p]
           path == ErasePassed(r.path, pos[n])
           s == SendTo(p, m, EncodePath(path))
<1>1. n \in Node /\ Dst[p] \in Node /\ n # Dst[p]
  BY Network
<1>2. /\ pos[n] \in Place /\ RoadAt[pos[n]] = RoadByPos(pos[n])
      /\ pos[Dst[p]] \in Place /\ RoadAt[pos[Dst[p]]] = RoadByPos(pos[Dst[p]])
  BY <1>1, RoadAtIs
<1>3. types[n] \in TypesOfRoads
  BY <1>1 DEF Maps
<1>4. /\ r.path \in Trails
      /\ RoadByPos(pos[n]) # RoadByPos(pos[Dst[p]]) =>
           \A k \in 2 .. Len(r.path) - 1 : RoadOn(r.path, k) # RoadByPos(pos[n])
      /\ RoadByPos(pos[n]) = RoadByPos(pos[Dst[p]]) /\ types[n] = Open /\ ~r.twice => Len(r.path) = 2
  BY <1>2, <1>3, RouteIs
<1>5. path \in Trails
  BY <1>4, ErasedIs
<1> HIDE DEF path, n
<1>6. m \in NextHops(n, path)
  BY DEF path, n
<1>7. m \in Node
  BY <1>1, <1>5, <1>6, NextHopIs
<1>8. pk[p] \in PacketState /\ pk[p].by = <<>> /\ pk[p].ttl >= 1
  BY AtSource
<1>9. path \in Carried
  BY <1>5, TrailIs
<1>10. s \in PacketState /\ s.place = m /\ s.ttl >= 1 /\ s.by = <<n>> /\ HasPath(s.wire, path)
  BY <1>7, <1>8, <1>9, SentTo, First DEF n
<1>11. Dst[p] \notin ToSet(s.by) /\ IsInjective(s.by)
  BY <1>1, <1>10, First
<1>12. moved \/ Excepted(p, careless) \/ Leads(s.by, s.place, path)
  <2> SUFFICES ASSUME ~moved, ~Excepted(p, careless) PROVE Leads(s.by, s.place, path)
    OBVIOUS
  <2>1. OnRoad(n) # OnRoad(Dst[p]) \/ n \notin careless
    BY DEF Excepted, n
  <2>2. Len(r.path) > 2 => \A k \in 2 .. Len(r.path) - 1 : RoadOn(r.path, k) # OnRoad(n)
    <3>1. CASE OnRoad(n) # OnRoad(Dst[p])
      BY <1>2, <1>4, <3>1 DEF OnRoad
    <3>2. CASE OnRoad(n) = OnRoad(Dst[p])
      <4>1. n \notin careless /\ n \notin twice /\ ~r.twice
        BY <2>1, <3>2 DEF n
      <4>2. types[n] = Open
        BY <1>1, <4>1 DEF Maps
      <4>3. Len(r.path) = 2
        BY <1>2, <1>4, <3>2, <4>1, <4>2 DEF OnRoad
      <4>4. QED
        BY <4>3
    <3>3. QED
      BY <3>1, <3>2
  <2>3. Leads(<<n>>, m, path)
    BY <1>1, <1>4, <1>6, <2>2, SetsOut DEF path
  <2>4. QED
    BY <1>10, <2>3
<1>13. Good(p, s, careless) /\ s.place # Queued
  BY <1>5, <1>7, <1>9, <1>10, <1>11, <1>12, HopGood
<1>14. QED
  BY <1>10, <1>13 DEF s, path, n

LEMMA VehiclesKept ==
  ASSUME Vehicles, pos' = pos, UNCHANGED iface, timer' \in SUBSET Node, expired' \in SUBSET Packet,
         moved' = moved, spent' \in 0 .. MaxEvents
  PROVE  Vehicles'
BY DEF Vehicles, iface

LEMMA MapsKept ==
  ASSUME Maps, UNCHANGED map
  PROVE  Maps' /\ twice' = twice
BY DEF Maps, map

LEMMA Parts ==
  ASSUME IInv
  PROVE  Vehicles /\ Tables /\ Maps /\ Packets /\ Queues /\ pos \in Layouts
BY DEF IInv, Vehicles

\* A packet that does not wait changes, and the rest stays.
LEMMA OneFreed ==
  ASSUME Packets, Queues, pos' = pos, moved' = moved, twice \subseteq twice',
         queue' = queue, addresses' = addresses,
         NEW p \in Packet, pk[p].place # Queued,
         NEW s \in PacketState, pk' = [pk EXCEPT ![p] = s], Good(p, s, twice')
  PROVE  Packets' /\ Queues'
<1>1. Packets' /\ \A o \in Packet \ {p} : pk'[o] = pk[o]
  BY OneChanges
<1>2. \A o \in Packet : pk[o].place = Queued => pk'[o].place = Queued
  BY <1>1
<1>3. QED
  BY <1>1, <1>2, QueuesKept

LEMMA RouteOutputInv ==
  ASSUME IInv, NEW p \in Packet, RouteOutput(p)
  PROVE  IInv'
<1> DEFINE n == Src[p]
<1>1. Vehicles /\ Tables /\ Maps /\ Packets /\ Queues /\ pos \in Layouts
  BY Parts
<1>2. n \in Node
  BY Network
<1>3. /\ pk[p].place = Fresh /\ Purge(n)
      /\ pos' = pos /\ UNCHANGED iface /\ UNCHANGED defer /\ moved' = moved /\ spent' = spent
  BY DEF RouteOutput
<1>4. queue' = queue /\ addresses' = addresses /\ timer' = timer /\ expired' = expired
  BY <1>3 DEF defer
<1>5. Vehicles'
  BY <1>1, <1>3, <1>4, VehiclesKept DEF Vehicles
<1>6. Tables'
  BY <1>1, <1>2, <1>3, Purged
<1>7. pk[p].place # Queued
  BY <1>3, PlacesDiffer
<1>8. CASE pk' = [pk EXCEPT ![p] = SendTo(p, Dst[p], NoPath)] /\ UNCHANGED map
  <2>1. Maps' /\ twice' = twice
    BY <1>1, <1>8, MapsKept
  <2>2. SendTo(p, Dst[p], NoPath) \in PacketState /\ Good(p, SendTo(p, Dst[p], NoPath), twice')
    BY <1>1, <1>3, DirectGood
  <2>3. Packets' /\ Queues'
    BY <1>1, <1>3, <1>4, <1>7, <1>8, <2>1, <2>2, OneFreed
  <2>4. QED
    BY <1>5, <1>6, <2>1, <2>3 DEF IInv
<1>9. ASSUME NEW r \in GetPaths(types[n], pos[n], GetPosition(Dst[p])),
             types' = [types EXCEPT ![n] = r.types],
             twice' = (IF r.twice THEN twice \cup {n} ELSE twice),
             \/ \E m \in NextHops(n, ErasePassed(r.path, pos[n])) :
                  pk' = [pk EXCEPT ![p] = SendTo(p, m, EncodePath(ErasePassed(r.path, pos[n])))]
             \/ pk' = [pk EXCEPT ![p] = LoopbackRoute(p)]
      PROVE  IInv'
  <2>1. r \in GetPaths(types[n], pos[n], pos[Dst[p]])
    BY DEF GetPosition
  <2>2. pos[n] \in Place /\ pos[Dst[p]] \in Place /\ types[n] \in TypesOfRoads
    BY <1>1, <1>2, Network, RoadAtIs DEF Maps
  <2>3. r.types \in TypesOfRoads /\ (types[n] = Open /\ ~r.twice => r.types = Open)
    BY <2>1, <2>2, RouteIs
  <2>4. twice \subseteq twice' /\ (r.twice => n \in twice') /\ twice' \in SUBSET Node
    BY <1>1, <1>2, <1>9 DEF Maps
  <2>5. Maps'
    <3>1. types' \in [Node -> TypesOfRoads] /\ types'[n] = r.types /\ \A o \in Node \ {n} : types'[o] = types[o]
      BY <1>1, <1>2, <1>9, <2>3 DEF Maps
    <3>2. ASSUME NEW o \in Node \ twice' PROVE types'[o] = Open
      <4>1. o \in Node \ twice /\ types[o] = Open
        BY <1>1, <2>4, <3>2 DEF Maps
      <4>2. CASE o = n
        BY <2>3, <2>4, <3>1, <4>1, <4>2
      <4>3. CASE o # n
        BY <3>1, <4>1, <4>3
      <4>4. QED
        BY <4>2, <4>3
    <3>3. QED
      BY <2>4, <3>1, <3>2 DEF Maps
  <2>6. PICK s \in PacketState : pk' = [pk EXCEPT ![p] = s] /\ Good(p, s, twice')
    <3>1. CASE pk' = [pk EXCEPT ![p] = LoopbackRoute(p)]
      BY <1>1, <1>3, <3>1, LoopbackGood
    <3>2. ASSUME NEW m \in NextHops(n, ErasePassed(r.path, pos[n])),
                 pk' = [pk EXCEPT ![p] = SendTo(p, m, EncodePath(ErasePassed(r.path, pos[n])))]
          PROVE  \E s \in PacketState : pk' = [pk EXCEPT ![p] = s] /\ Good(p, s, twice')
      BY <1>1, <1>3, <2>1, <2>4, <3>2, SourceGood
    <3>3. QED
      BY <1>9, <3>1, <3>2
  <2>7. Packets' /\ Queues'
    BY <1>1, <1>3, <1>4, <1>7, <2>4, <2>6, OneFreed
  <2>8. QED
    BY <1>5, <1>6, <2>5, <2>7 DEF IInv
<1>10. QED
  BY <1>8, <1>9 DEF RouteOutput

LEMMA NoInterfaceInv ==
  ASSUME IInv, NEW p \in Packet, NoInterface(p)
  PROVE  IInv'
<1> DEFINE s == [pk[p] EXCEPT !.place = Lost]
<1>1. Vehicles /\ Tables /\ Maps /\ Packets /\ Queues /\ pos \in Layouts
  BY Parts
<1>2. /\ pk[p].place \in {Fresh, Loopback} /\ pk' = [pk EXCEPT ![p].place = Lost]
      /\ pos' = pos /\ UNCHANGED iface /\ table' = table /\ UNCHANGED map
      /\ queue' = queue /\ addresses' = addresses /\ timer' = timer /\ expired' = expired
      /\ moved' = moved /\ spent' = spent
  BY DEF NoInterface, defer
<1>3. Vehicles' /\ Tables' /\ Maps' /\ twice' = twice
  BY <1>1, <1>2, VehiclesKept, TablesKept, MapsKept DEF Vehicles
<1>4. Good(p, pk[p], twice') /\ Lost \in Outcomes
  BY <1>1, <1>3, StillGood DEF Outcomes
<1>5. s \in PacketState /\ Good(p, s, twice')
  BY <1>4, EndGood
<1>6. pk' = [pk EXCEPT ![p] = s]
  BY <1>1, <1>2 DEF Packets
<1>7. pk[p].place # Queued
  BY <1>2, PlacesDiffer
<1> HIDE DEF s
<1>8. Packets' /\ Queues'
  BY <1>1, <1>2, <1>3, <1>5, <1>6, <1>7, OneFreed
<1>9. QED
  BY <1>3, <1>8 DEF IInv

----------------------------------------------------------------------------
(* Packets that wait *)

\* A packet is taken in; the oldest may have to go.
LEMMA Enqueued ==
  ASSUME NEW q \in Seq(Packet), Len(q) <= MaxQueueLen, IsInjective(q),
         NEW p \in Packet, p \notin ToSet(q)
  PROVE  /\ Enqueue(q, p) \in Seq(Packet) /\ Len(Enqueue(q, p)) <= MaxQueueLen
         /\ IsInjective(Enqueue(q, p))
         /\ ToSet(Enqueue(q, p)) = (ToSet(q) \ Displaced(q)) \cup {p}
         /\ Displaced(q) \in SUBSET ToSet(q)
<1>1. MaxQueueLen \in Nat /\ MaxQueueLen # 0 /\ Len(q) \in Nat
  BY Network
<1>2. CASE Len(q) = MaxQueueLen
  <2>1. q # <<>>
    BY <1>1, <1>2
  <2>2. /\ Tail(q) \in Seq(Packet) /\ Len(Tail(q)) = Len(q) - 1
        /\ IsInjective(Tail(q)) /\ ToSet(Tail(q)) = ToSet(q) \ {Head(q)} /\ Head(q) \in ToSet(q)
    BY <2>1, Shortened
  <2> DEFINE s == Tail(q)
  <2> HIDE DEF s
  <2>3. p \notin ToSet(s) /\ s \in Seq(Packet) /\ IsInjective(s)
    BY <2>2 DEF s
  <2>4. /\ Append(s, p) \in Seq(Packet) /\ Len(Append(s, p)) = Len(s) + 1
        /\ IsInjective(Append(s, p)) /\ ToSet(Append(s, p)) = ToSet(s) \cup {p}
    BY <2>3, Appended
  <2>5. Enqueue(q, p) = Append(s, p) /\ Displaced(q) = {Head(q)}
    BY <1>2 DEF Enqueue, Displaced, s
  <2>6. Len(Append(s, p)) = MaxQueueLen
    BY <1>1, <1>2, <2>2, <2>4 DEF s
  <2>7. ToSet(Append(s, p)) = (ToSet(q) \ {Head(q)}) \cup {p} /\ {Head(q)} \in SUBSET ToSet(q)
    BY <2>2, <2>4 DEF s
  <2>8. MaxQueueLen <= MaxQueueLen
    BY <1>1
  <2>9. QED
    BY <2>4, <2>5, <2>6, <2>7, <2>8
<1>3. CASE Len(q) # MaxQueueLen
  <2>1. /\ Append(q, p) \in Seq(Packet) /\ Len(Append(q, p)) = Len(q) + 1
        /\ IsInjective(Append(q, p)) /\ ToSet(Append(q, p)) = ToSet(q) \cup {p}
    BY Appended
  <2>2. Enqueue(q, p) = Append(q, p) /\ Displaced(q) = {}
    BY <1>3 DEF Enqueue, Displaced
  <2>3. Len(Append(q, p)) <= MaxQueueLen
    BY <1>1, <1>3, <2>1
  <2>4. QED
    BY <2>1, <2>2, <2>3
<1>4. QED
  BY <1>2, <1>3

\* Its destination is listed.
LEMMA Inserted ==
  ASSUME NEW n \in Node, addresses[n] \in Seq(Node), NEW d \in Node
  PROVE  /\ InsertAddress(n, d) \in Seq(Node)
         /\ ToSet(InsertAddress(n, d)) \subseteq ToSet(addresses[n]) \cup {d}
<1>1. InsertAddress(n, d) = addresses[n] \/ InsertAddress(n, d) = <<d>> \o addresses[n]
  BY DEF InsertAddress
<1>2. CASE InsertAddress(n, d) = addresses[n]
  BY <1>2
<1>3. CASE InsertAddress(n, d) = <<d>> \o addresses[n]
  <2> DEFINE b == <<d>> \o addresses[n]
  <2>1. b \in Seq(Node) /\ ToSet(b) = ToSet(addresses[n]) \cup {d}
    BY Prepended
  <2>2. InsertAddress(n, d) = b
    BY <1>3
  <2> HIDE DEF b
  <2>3. QED
    BY <2>1, <2>2
<1>4. QED
  BY <1>1, <1>2, <1>3

LEMMA NotTooOld ==
  ASSUME NEW q \in Seq(Packet), Len(q) <= MaxQueueLen, IsInjective(q)
  PROVE  LET u == Unexpired(q)
         IN  /\ u \in Seq(Packet) /\ Len(u) <= MaxQueueLen /\ IsInjective(u)
             /\ ToSet(u) = ToSet(q) \cap (Packet \ expired)
<1> DEFINE u == Unexpired(q)
<1>1. u = Filter(q, Packet \ expired)
  BY DEF Unexpired
<1> HIDE DEF u
<1>2. /\ u \in Seq(Packet) /\ Len(u) <= Len(q) /\ IsInjective(u)
      /\ ToSet(u) = ToSet(q) \cap (Packet \ expired)
  BY <1>1, Filtered
<1>3. Len(u) \in Nat /\ Len(q) \in Nat /\ MaxQueueLen \in Nat
  BY <1>2, Network
<1>4. Len(u) <= MaxQueueLen
  BY <1>2, <1>3
<1>5. QED
  BY <1>2, <1>4 DEF u

\* The packets of n's queue change, and no other.
LEMMA OneQueue ==
  ASSUME Packets, Queues, pos' = pos, moved' = moved, twice' = twice,
         pk' \in [Packet -> PacketState], \A p \in Packet : Good(p, pk'[p], twice),
         NEW n \in Node, NEW q, NEW a \in Seq(Node), ToSet(a) \subseteq Node \ {n},
         queue' = [queue EXCEPT ![n] = q], addresses' = [addresses EXCEPT ![n] = a],
         QueueOK(n, q, Waiting'),
         \A p \in Packet : Src[p] # n /\ pk[p].place = Queued => pk'[p].place = Queued
  PROVE  Packets' /\ Queues'
<1>1. Packets'
  BY PacketsKept
<1>2. queue \in [Node -> Seq(Packet)] /\ addresses \in [Node -> Seq(Node)]
  BY DEF Queues
<1>3. /\ queue' \in [Node -> Seq(Packet)] /\ addresses' \in [Node -> Seq(Node)]
      /\ queue'[n] = q /\ addresses'[n] = a
      /\ \A o \in Node \ {n} : queue'[o] = queue[o] /\ addresses'[o] = addresses[o]
  BY <1>2 DEF QueueOK
<1>4. ASSUME NEW o \in Node \ {n} PROVE QueueOK(o, queue[o], Waiting')
  <2>1. QueueOK(o, queue[o], Waiting)
    BY <1>4 DEF Queues
  <2>2. \A p \in ToSet(queue[o]) : Src[p] = o /\ p \in Waiting
    BY <2>1 DEF QueueOK
  <2>3. \A p \in ToSet(queue[o]) : p \in Waiting'
    BY <1>4, <2>2 DEF Waiting
  <2>4. QED
    BY <2>1, <2>3 DEF QueueOK
<1>5. \A o \in Node : ToSet(addresses'[o]) \subseteq Node \ {o} /\ QueueOK(o, queue'[o], Waiting')
  BY <1>3, <1>4 DEF Queues
<1>6. Queues'
  BY <1>3, <1>5 DEF Queues, QueueOK
<1>7. QED
  BY <1>1, <1>6

\* A packet of the queue has its vehicle as its source and waits.
LEMMA InQueue ==
  ASSUME Queues, NEW n \in Node
  PROVE  /\ queue[n] \in Seq(Packet) /\ Len(queue[n]) <= MaxQueueLen /\ IsInjective(queue[n])
         /\ \A p \in ToSet(queue[n]) : p \in Packet /\ Src[p] = n /\ pk[p].place = Queued
BY DEF Queues, QueueOK, Waiting

LEMMA DeferredInv ==
  ASSUME IInv, NEW p \in Packet, DeferredRouteOutput(p)
  PROVE  IInv'
<1> DEFINE n == Src[p]
           waiting == Unexpired(queue[n])
           dropped == Displaced(waiting) \cup (ToSet(queue[n]) \cap expired)
           q == Enqueue(waiting, p)
           a == InsertAddress(n, Dst[p])
<1>1. Vehicles /\ Tables /\ Maps /\ Packets /\ Queues /\ pos \in Layouts
  BY Parts
<1>2. n \in Node /\ Dst[p] \in Node \ {n}
  BY Network
<1>3. /\ pk[p].place = Loopback
      /\ timer' = (IF waiting = <<>> THEN timer \cup {n} ELSE timer)
      /\ queue' = [queue EXCEPT ![n] = q] /\ addresses' = [addresses EXCEPT ![n] = a]
      /\ pk' = [o \in Packet |-> IF o \in dropped THEN [pk[o] EXCEPT !.place = Lost]
                                 ELSE IF o = p THEN [pk[p] EXCEPT !.place = Queued] ELSE pk[o]]
      /\ pos' = pos /\ UNCHANGED iface /\ table' = table /\ UNCHANGED map /\ expired' = expired
      /\ moved' = moved /\ spent' = spent
  BY DEF DeferredRouteOutput
<1>4. timer' \in SUBSET Node
  BY <1>1, <1>2, <1>3 DEF Vehicles
<1>5. Vehicles' /\ Tables' /\ Maps' /\ twice' = twice
  BY <1>1, <1>3, <1>4, VehiclesKept, TablesKept, MapsKept DEF Vehicles
<1>6. /\ queue[n] \in Seq(Packet) /\ Len(queue[n]) <= MaxQueueLen /\ IsInjective(queue[n])
      /\ \A o \in ToSet(queue[n]) : o \in Packet /\ Src[o] = n /\ pk[o].place = Queued
  BY <1>1, <1>2, InQueue
<1>7. /\ waiting \in Seq(Packet) /\ Len(waiting) <= MaxQueueLen /\ IsInjective(waiting)
      /\ ToSet(waiting) = ToSet(queue[n]) \cap (Packet \ expired)
  BY <1>6, NotTooOld
<1> HIDE DEF waiting
<1>8. p \notin ToSet(queue[n]) /\ p \notin ToSet(waiting)
  BY <1>3, <1>6, <1>7, PlacesDiffer
<1>9. /\ q \in Seq(Packet) /\ Len(q) <= MaxQueueLen /\ IsInjective(q)
      /\ ToSet(q) = (ToSet(waiting) \ Displaced(waiting)) \cup {p}
      /\ Displaced(waiting) \in SUBSET ToSet(waiting)
  BY <1>7, <1>8, Enqueued
<1>10. a \in Seq(Node) /\ ToSet(a) \subseteq Node \ {n}
  BY <1>1, <1>2, Inserted DEF Queues
<1> HIDE DEF q, a
<1>11. dropped \subseteq ToSet(queue[n]) /\ p \notin dropped
  BY <1>7, <1>8, <1>9
<1> HIDE DEF dropped
<1>12. ASSUME NEW o \in Packet PROVE pk'[o] \in PacketState /\ Good(o, pk'[o], twice)
  <2>1. Good(o, pk[o], twice) /\ pk[o] \in PacketState /\ Lost \in Outcomes
    BY <1>1 DEF Packets, Outcomes
  <2>2. CASE o \in dropped
    BY <1>3, <2>1, <2>2, EndGood
  <2>3. CASE o = p
    <3> DEFINE s == [pk[p] EXCEPT !.place = Queued]
    <3>1. pk'[o] = s
      BY <1>3, <1>11, <2>3
    <3>2. Queued \in PlacesOfPackets /\ Loopback \notin {Fresh, Lost} /\ Loopback \notin Outcomes
          /\ Queued \notin Node /\ Queued \notin Outcomes
      BY PlacesDiffer DEF PlacesOfPackets, Outcomes
    <3>3. s \in PacketState /\ s.place = Queued /\ s.wire = pk[p].wire /\ s.by = pk[p].by /\ s.ttl = pk[p].ttl
      BY <2>1, <2>3, <3>2 DEF PacketState
    <3> HIDE DEF s
    <3>4. PacketOK(p, pk[p]) /\ pk[p].ttl >= 1 /\ pk[p].by = <<>>
      BY <1>3, <2>1, <2>3, <3>2 DEF Good, PacketOK
    <3>5. Headed(s)
      BY <1>3, <3>2, <3>3, <3>4 DEF PacketOK, Headed
    <3>6. PacketOK(p, s)
      BY <3>3, <3>4, <3>5 DEF PacketOK
    <3>7. Course(p, pk[p]) => Course(p, s)
      BY <3>2, <3>3 DEF Course
    <3>8. QED
      BY <2>1, <2>3, <3>1, <3>3, <3>6, <3>7 DEF Good
  <2>4. CASE o \notin dropped /\ o # p
    BY <1>3, <2>1, <2>4
  <2>5. QED
    BY <2>2, <2>3, <2>4
<1>13. pk' \in [Packet -> PacketState]
  <2>1. pk' = [o \in Packet |-> pk'[o]]
    BY <1>3
  <2>2. QED
    BY <1>12, <2>1
<1>14. \A o \in Packet \ dropped : pk[o].place = Queued => pk'[o].place = Queued
  BY <1>3, PlacesDiffer
<1>15. pk'[p].place = Queued
  <2>1. pk'[p] = [pk[p] EXCEPT !.place = Queued] /\ pk[p] \in PacketState
    BY <1>1, <1>3, <1>11 DEF Packets
  <2>2. QED
    BY <2>1 DEF PacketState
<1>16. QueueOK(n, q, Waiting')
  <2>1. ASSUME NEW o \in ToSet(q) PROVE Src[o] = n /\ o \in Packet /\ pk'[o].place = Queued
    <3>1. CASE o = p
      BY <1>15, <3>1
    <3>2. CASE o # p
      <4>1. o \in ToSet(queue[n]) /\ o \notin Displaced(waiting) /\ o \notin expired
        BY <1>7, <1>9, <2>1, <3>2
      <4>2. o \notin dropped
        BY <4>1 DEF dropped
      <4>3. QED
        BY <1>6, <1>14, <4>1, <4>2
    <3>3. QED
      BY <3>1, <3>2
  <2>2. QED
    BY <1>9, <2>1 DEF QueueOK, Waiting
<1>17. \A o \in Packet : Src[o] # n /\ pk[o].place = Queued => pk'[o].place = Queued
  BY <1>6, <1>11, <1>14
<1>18. Packets' /\ Queues'
  BY <1>1, <1>2, <1>3, <1>5, <1>10, <1>12, <1>13, <1>16, <1>17, OneQueue
<1>19. QED
  BY <1>5, <1>18 DEF IInv

----------------------------------------------------------------------------
(* The queue is tried *)

\* What trying some addresses makes of n's queue: what is sent or has failed has left it.
Attempts(n) ==
  {s \in [queue : Seq(Packet), sent : SUBSET Packet, failed : SUBSET Packet, done : SUBSET Node] :
     /\ Len(s.queue) <= MaxQueueLen /\ IsInjective(s.queue)
     /\ ToSet(s.queue) \subseteq ToSet(queue[n]) \ expired
     /\ s.sent \subseteq ToSet(queue[n]) /\ s.failed \subseteq ToSet(queue[n])
     /\ ToSet(s.queue) \cap (s.sent \cup s.failed) = {}}

\* An address that is tried leaves the queue with fewer packets or as it was.
LEMMA OneTried ==
  ASSUME NEW n \in Node, NEW s \in Attempts(n), NEW d \in Node
  PROVE  SendPacketFromQueue(s, n, d) \in Attempts(n)
<1> DEFINE mine == Filter(s.queue, For(d))
           others == Filter(s.queue, Packet \ For(d))
           rest == Filter(s.queue, Packet \ {Head(mine)})
<1>1. /\ s.queue \in Seq(Packet) /\ Len(s.queue) <= MaxQueueLen /\ IsInjective(s.queue)
      /\ ToSet(s.queue) \subseteq ToSet(queue[n]) \ expired
      /\ s.sent \subseteq ToSet(queue[n]) /\ s.failed \subseteq ToSet(queue[n])
      /\ ToSet(s.queue) \cap (s.sent \cup s.failed) = {}
      /\ s.sent \in SUBSET Packet /\ s.failed \in SUBSET Packet /\ s.done \in SUBSET Node
  BY DEF Attempts
<1>0. s \in [queue : Seq(Packet), sent : SUBSET Packet, failed : SUBSET Packet, done : SUBSET Node]
  BY DEF Attempts
<1>2. /\ mine \in Seq(Packet) /\ ToSet(mine) = ToSet(s.queue) \cap For(d)
  BY <1>1, Filtered
<1>3. /\ others \in Seq(Packet) /\ Len(others) <= Len(s.queue) /\ IsInjective(others)
      /\ ToSet(others) = ToSet(s.queue) \cap (Packet \ For(d))
  BY <1>1, Filtered
<1>4. /\ rest \in Seq(Packet) /\ Len(rest) <= Len(s.queue) /\ IsInjective(rest)
      /\ ToSet(rest) = ToSet(s.queue) \cap (Packet \ {Head(mine)})
  BY <1>1, Filtered
<1> HIDE DEF mine, others, rest
<1>5. /\ Len(others) <= MaxQueueLen /\ Len(rest) <= MaxQueueLen
  <2>1. Len(others) \in Nat /\ Len(rest) \in Nat /\ Len(s.queue) \in Nat /\ MaxQueueLen \in Nat
    BY <1>1, <1>3, <1>4, Network
  <2>2. QED
    BY <1>1, <1>3, <1>4, <2>1
<1>6. s.done \cup {d} \in SUBSET Node
  BY <1>1
<1>7. CASE mine = <<>>
  <2> DEFINE t == [s EXCEPT !.done = @ \cup {d}]
  <2>1. SendPacketFromQueue(s, n, d) = t
    BY <1>7 DEF SendPacketFromQueue, mine
  <2>2. t.queue = s.queue /\ t.sent = s.sent /\ t.failed = s.failed /\ t.done = s.done \cup {d}
    BY <1>0
  <2>2a. t \in [queue : Seq(Packet), sent : SUBSET Packet, failed : SUBSET Packet, done : SUBSET Node]
    BY <1>0, <1>6
  <2> HIDE DEF t
  <2>3. t \in Attempts(n)
    BY <1>1, <2>2, <2>2a DEF Attempts
  <2>4. QED
    BY <2>1, <2>3
<1>8. CASE mine # <<>> /\ IsNeighbor(n, d)
  <2> DEFINE t == [s EXCEPT !.done = @ \cup {d}, !.sent = @ \cup ToSet(mine),
                            !.queue = Filter(@, Packet \ For(d))]
             u == s.sent \cup ToSet(mine)
  <2>1. SendPacketFromQueue(s, n, d) = t
    BY <1>8 DEF SendPacketFromQueue, mine
  <2>2. t.queue = others /\ t.sent = u /\ t.failed = s.failed /\ t.done = s.done \cup {d}
    BY <1>0 DEF others
  <2>3. u \in SUBSET Packet /\ u \subseteq ToSet(queue[n]) /\ ToSet(others) \cap (u \cup s.failed) = {}
        /\ ToSet(others) \subseteq ToSet(queue[n]) \ expired
    <3>1. ToSet(mine) \in SUBSET Packet
      BY <1>2, Members
    <3>2. QED
      BY <1>1, <1>2, <1>3, <3>1
  <2>2a. t \in [queue : Seq(Packet), sent : SUBSET Packet, failed : SUBSET Packet, done : SUBSET Node]
    BY <1>0, <1>3, <1>6, <2>3 DEF others
  <2> HIDE DEF t, u
  <2>4. t \in Attempts(n)
    BY <1>1, <1>3, <1>5, <2>2, <2>2a, <2>3 DEF Attempts
  <2>5. QED
    BY <2>1, <2>4
<1>9. CASE mine # <<>> /\ ~IsNeighbor(n, d)
  <2> DEFINE h == Head(mine)
             t == [s EXCEPT !.failed = @ \cup {h}, !.queue = Filter(@, Packet \ {h})]
             u == s.failed \cup {h}
  <2>1. SendPacketFromQueue(s, n, d) = t
    BY <1>9 DEF SendPacketFromQueue, mine
  <2>2. t.queue = rest /\ t.sent = s.sent /\ t.failed = u /\ t.done = s.done
    BY <1>0 DEF rest
  <2>3. h \in ToSet(mine)
    <3>1. mine[1] \in ToSet(mine)
      <4>1. Len(mine) \in Nat /\ Len(mine) # 0
        BY <1>2, <1>9
      <4>2. 1 \in 1 .. Len(mine)
        BY <4>1
      <4>3. QED
        BY <1>2, <4>2, Members
    <3>2. QED
      BY <3>1
  <2> HIDE DEF h
  <2>4. u \in SUBSET Packet /\ u \subseteq ToSet(queue[n]) /\ ToSet(rest) \cap (s.sent \cup u) = {}
        /\ ToSet(rest) \subseteq ToSet(queue[n]) \ expired
    <3>1. h \in ToSet(s.queue) /\ h \in Packet
      BY <1>2, <2>3 DEF For
    <3>2. ToSet(rest) = ToSet(s.queue) \cap (Packet \ {h})
      BY <1>4 DEF h
    <3>3. QED
      BY <1>1, <3>1, <3>2
  <2>4a. t \in [queue : Seq(Packet), sent : SUBSET Packet, failed : SUBSET Packet, done : SUBSET Node]
    BY <1>0, <1>4, <2>4 DEF rest, h
  <2> HIDE DEF t, u
  <2>5. t \in Attempts(n)
    BY <1>1, <1>4, <1>5, <2>2, <2>4, <2>4a DEF Attempts
  <2>6. QED
    BY <2>1, <2>5
<1>10. QED
  BY <1>7, <1>8, <1>9

LEMMA AllTriedIs ==
  ASSUME Queues, NEW n \in Node
  PROVE  AllTried(n) \in Attempts(n)
<1> DEFINE N == Len(addresses[n])
           S == Attempts(n)
           first == [queue |-> Unexpired(queue[n]), sent |-> {}, failed |-> {}, done |-> {}]
           Step(k, x) == SendPacketFromQueue(x, n, addresses[n][k])
           Goes(f) == f = [k \in 0 .. Len(addresses[n]) |->
                             IF k = 0
                             THEN [queue |-> Unexpired(queue[n]), sent |-> {}, failed |-> {}, done |-> {}]
                             ELSE SendPacketFromQueue(f[k - 1], n, addresses[n][k])]
           tried == CHOOSE f : Goes(f)
<1>1. N \in Nat /\ addresses[n] \in Seq(Node)
  BY DEF Queues
<1>2. AllTried(n) = tried[N]
  BY DEF AllTried
<1>3. first \in S
  <2>1. queue[n] \in Seq(Packet) /\ Len(queue[n]) <= MaxQueueLen /\ IsInjective(queue[n])
    BY InQueue
  <2> DEFINE w == Unexpired(queue[n])
  <2>2. w \in Seq(Packet) /\ Len(w) <= MaxQueueLen /\ IsInjective(w)
        /\ ToSet(w) = ToSet(queue[n]) \cap (Packet \ expired)
    BY <2>1, NotTooOld
  <2>3. first = [queue |-> w, sent |-> {}, failed |-> {}, done |-> {}]
    OBVIOUS
  <2> HIDE DEF w, first
  <2>4. QED
    BY <2>2, <2>3 DEF Attempts
<1>4. \A k \in 1 .. N : \A x \in S : Step(k, x) \in S
  BY <1>1, OneTried
<1>5. \E f : Goes(f)
  <2> HIDE DEF Step
  <2> DEFINE g == [k \in 1 .. N |-> [x \in S |-> Step(k, x)]]
  <2>1. g \in [1 .. N -> [S -> S]]
    BY <1>4
  <2>2. \A k \in 1 .. N : \A x \in S : g[k][x] = Step(k, x)
    OBVIOUS
  <2> HIDE DEF g, S, N, first
  <2>3. PICK f : Unfolds(f, N, S, first, g)
    BY <1>1, <1>3, <2>1, Recursion
  <2>4. \A k \in 0 .. N : k # 0 => k \in 1 .. N /\ k - 1 \in 0 .. N
    BY <1>1
  <2>5. /\ f \in [0 .. N -> S] /\ f[0] = first
        /\ \A k \in 1 .. N : f[k] = g[k][f[k - 1]]
    BY <2>3 DEF Unfolds
  <2>6. \A k \in 0 .. N : f[k] = IF k = 0 THEN first ELSE Step(k, f[k - 1])
    BY <2>2, <2>4, <2>5
  <2>7. f = [k \in 0 .. N |-> IF k = 0 THEN first ELSE Step(k, f[k - 1])]
    BY <2>5, <2>6
  <2>8. Goes(f)
    BY <2>7 DEF Step, N, first
  <2>9. QED
    BY <2>8
<1>6. Goes(tried)
  <2> HIDE DEF Goes
  <2>1. QED
    BY <1>5
<1> HIDE DEF tried
<1>7. \A k \in 0 .. N : tried[k] = IF k = 0 THEN first ELSE Step(k, tried[k - 1])
  BY <1>6
<1> HIDE DEF Goes, S, Step, first
<1>8. tried[0] = first /\ \A k \in 0 .. N - 1 : tried[k + 1] = Step(k + 1, tried[k])
  <2>1. 0 \in 0 .. N /\ \A k \in 0 .. N - 1 : k + 1 \in 0 .. N /\ k + 1 # 0 /\ (k + 1) - 1 = k
    BY <1>1
  <2>2. QED
    BY <1>7, <2>1
<1> DEFINE OK == {k \in 0 .. N : tried[k] \in S}
<1>9. 0 .. N \subseteq OK
  <2>1. 0 \in OK
    BY <1>1, <1>3, <1>8
  <2>2. ASSUME NEW k \in 0 .. N - 1, k \in OK PROVE k + 1 \in OK
    <3>1. k + 1 \in 1 .. N /\ k + 1 \in 0 .. N
      BY <1>1
    <3>2. tried[k] \in S
      BY <2>2
    <3>3. QED
      BY <1>4, <1>8, <2>2, <3>1, <3>2
  <2> HIDE DEF OK
  <2>3. QED
    BY <1>1, <2>1, <2>2, UpTo
<1>10. N \in 0 .. N
  BY <1>1
<1>11. QED
  BY <1>2, <1>9, <1>10 DEF OK, S

\* A packet is sent from the queue to its destination.
LEMMA DequeuedGood ==
  ASSUME Packets, NEW p \in Packet, pk[p].place = Queued, NEW careless
  PROVE  LET s == IpForward(HandledBy(pk[p], Src[p]), Dst[p])
         IN  s \in PacketState /\ Good(p, s, careless)
<1> DEFINE h == HandledBy(pk[p], Src[p])
           s == IpForward(h, Dst[p])
<1>1. Src[p] \in Node /\ Dst[p] \in Node /\ Src[p] # Dst[p]
  BY Network
<1>2. pk[p] \in PacketState /\ pk[p].by = <<>> /\ pk[p].ttl >= 1
  BY AtSource
<1>3. h \in PacketState /\ h.by = <<Src[p]>> /\ h.ttl >= 1 /\ h.wire = pk[p].wire
  BY <1>1, <1>2, Handled, First
<1> HIDE DEF h
<1>4. /\ s \in PacketState /\ s.place \in {Dst[p], Lost}
      /\ s.place \in Node => s.place = Dst[p] /\ s.ttl >= 1
      /\ s.by = <<Src[p]>> /\ s.wire = pk[p].wire
  BY <1>1, <1>3, Forwarded
<1> HIDE DEF s
<1>5. PICK path \in Carried : HasPath(pk[p].wire, path)
  <2>1. Headed(pk[p]) /\ Queued \notin {Fresh, Lost}
    BY PlacesDiffer DEF Packets, Good, PacketOK, Outcomes
  <2>2. QED
    BY <2>1 DEF Headed
<1>6. IsInjective(s.by) /\ Dst[p] \notin ToSet(s.by)
  BY <1>1, <1>4, First
<1>7. s.place \in Node \cup {Lost} /\ ~(s.place \in Node \ {Dst[p]})
  BY <1>1, <1>4
<1>8. Good(p, s, careless)
  BY <1>4, <1>5, <1>6, <1>7, HopGood
<1>9. QED
  BY <1>4, <1>8 DEF s, h

LEMMA CheckQueueInv ==
  ASSUME IInv, NEW n \in Node, CheckQueue(n)
  PROVE  IInv'
<1> DEFINE s == AllTried(n)
           dropped == s.failed \cup (ToSet(queue[n]) \cap expired)
           a == Filter(addresses[n], Node \ s.done)
<1>1. Vehicles /\ Tables /\ Maps /\ Packets /\ Queues /\ pos \in Layouts
  BY Parts
<1>2. /\ pos' = pos /\ UNCHANGED iface /\ UNCHANGED map /\ expired' = expired /\ moved' = moved
      /\ spent' = spent
      /\ IF Unexpired(queue[n]) = <<>> THEN UNCHANGED table ELSE Purge(n)
      /\ queue' = [queue EXCEPT ![n] = s.queue]
      /\ pk' = [p \in Packet |->
                  IF p \in s.sent THEN IpForward(HandledBy(pk[p], n), Dst[p])
                  ELSE IF p \in dropped THEN [pk[p] EXCEPT !.place = Lost] ELSE pk[p]]
      /\ addresses' = [addresses EXCEPT ![n] = Filter(@, Node \ s.done)]
      /\ timer' = IF addresses'[n] = <<>> THEN timer \ {n} ELSE timer
  BY DEF CheckQueue
<1>3. s \in Attempts(n)
  BY <1>1, AllTriedIs
<1> HIDE DEF s
<1>4. timer' \in SUBSET Node
  BY <1>1, <1>2 DEF Vehicles
<1>5. Vehicles' /\ Maps' /\ twice' = twice
  BY <1>1, <1>2, <1>4, VehiclesKept, MapsKept DEF Vehicles
<1>6. Tables'
  <2>1. CASE UNCHANGED table
    BY <1>1, <1>2, <2>1, TablesKept
  <2>2. CASE Purge(n)
    BY <1>1, <1>2, <2>2, Purged
  <2>3. QED
    BY <1>2, <2>1, <2>2
<1>7. /\ s.queue \in Seq(Packet) /\ Len(s.queue) <= MaxQueueLen /\ IsInjective(s.queue)
      /\ ToSet(s.queue) \subseteq ToSet(queue[n]) \ expired
      /\ s.sent \subseteq ToSet(queue[n]) /\ s.failed \subseteq ToSet(queue[n])
      /\ ToSet(s.queue) \cap (s.sent \cup s.failed) = {}
  BY <1>3 DEF Attempts
<1>8. \A o \in ToSet(queue[n]) : o \in Packet /\ Src[o] = n /\ pk[o].place = Queued
  BY <1>1, InQueue
<1>9. /\ dropped \subseteq ToSet(queue[n]) /\ ToSet(s.queue) \cap dropped = {}
  BY <1>7
<1> HIDE DEF dropped
<1>10. ASSUME NEW o \in Packet PROVE pk'[o] \in PacketState /\ Good(o, pk'[o], twice)
  <2>1. Good(o, pk[o], twice) /\ pk[o] \in PacketState /\ Lost \in Outcomes
    BY <1>1 DEF Packets, Outcomes
  <2>2. CASE o \in s.sent
    <3>1. Src[o] = n /\ pk[o].place = Queued
      BY <1>7, <1>8, <2>2
    <3>2. pk'[o] = IpForward(HandledBy(pk[o], Src[o]), Dst[o])
      BY <1>2, <2>2, <3>1
    <3>3. QED
      BY <1>1, <3>1, <3>2, DequeuedGood
  <2>3. CASE o \notin s.sent /\ o \in dropped
    BY <1>2, <2>1, <2>3, EndGood
  <2>4. CASE o \notin s.sent /\ o \notin dropped
    BY <1>2, <2>1, <2>4
  <2>5. QED
    BY <2>2, <2>3, <2>4
<1>11. pk' \in [Packet -> PacketState]
  <2>1. pk' = [o \in Packet |-> pk'[o]]
    BY <1>2
  <2>2. QED
    BY <1>10, <2>1
<1>12. \A o \in Packet : o \notin s.sent \cup dropped => pk'[o] = pk[o]
  BY <1>2
<1>13. QueueOK(n, s.queue, Waiting')
  <2>1. ASSUME NEW o \in ToSet(s.queue)
        PROVE  Src[o] = n /\ o \in Packet /\ pk'[o].place = Queued
    BY <1>7, <1>8, <1>9, <1>12
  <2>2. QED
    BY <1>7, <2>1 DEF QueueOK, Waiting
<1>14. \A o \in Packet : Src[o] # n /\ pk[o].place = Queued => pk'[o].place = Queued
  BY <1>7, <1>8, <1>9, <1>12
<1>15. a \in Seq(Node) /\ ToSet(a) \subseteq Node \ {n}
  <2>1. addresses[n] \in Seq(Node) /\ ToSet(addresses[n]) \subseteq Node \ {n}
    BY <1>1 DEF Queues
  <2>2. a \in Seq(Node) /\ ToSet(a) = ToSet(addresses[n]) \cap (Node \ s.done)
    BY <2>1, Filtered
  <2> HIDE DEF a
  <2>3. QED
    BY <2>1, <2>2
<1>16. addresses' = [addresses EXCEPT ![n] = a]
  <2>1. addresses' = [addresses EXCEPT ![n] = Filter(addresses[n], Node \ s.done)]
    BY <1>2
  <2>2. QED
    BY <2>1 DEF a
<1> HIDE DEF a
<1>17. Packets' /\ Queues'
  BY <1>1, <1>2, <1>5, <1>10, <1>11, <1>13, <1>14, <1>15, <1>16, OneQueue
<1>18. QED
  BY <1>5, <1>6, <1>17 DEF IInv

----------------------------------------------------------------------------
(* What a vehicle receives *)

LEMMA UnderWay ==
  ASSUME Packets, NEW p \in Packet, NEW n \in Node, pk[p].place = n
  PROVE  /\ pk[p] \in PacketState /\ pk[p].ttl >= 1 /\ Dst[p] \notin ToSet(pk[p].by)
         /\ \E path \in Carried : HasPath(pk[p].wire, path)
         /\ \/ moved \/ Excepted(p, twice)
            \/ /\ IsInjective(pk[p].by)
               /\ n # Dst[p] => \E path \in Trails : HasPath(pk[p].wire, path) /\ Leads(pk[p].by, n, path)
<1>1. n \notin Outcomes /\ n \notin {Fresh, Lost}
  BY PlacesDiffer DEF Outcomes
<1>2. PacketOK(p, pk[p]) /\ (moved \/ Excepted(p, twice) \/ Course(p, pk[p])) /\ pk[p] \in PacketState
  BY DEF Packets, Good
<1>3. Headed(pk[p]) /\ pk[p].ttl >= 1 /\ Dst[p] \notin ToSet(pk[p].by)
  BY <1>1, <1>2 DEF PacketOK
<1>4. \E path \in Carried : HasPath(pk[p].wire, path)
  BY <1>1, <1>3 DEF Headed
<1>5. Course(p, pk[p]) =>
        /\ IsInjective(pk[p].by)
        /\ n # Dst[p] => \E path \in Trails : HasPath(pk[p].wire, path) /\ Leads(pk[p].by, n, path)
  BY DEF Course
<1>6. QED
  BY <1>2, <1>3, <1>4, <1>5

\* To the destination, which is a neighbour.
LEMMA NeighborGood ==
  ASSUME Packets, pos \in Layouts, NEW p \in Packet, NEW n \in Node, pk[p].place = n, Dst[p] # n
  PROVE  LET s == IpForward(HandledBy(pk[p], n), Dst[p])
         IN  s \in PacketState /\ Good(p, s, twice)
<1> DEFINE h == HandledBy(pk[p], n)
           s == IpForward(h, Dst[p])
           by == pk[p].by
<1>1. Dst[p] \in Node
  BY Network
<1>2. /\ pk[p] \in PacketState /\ pk[p].ttl >= 1 /\ Dst[p] \notin ToSet(by)
      /\ \/ moved \/ Excepted(p, twice)
         \/ IsInjective(by) /\ \E path \in Trails : HasPath(pk[p].wire, path) /\ Leads(by, n, path)
  BY UnderWay
<1>3. by \in Seq(Node)
  BY <1>2, PacketFields
<1>4. PICK path \in Carried : HasPath(pk[p].wire, path)
  BY UnderWay
<1>5. h \in PacketState /\ h.by = Append(by, n) /\ h.ttl = pk[p].ttl /\ h.wire = pk[p].wire
  BY <1>2, Handled
<1> HIDE DEF h, by
<1>6. h.ttl >= 1
  BY <1>2, <1>5
<1>7. /\ s \in PacketState /\ s.place \in {Dst[p], Lost}
      /\ s.place \in Node => s.place = Dst[p] /\ s.ttl >= 1
      /\ s.by = Append(by, n) /\ s.wire = pk[p].wire
  BY <1>1, <1>5, <1>6, Forwarded
<1> HIDE DEF s
<1>8. /\ ToSet(Append(by, n)) = ToSet(by) \cup {n}
      /\ IsInjective(by) /\ n \notin ToSet(by) => IsInjective(Append(by, n))
  BY <1>3, OneMore
<1>9. Dst[p] \notin ToSet(s.by)
  BY <1>2, <1>7, <1>8
<1>10. moved \/ Excepted(p, twice) \/ IsInjective(s.by)
  BY <1>2, <1>7, <1>8, NotAgain
<1>11. s.place \in Node \cup {Lost} /\ ~(s.place \in Node \ {Dst[p]})
  BY <1>1, <1>7
<1>12. Good(p, s, twice)
  BY <1>4, <1>7, <1>9, <1>10, <1>11, HopGood
<1>13. QED
  BY <1>7, <1>12 DEF s, h

\* A header is written with another path.
LEMMA Rewritten ==
  ASSUME NEW r \in PacketState, NEW P \in Carried, HasPath(r.wire, P), NEW path \in Carried
  PROVE  LET w == WithPath(r, path)
         IN  /\ w \in PacketState /\ HasPath(w.wire, path)
             /\ w.place = r.place /\ w.ttl = r.ttl /\ w.by = r.by
<1> DEFINE h == DeserializeData(Tail(r.wire))
           v == SerializeData(DataHeader(h.src, h.dst, EncodePath(path)))
           w == WithPath(r, path)
<1>1. h.src \in Place /\ h.dst \in Place
  BY PathRead
<1>2. IsBytes(EncodePath(path), path)
  BY Encoded
<1> HIDE DEF h
<1>3. HasPath(v, path)
  BY <1>1, <1>2, HeaderWritten
<1>4. v \in Seq(Int)
  BY <1>3 DEF HasPath, IsWire
<1>5. w = [r EXCEPT !.wire = v]
  BY DEF WithPath, h
<1> HIDE DEF v, w
<1>6. w \in PacketState /\ w.wire = v /\ w.place = r.place /\ w.ttl = r.ttl /\ w.by = r.by
  BY <1>4, <1>5 DEF PacketState
<1>7. QED
  BY <1>3, <1>6 DEF w

\* To the next vehicle on the road.
LEMMA AlongGood ==
  ASSUME Packets, Tables, pos \in Layouts, NEW p \in Packet, NEW n \in Node, pk[p].place = n,
         Dst[p] # n, Len(ErasePassed(PathIn(pk[p]), pos[n])) >= 2,
         NEW m \in NextHops(n, ErasePassed(PathIn(pk[p]), pos[n]))
  PROVE  LET s == IpForward(WithPath(HandledBy(pk[p], n), ErasePassed(PathIn(pk[p]), pos[n])), m)
         IN  s \in PacketState /\ Good(p, s, twice)
<1> DEFINE by == pk[p].by
           path == ErasePassed(PathIn(pk[p]), pos[n])
           h == HandledBy(pk[p], n)
           w == WithPath(h, path)
           s == IpForward(w, m)
<1>1. /\ pk[p] \in PacketState /\ pk[p].ttl >= 1 /\ Dst[p] \notin ToSet(by)
      /\ \/ moved \/ Excepted(p, twice)
         \/ IsInjective(by) /\ \E P \in Trails : HasPath(pk[p].wire, P) /\ Leads(by, n, P)
  BY UnderWay
<1>2. by \in Seq(Node)
  BY <1>1, PacketFields
<1>3. PICK P \in Carried : HasPath(pk[p].wire, P)
  BY UnderWay
<1>4. PathIn(pk[p]) = P
  BY <1>3, PathRead
<1>5. P \in Trails
  <2> SUFFICES ASSUME P = <<>> PROVE FALSE
    BY DEF Carried
  <2>1. Len(<<>>) = 0
    OBVIOUS
  <2>2. path = <<>>
    BY <1>4, <2>1 DEF ErasePassed
  <2>3. QED
    BY <2>1, <2>2
<1>6. path = ErasePassed(P, pos[n]) /\ path \in Trails /\ path \in Carried
  BY <1>4, <1>5, ErasedIs, TrailIs
<1>7. m \in Node
  <2>1. m \in NextHops(n, path)
    OBVIOUS
  <2> HIDE DEF path
  <2>2. QED
    BY <1>6, <2>1, NextHopIs
<1>8. \/ moved \/ Excepted(p, twice)
      \/ IsInjective(by) /\ n \notin ToSet(by) /\ Leads(Append(by, n), m, path)
  <2>1. ASSUME ~moved, ~Excepted(p, twice)
        PROVE  IsInjective(by) /\ n \notin ToSet(by) /\ Leads(Append(by, n), m, path)
    <3>1. PICK R \in Trails : HasPath(pk[p].wire, R) /\ Leads(by, n, R)
      BY <1>1, <2>1
    <3>2. R \in Carried
      BY TrailIs
    <3>3. PathIn(pk[p]) = R
      BY <3>1, <3>2, PathRead
    <3>4. Leads(by, n, P)
      BY <1>4, <3>1, <3>3
    <3>5. m \in NextHops(n, ErasePassed(P, pos[n]))
      BY <1>4
    <3>6. Leads(Append(by, n), m, ErasePassed(P, pos[n]))
      BY <1>2, <1>5, <2>1, <3>4, <3>5, PassedOn
    <3>7. n \notin ToSet(by)
      BY <1>5, <3>4, NotAgain
    <3>8. QED
      BY <1>1, <1>6, <2>1, <3>6, <3>7
  <2>2. QED
    BY <2>1
<1> HIDE DEF path
<1>9. h \in PacketState /\ h.by = Append(by, n) /\ h.ttl = pk[p].ttl /\ h.wire = pk[p].wire
  BY <1>1, Handled
<1> HIDE DEF h, by
<1>10. w \in PacketState /\ HasPath(w.wire, path) /\ w.ttl = pk[p].ttl /\ w.by = Append(by, n)
  BY <1>3, <1>6, <1>9, Rewritten
<1> HIDE DEF w
<1>11. w.ttl >= 1
  BY <1>1, <1>10
<1>12. /\ s \in PacketState /\ s.place \in {m, Lost}
       /\ s.place \in Node => s.place = m /\ s.ttl >= 1
       /\ s.by = Append(by, n) /\ s.wire = w.wire
  BY <1>7, <1>10, <1>11, Forwarded
<1> HIDE DEF s
<1>13. /\ ToSet(Append(by, n)) = ToSet(by) \cup {n}
       /\ IsInjective(by) /\ n \notin ToSet(by) => IsInjective(Append(by, n))
  BY <1>2, OneMore
<1>14. Dst[p] \notin ToSet(s.by)
  BY <1>1, <1>12, <1>13 DEF by
<1>15. \/ moved \/ Excepted(p, twice)
       \/ /\ IsInjective(s.by)
          /\ s.place \in Node \ {Dst[p]} => path \in Trails /\ Leads(s.by, s.place, path)
  BY <1>6, <1>8, <1>12, <1>13
<1>16. s.place \in Node \cup {Lost} /\ HasPath(s.wire, path)
  BY <1>7, <1>10, <1>12
<1>17. Good(p, s, twice)
  BY <1>6, <1>12, <1>14, <1>15, <1>16, HopGood
<1>18. QED
  BY <1>12, <1>17 DEF s, w, h, path

LEMMA RouteInputInv ==
  ASSUME IInv, NEW p \in Packet, RouteInput(p)
  PROVE  IInv'
<1> DEFINE lost == [pk[p] EXCEPT !.place = Lost]
           delivered == [pk[p] EXCEPT !.place = Delivered]
<1>1. Vehicles /\ Tables /\ Maps /\ Packets /\ Queues /\ pos \in Layouts
  BY Parts
<1>2. PICK n \in Node :
        /\ pk[p].place = n
        /\ UNCHANGED <<pos, iface, map, defer, moved, spent>>
        /\ Local(p, n) \/ Forwarding(p, n) \/ Refuse(p, n)
  BY DEF RouteInput
<1>3. /\ pos' = pos /\ UNCHANGED iface /\ UNCHANGED map /\ queue' = queue /\ addresses' = addresses
      /\ timer' = timer /\ expired' = expired /\ moved' = moved /\ spent' = spent
  BY <1>2 DEF defer
<1>4. Vehicles' /\ Maps' /\ twice' = twice
  BY <1>1, <1>3, VehiclesKept, MapsKept DEF Vehicles
<1>5. Good(p, pk[p], twice) /\ pk[p] \in PacketState /\ Lost \in Outcomes /\ Delivered \in Outcomes
  BY <1>1 DEF Packets, Outcomes
<1>6. lost \in PacketState /\ Good(p, lost, twice)
  BY <1>5, EndGood
<1>7. delivered \in PacketState /\ Good(p, delivered, twice)
  BY <1>2, <1>5, EndGood
<1>8. DOMAIN pk = Packet
  BY <1>1 DEF Packets
<1>9. pk[p].place # Queued
  BY <1>2, PlacesDiffer
<1>10. ASSUME NEW s \in PacketState, Good(p, s, twice), pk' = [pk EXCEPT ![p] = s]
       PROVE  Packets' /\ Queues'
  BY <1>1, <1>3, <1>4, <1>9, <1>10, OneFreed
<1>11. CASE Local(p, n)
  <2>1. table' = table /\ pk' = [pk EXCEPT ![p] = delivered]
    BY <1>8, <1>11 DEF Local
  <2> HIDE DEF delivered
  <2>2. Tables'
    BY <1>1, <1>3, <2>1, TablesKept
  <2>3. QED
    BY <1>4, <1>7, <1>10, <2>1, <2>2 DEF IInv
<1>12. CASE Refuse(p, n)
  <2>1. table' = table /\ pk' = [pk EXCEPT ![p] = lost]
    BY <1>8, <1>12 DEF Refuse
  <2> HIDE DEF lost
  <2>2. Tables'
    BY <1>1, <1>3, <2>1, TablesKept
  <2>3. QED
    BY <1>4, <1>6, <1>10, <2>1, <2>2 DEF IInv
<1>13. CASE Forwarding(p, n)
  <2> DEFINE path == ErasePassed(PathIn(pk[p]), pos[n])
             hops == IF Len(path) < 2 THEN {} ELSE NextHops(n, path)
  <2>1. /\ Dst[p] # n /\ Purge(n)
        /\ ForwardToNeighbor(p, n) \/ ForwardAlongPath(p, n, path, hops) \/ ForwardingFails(p, n, hops)
    BY <1>13 DEF Forwarding
  <2>2. Tables'
    BY <1>1, <1>3, <2>1, Purged
  <2>3. CASE ForwardToNeighbor(p, n)
    <3> DEFINE s == IpForward(HandledBy(pk[p], n), Dst[p])
    <3>1. pk' = [pk EXCEPT ![p] = s]
      BY <1>8, <2>3 DEF ForwardToNeighbor
    <3>2. s \in PacketState /\ Good(p, s, twice)
      BY <1>1, <1>2, <2>1, NeighborGood
    <3> HIDE DEF s
    <3>3. QED
      BY <1>4, <1>10, <2>2, <3>1, <3>2 DEF IInv
  <2>4. CASE ForwardAlongPath(p, n, path, hops)
    <3>1. PICK m \in hops : pk' = [pk EXCEPT ![p] = IpForward(WithPath(HandledBy(@, n), path), m)]
      BY <2>4 DEF ForwardAlongPath
    <3> DEFINE s == IpForward(WithPath(HandledBy(pk[p], n), path), m)
    <3>2. pk' = [pk EXCEPT ![p] = s]
      BY <1>8, <3>1
    <3>3. path \in Carried
      <4>1. PICK P \in Carried : HasPath(pk[p].wire, P)
        BY <1>1, <1>2, UnderWay
      <4>2. PathIn(pk[p]) = P
        BY <4>1, PathRead
      <4>3. CASE P \in Trails
        BY <4>2, <4>3, ErasedIs, TrailIs
      <4>4. CASE P = <<>>
        <5>1. Len(<<>>) = 0
          OBVIOUS
        <5>2. path = <<>>
          BY <4>2, <4>4, <5>1 DEF ErasePassed
        <5>3. QED
          BY <5>2 DEF Carried
      <4>5. QED
        BY <4>3, <4>4 DEF Carried
    <3>4. Len(path) \in Nat
      BY <3>3, CarriedIs
    <3>5. Len(path) >= 2 /\ m \in NextHops(n, path)
      BY <3>4
    <3>6. s \in PacketState /\ Good(p, s, twice)
      BY <1>1, <1>2, <2>1, <3>5, AlongGood
    <3> HIDE DEF s
    <3>7. QED
      BY <1>4, <1>10, <2>2, <3>2, <3>6 DEF IInv
  <2>5. CASE ForwardingFails(p, n, hops)
    <3>1. pk' = [pk EXCEPT ![p] = lost]
      BY <1>8, <2>5 DEF ForwardingFails
    <3> HIDE DEF lost
    <3>2. QED
      BY <1>4, <1>6, <1>10, <2>2, <3>1 DEF IInv
  <2>6. QED
    BY <2>1, <2>3, <2>4, <2>5
<1>14. QED
  BY <1>2, <1>11, <1>12, <1>13

----------------------------------------------------------------------------
(* Neighbours, interfaces, time *)

\* Where no packet and no queue changes.
LEMMA OnlyVehicles ==
  ASSUME IInv, pk' = pk, UNCHANGED map, queue' = queue, addresses' = addresses,
         pos' = pos, moved' = moved, Vehicles', Tables'
  PROVE  IInv'
<1>1. Maps' /\ twice' = twice
  BY MapsKept DEF IInv
<1>2. Packets'
  <2>1. pk' \in [Packet -> PacketState] /\ \A p \in Packet : Good(p, pk'[p], twice')
    BY <1>1 DEF IInv, Packets
  <2>2. QED
    BY <2>1, PacketsKept
<1>3. Queues'
  BY QueuesKept DEF IInv
<1>4. QED
  BY <1>1, <1>2, <1>3 DEF IInv

LEMMA OneEvent ==
  ASSUME Vehicles, Event
  PROVE  spent' \in 0 .. MaxEvents
<1>1. MaxEvents \in Nat /\ spent \in 0 .. MaxEvents /\ spent < MaxEvents /\ spent' = spent + 1
  BY Network DEF Vehicles, Event
<1>2. QED
  BY <1>1

LEMMA ExpireInv ==
  ASSUME IInv, NEW p \in Packet, Expire(p)
  PROVE  IInv'
<1>1. Vehicles /\ Tables
  BY DEF IInv
<1>2. /\ Event /\ expired' = expired \cup {p} /\ pos' = pos /\ UNCHANGED iface /\ table' = table
      /\ UNCHANGED map /\ queue' = queue /\ addresses' = addresses /\ timer' = timer /\ pk' = pk
      /\ moved' = moved
  BY DEF Expire
<1>3. spent' \in 0 .. MaxEvents
  BY <1>1, <1>2, OneEvent
<1>4. timer' \in SUBSET Node /\ expired' \in SUBSET Packet
  BY <1>1, <1>2 DEF Vehicles
<1>5. Vehicles' /\ Tables'
  BY <1>1, <1>2, <1>3, <1>4, VehiclesKept, TablesKept
<1>6. QED
  BY <1>2, <1>5, OnlyVehicles

LEMMA LoseInv ==
  ASSUME IInv, NEW p \in Packet, Lose(p)
  PROVE  IInv'
<1> DEFINE s == [pk[p] EXCEPT !.place = Lost]
<1>1. Vehicles /\ Tables /\ Maps /\ Packets /\ Queues /\ pos \in Layouts
  BY Parts
<1>2. /\ pk[p].place \in Node /\ Event /\ pk' = [pk EXCEPT ![p].place = Lost]
      /\ pos' = pos /\ UNCHANGED iface /\ table' = table /\ UNCHANGED map
      /\ queue' = queue /\ addresses' = addresses /\ timer' = timer /\ expired' = expired
      /\ moved' = moved
  BY DEF Lose, defer
<1>3. spent' \in 0 .. MaxEvents
  BY <1>1, <1>2, OneEvent
<1>4. Vehicles' /\ Tables' /\ Maps' /\ twice' = twice
  BY <1>1, <1>2, <1>3, VehiclesKept, TablesKept, MapsKept DEF Vehicles
<1>5. Good(p, pk[p], twice') /\ Lost \in Outcomes
  BY <1>1, <1>4, StillGood DEF Outcomes
<1>6. s \in PacketState /\ Good(p, s, twice')
  BY <1>5, EndGood
<1>7. pk' = [pk EXCEPT ![p] = s]
  BY <1>1, <1>2 DEF Packets
<1>8. pk[p].place # Queued
  BY <1>2, PlacesDiffer
<1> HIDE DEF s
<1>9. Packets' /\ Queues'
  BY <1>1, <1>2, <1>4, <1>6, <1>7, <1>8, OneFreed
<1>10. QED
  BY <1>4, <1>9 DEF IInv

\* The entry that a hello makes is that of a vehicle where it is.
LEMMA Heard ==
  ASSUME Tables, pos \in Layouts, NEW n \in Node, NEW m \in Node, m # n
  PROVE  LET t == RecvHello(table[m], HelloPacket(n))
         IN  /\ t \in TablesOf(m) /\ t[n] = [pos |-> pos[n], road |-> OnRoad(n), old |-> FALSE]
             /\ \A o \in Node \ {n} : t[o] = table[m][o]
<1> DEFINE t == RecvHello(table[m], HelloPacket(n))
           e == [pos |-> pos[n], road |-> OnRoad(n), old |-> FALSE]
<1>1. pos[n] \in Place /\ OnRoad(n) \in Road
  BY RoadAtIs DEF OnRoad
<1>2. t = Update(table[m], n, pos[n])
  BY <1>1, HelloRead
<1>3. t = [table[m] EXCEPT ![n] = e]
  BY <1>2 DEF Update, OnRoad
<1>4. e \in Entry
  BY <1>1 DEF Entry
<1>5. table[m] \in [Node -> {None} \cup Entry] /\ table[m][m] = None
  BY DEF Tables, TablesOf
<1> HIDE DEF t, e
<1>6. t \in [Node -> {None} \cup Entry] /\ t[n] = e /\ \A o \in Node \ {n} : t[o] = table[m][o]
  BY <1>3, <1>4, <1>5
<1>7. t \in TablesOf(m)
  BY <1>5, <1>6 DEF TablesOf
<1>8. QED
  BY <1>6, <1>7 DEF t, e

LEMMA SendHelloInv ==
  ASSUME IInv, NEW n \in Node, SendHello(n)
  PROVE  IInv'
<1>1. Vehicles /\ Tables /\ Maps /\ Packets /\ Queues /\ pos \in Layouts
  BY Parts
<1>2. PICK missed \in {{}} \cup {{m} : m \in Node} :
        /\ IF missed = {} THEN UNCHANGED spent ELSE Event
        /\ table' = [m \in Node |-> IF m # n /\ m \in up \ missed /\ InRange(m, n)
                                    THEN RecvHello(table[m], HelloPacket(n)) ELSE table[m]]
  BY DEF SendHello
<1>3. /\ pos' = pos /\ UNCHANGED iface /\ UNCHANGED map /\ queue' = queue /\ addresses' = addresses
      /\ timer' = timer /\ expired' = expired /\ pk' = pk /\ moved' = moved
  BY DEF SendHello, defer
<1>4. spent' \in 0 .. MaxEvents
  BY <1>1, <1>2, OneEvent DEF Vehicles
<1>5. Vehicles'
  BY <1>1, <1>3, <1>4, VehiclesKept DEF Vehicles
<1>6. ASSUME NEW m \in Node
      PROVE  /\ table'[m] \in TablesOf(m)
             /\ \A o \in Node : table'[m][o] = table[m][o]
                                \/ table'[m][o] = [pos |-> pos[o], road |-> OnRoad(o), old |-> FALSE]
  <2>1. CASE m # n /\ m \in up \ missed /\ InRange(m, n)
    <3> DEFINE t == RecvHello(table[m], HelloPacket(n))
    <3>1. table'[m] = t
      BY <1>2, <2>1
    <3>2. /\ t \in TablesOf(m) /\ t[n] = [pos |-> pos[n], road |-> OnRoad(n), old |-> FALSE]
          /\ \A o \in Node \ {n} : t[o] = table[m][o]
      BY <1>1, <2>1, Heard
    <3> HIDE DEF t
    <3>3. QED
      BY <3>1, <3>2
  <2>2. CASE ~(m # n /\ m \in up \ missed /\ InRange(m, n))
    <3>1. table'[m] = table[m]
      BY <1>2, <2>2
    <3>2. QED
      BY <1>1, <3>1 DEF Tables
  <2>3. QED
    BY <2>1, <2>2
<1>7. table' \in [Node -> [Node -> {None} \cup Entry]]
  <2>1. table' = [m \in Node |-> table'[m]]
    BY <1>2
  <2>2. \A m \in Node : table'[m] \in [Node -> {None} \cup Entry]
    BY <1>6 DEF TablesOf
  <2>3. QED
    BY <2>1, <2>2
<1>8. ~moved => \A o, m \in Node : table'[o][m] # None =>
                  table'[o][m].pos = pos[m] /\ table'[o][m].road = OnRoad(m)
  <2> SUFFICES ASSUME ~moved, NEW o \in Node, NEW m \in Node, table'[o][m] # None
               PROVE  table'[o][m].pos = pos[m] /\ table'[o][m].road = OnRoad(m)
    OBVIOUS
  <2>1. table[o][m] # None => table[o][m].pos = pos[m] /\ table[o][m].road = OnRoad(m)
    BY <1>1 DEF Tables
  <2>2. table'[o][m] = table[o][m]
        \/ table'[o][m] = [pos |-> pos[m], road |-> OnRoad(m), old |-> FALSE]
    BY <1>6
  <2>3. QED
    BY <2>1, <2>2
<1>9. Tables'
  BY <1>3, <1>6, <1>7, <1>8 DEF Tables, OnRoad, TablesOf
<1>10. QED
  BY <1>3, <1>5, <1>9, OnlyVehicles

LEMMA AgeInv ==
  ASSUME IInv, NEW n \in Node, NEW m \in Node, Age(n, m)
  PROVE  IInv'
<1> DEFINE e == [table[n][m] EXCEPT !.old = TRUE]
           t == [table[n] EXCEPT ![m] = e]
<1>1. Vehicles /\ Tables /\ pos \in Layouts
  BY Parts
<1>2. /\ table[n][m] # None /\ Event /\ table' = [table EXCEPT ![n][m].old = TRUE]
      /\ pos' = pos /\ UNCHANGED iface /\ UNCHANGED map /\ queue' = queue /\ addresses' = addresses
      /\ timer' = timer /\ expired' = expired /\ pk' = pk /\ moved' = moved
  BY DEF Age, defer
<1>3. spent' \in 0 .. MaxEvents
  BY <1>1, <1>2, OneEvent
<1>4. Vehicles'
  BY <1>1, <1>2, <1>3, VehiclesKept DEF Vehicles
<1>5. table[n] \in [Node -> {None} \cup Entry] /\ table[n][n] = None /\ table[n][m] \in Entry
      /\ table \in [Node -> [Node -> {None} \cup Entry]] /\ \A o \in Node : table[o] \in TablesOf(o)
  BY <1>1, <1>2 DEF Tables, TablesOf
<1>6. e \in Entry /\ e.pos = table[n][m].pos /\ e.road = table[n][m].road
  BY <1>5 DEF Entry
<1>7. table' = [table EXCEPT ![n] = t]
  BY <1>2, <1>5
<1> HIDE DEF e
<1>8. t \in [Node -> {None} \cup Entry] /\ t[m] = e /\ \A o \in Node \ {m} : t[o] = table[n][o]
  BY <1>5, <1>6
<1> HIDE DEF t
<1>9. t[n] = None
  BY <1>2, <1>5, <1>8
<1>10. t \in TablesOf(n)
  BY <1>8, <1>9 DEF TablesOf
<1>11. /\ table' \in [Node -> [Node -> {None} \cup Entry]] /\ table'[n] = t
       /\ \A o \in Node \ {n} : table'[o] = table[o]
  BY <1>5, <1>7, <1>8
<1>12. \A o \in Node : table'[o] \in TablesOf(o)
  BY <1>5, <1>10, <1>11
<1>13. ~moved => \A o, q \in Node : table'[o][q] # None =>
                   table'[o][q].pos = pos[q] /\ table'[o][q].road = OnRoad(q)
  <2> SUFFICES ASSUME ~moved, NEW o \in Node, NEW q \in Node, table'[o][q] # None
               PROVE  table'[o][q].pos = pos[q] /\ table'[o][q].road = OnRoad(q)
    OBVIOUS
  <2>1. \A x, y \in Node : table[x][y] # None =>
          table[x][y].pos = pos[y] /\ table[x][y].road = OnRoad(y)
    BY <1>1 DEF Tables
  <2>2. CASE o = n /\ q = m
    BY <1>2, <1>6, <1>8, <1>11, <2>1, <2>2
  <2>3. CASE ~(o = n /\ q = m)
    <3>1. table'[o][q] = table[o][q]
      BY <1>8, <1>11, <2>3
    <3>2. QED
      BY <2>1, <3>1
  <2>4. QED
    BY <2>2, <2>3
<1>14. Tables'
  <2>1. pos' = pos /\ moved' = moved
    BY <1>2
  <2>2. table' \in [Node -> [Node -> {None} \cup Entry]]
    BY <1>11
  <2>3. QED
    BY <1>12, <1>13, <2>1, <2>2 DEF Tables, OnRoad, TablesOf
<1>15. QED
  BY <1>2, <1>4, <1>14, OnlyVehicles

\* A vehicle that forgets its neighbours.
LEMMA Cleared ==
  ASSUME Tables, pos' = pos, moved' = moved, NEW n \in Node, table' = [table EXCEPT ![n] = Clear]
  PROVE  Tables'
<1>1. Clear \in TablesOf(n) /\ \A m \in Node : Clear[m] = None
  BY DEF Clear, TablesOf
<1>2. table \in [Node -> [Node -> {None} \cup Entry]] /\ \A o \in Node : table[o] \in TablesOf(o)
  BY DEF Tables
<1>3. /\ table' \in [Node -> [Node -> {None} \cup Entry]] /\ table'[n] = Clear
      /\ \A o \in Node \ {n} : table'[o] = table[o]
  BY <1>1, <1>2 DEF TablesOf
<1>4. \A o \in Node : table'[o] \in TablesOf(o)
  BY <1>1, <1>2, <1>3
<1>5. \A o, m \in Node : table'[o][m] # None => table'[o][m] = table[o][m]
  BY <1>1, <1>3
<1>6. ~moved => \A o, m \in Node : table'[o][m] # None =>
                  table'[o][m].pos = pos[m] /\ table'[o][m].road = OnRoad(m)
  BY <1>5 DEF Tables
<1>7. QED
  BY <1>3, <1>4, <1>6 DEF Tables, OnRoad, TablesOf

LEMMA NotifyInterfaceDownInv ==
  ASSUME IInv, NEW n \in Node, NotifyInterfaceDown(n)
  PROVE  IInv'
<1>1. Vehicles /\ Tables
  BY DEF IInv
<1>2. /\ Event /\ running' = running \ {n} /\ up' = up \ {n} /\ table' = [table EXCEPT ![n] = Clear]
      /\ pos' = pos /\ addressed' = addressed /\ UNCHANGED map /\ queue' = queue
      /\ addresses' = addresses /\ timer' = timer /\ expired' = expired /\ pk' = pk /\ moved' = moved
  BY DEF NotifyInterfaceDown, SetDown, defer
<1>3. spent' \in 0 .. MaxEvents
  BY <1>1, <1>2, OneEvent
<1>4. Vehicles'
  BY <1>1, <1>2, <1>3 DEF Vehicles
<1>5. Tables'
  BY <1>1, <1>2, Cleared
<1>6. QED
  BY <1>2, <1>4, <1>5, OnlyVehicles

LEMMA NotifyInterfaceUpInv ==
  ASSUME IInv, NEW n \in Node, NotifyInterfaceUp(n)
  PROVE  IInv'
<1>1. Vehicles /\ Tables
  BY DEF IInv
<1>2. /\ n \in addressed /\ running' = running \cup {n} /\ up' = up \cup {n} /\ table' = table
      /\ pos' = pos /\ addressed' = addressed /\ UNCHANGED map /\ queue' = queue
      /\ addresses' = addresses /\ timer' = timer /\ expired' = expired /\ pk' = pk /\ moved' = moved
      /\ spent' = spent
  BY DEF NotifyInterfaceUp, SetUp, defer
<1>3. Vehicles'
  BY <1>1, <1>2 DEF Vehicles
<1>4. Tables'
  BY <1>1, <1>2, TablesKept
<1>5. QED
  BY <1>2, <1>3, <1>4, OnlyVehicles

LEMMA NotifyRemoveAddressInv ==
  ASSUME IInv, NEW n \in Node, NotifyRemoveAddress(n)
  PROVE  IInv'
<1>1. Vehicles /\ Tables
  BY DEF IInv
<1>2. /\ Event /\ addressed' = addressed \ {n} /\ up' = up \ {n}
      /\ table' = table \/ table' = [table EXCEPT ![n] = Clear]
      /\ pos' = pos /\ running' = running /\ UNCHANGED map /\ queue' = queue
      /\ addresses' = addresses /\ timer' = timer /\ expired' = expired /\ pk' = pk /\ moved' = moved
  BY DEF NotifyRemoveAddress, RemoveAddress, defer
<1>3. spent' \in 0 .. MaxEvents
  BY <1>1, <1>2, OneEvent
<1>4. Vehicles'
  BY <1>1, <1>2, <1>3 DEF Vehicles
<1>5. Tables'
  BY <1>1, <1>2, Cleared, TablesKept
<1>6. QED
  BY <1>2, <1>4, <1>5, OnlyVehicles

LEMMA NotifyAddAddressInv ==
  ASSUME IInv, NEW n \in Node, NotifyAddAddress(n)
  PROVE  IInv'
<1>1. Vehicles /\ Tables
  BY DEF IInv
<1>2. /\ addressed' = addressed \cup {n} /\ up' = (IF n \in running THEN up \cup {n} ELSE up)
      /\ table' = table
      /\ pos' = pos /\ running' = running /\ UNCHANGED map /\ queue' = queue
      /\ addresses' = addresses /\ timer' = timer /\ expired' = expired /\ pk' = pk /\ moved' = moved
      /\ spent' = spent
  BY DEF NotifyAddAddress, AddAddress, IsUp, defer
<1>3. Vehicles'
  BY <1>1, <1>2 DEF Vehicles
<1>4. Tables'
  BY <1>1, <1>2, TablesKept
<1>5. QED
  BY <1>2, <1>3, <1>4, OnlyVehicles

\* A vehicle has moved: nothing is promised any more of a packet's way.
LEMMA MoveInv ==
  ASSUME IInv, Move
  PROVE  IInv'
<1>1. Vehicles /\ Tables /\ Maps /\ Packets /\ Queues /\ pos \in Layouts
  BY Parts
<1>2. /\ Event /\ pos' \in Layouts /\ moved' = TRUE
      /\ UNCHANGED iface /\ table' = table /\ UNCHANGED map /\ queue' = queue
      /\ addresses' = addresses /\ timer' = timer /\ expired' = expired /\ pk' = pk
  BY DEF Move, defer
<1>3. spent' \in 0 .. MaxEvents
  BY <1>1, <1>2, OneEvent
<1>4. Vehicles'
  BY <1>1, <1>2, <1>3 DEF Vehicles, iface
<1>5. Maps'
  BY <1>1, <1>2, MapsKept
<1>6. Tables'
  BY <1>1, <1>2 DEF Tables, TablesOf
<1>7. Packets'
  <2>1. \A p \in Packet : PacketOK(p, pk[p])
    BY <1>1 DEF Packets, Good
  <2>2. pk' \in [Packet -> PacketState]
    BY <1>1, <1>2 DEF Packets
  <2>3. QED
    BY <1>2, <2>1, <2>2 DEF Packets, Good, PacketOK, Headed
<1>8. Queues'
  BY <1>1, <1>2, QueuesKept
<1>9. QED
  BY <1>4, <1>5, <1>6, <1>7, <1>8 DEF IInv

----------------------------------------------------------------------------
(* The invariant *)

LEMMA InitInv ==
  ASSUME Init
  PROVE  IInv
<1>1. pos \in Layouts /\ moved = FALSE
  BY DEF Init
<1>2. Vehicles
  <2>1. 0 \in 0 .. MaxEvents
    BY Network
  <2>2. QED
    BY <2>1 DEF Init, Vehicles
<1>3. Tables
  <2>1. ASSUME NEW n \in Node
        PROVE  /\ FirstHellos(n) \in TablesOf(n)
               /\ \A m \in Node : FirstHellos(n)[m] # None =>
                    FirstHellos(n)[m].pos = pos[m] /\ FirstHellos(n)[m].road = OnRoad(m)
    <3>1. ASSUME NEW m \in Node PROVE [pos |-> pos[m], road |-> OnRoad(m), old |-> FALSE] \in Entry
      BY <1>1, RoadAtIs DEF Entry, OnRoad
    <3>2. /\ FirstHellos(n) = [m \in Node |-> FirstHellos(n)[m]] /\ FirstHellos(n)[n] = None
          /\ \A m \in Node : FirstHellos(n)[m] = None
                             \/ FirstHellos(n)[m] = [pos |-> pos[m], road |-> OnRoad(m), old |-> FALSE]
      BY DEF FirstHellos, OnRoad
    <3>3. \A m \in Node : FirstHellos(n)[m] \in {None} \cup Entry
      BY <3>1, <3>2
    <3>4. FirstHellos(n) \in [Node -> {None} \cup Entry]
      BY <3>2, <3>3
    <3>5. \A m \in Node : FirstHellos(n)[m] # None =>
            FirstHellos(n)[m].pos = pos[m] /\ FirstHellos(n)[m].road = OnRoad(m)
      BY <3>2
    <3>6. QED
      BY <3>2, <3>4, <3>5 DEF TablesOf
  <2>2. table = [n \in Node |-> FirstHellos(n)]
    BY DEF Init
  <2>3. \A n \in Node : table[n] = FirstHellos(n)
    BY <2>2
  <2>4. table \in [Node -> [Node -> {None} \cup Entry]]
    BY <2>1, <2>2 DEF TablesOf
  <2>5. QED
    BY <2>1, <2>3, <2>4 DEF Tables
<1>4. Maps
  <2>1. Open \in TypesOfRoads
    BY DEF Open, TypesOfRoads, Road
  <2>2. QED
    BY <2>1 DEF Init, Maps
<1>5. Packets
  <2> DEFINE r == [place |-> Fresh, wire |-> <<>>, ttl |-> Ttl, by |-> <<>>]
  <2>1. r \in PacketState /\ r.place = Fresh /\ r.wire = <<>> /\ r.ttl >= 1 /\ r.by = <<>>
    <3>1. Ttl \in 0 .. Ttl /\ Ttl >= 1
      BY Network
    <3>2. QED
      BY <3>1 DEF PacketState, PlacesOfPackets
  <2> HIDE DEF r
  <2>2. ToSet(<<>>) = {} /\ IsInjective(<<>>)
    BY DEF ToSet, IsInjective
  <2>3. Fresh \notin Node
    BY PlacesDiffer
  <2>4. ASSUME NEW p \in Packet PROVE Good(p, r, twice)
    BY <2>1, <2>2, <2>3 DEF Good, PacketOK, Headed, Course
  <2>5. pk = [p \in Packet |-> r]
    BY DEF Init, r
  <2>6. QED
    BY <2>1, <2>4, <2>5 DEF Packets
<1>6. Queues
  <2>1. /\ queue \in [Node -> Seq(Packet)] /\ addresses \in [Node -> Seq(Node)]
        /\ \A n \in Node : queue[n] = <<>> /\ addresses[n] = <<>>
    BY DEF Init
  <2>2. ToSet(<<>>) = {} /\ IsInjective(<<>>) /\ Len(<<>>) <= MaxQueueLen
    <3>1. ToSet(<<>>) = {} /\ IsInjective(<<>>)
      BY DEF ToSet, IsInjective
    <3>2. Len(<<>>) = 0 /\ MaxQueueLen \in Nat
      BY Network
    <3>3. QED
      BY <3>1, <3>2
  <2>3. <<>> \in Seq(Packet)
    OBVIOUS
  <2>4. QED
    BY <2>1, <2>2, <2>3 DEF Queues, QueueOK
<1>7. QED
  BY <1>2, <1>3, <1>4, <1>5, <1>6 DEF IInv

LEMMA NextInv ==
  ASSUME IInv, [Next]_vars
  PROVE  IInv'
<1>1. CASE Scheduled
  <2>1. CASE \E p \in Packet : DeferredRouteOutput(p) \/ RouteInput(p)
    BY <2>1, DeferredInv, RouteInputInv
  <2>2. CASE \E p \in Packet : pk[p].place = Loopback /\ NoInterface(p)
    BY <2>2, NoInterfaceInv
  <2>3. CASE \E n \in Node : CheckQueue(n)
    BY <2>3, CheckQueueInv
  <2>4. QED
    BY <1>1, <2>1, <2>2, <2>3 DEF Scheduled
<1>2. CASE \E p \in Packet : RouteOutput(p) \/ NoInterface(p) \/ Lose(p) \/ Expire(p)
  BY <1>2, RouteOutputInv, NoInterfaceInv, LoseInv, ExpireInv
<1>3. CASE \E n \in Node : SendHello(n) \/ NotifyInterfaceDown(n) \/ NotifyInterfaceUp(n)
  BY <1>3, SendHelloInv, NotifyInterfaceDownInv, NotifyInterfaceUpInv
<1>4. CASE \E n \in Node : NotifyRemoveAddress(n) \/ NotifyAddAddress(n)
  BY <1>4, NotifyRemoveAddressInv, NotifyAddAddressInv
<1>5. CASE \E n, m \in Node : Age(n, m)
  BY <1>5, AgeInv
<1>6. CASE Move
  BY <1>6, MoveInv
<1>7. CASE UNCHANGED vars
  <2>1. /\ pos' = pos /\ UNCHANGED iface /\ table' = table /\ UNCHANGED map /\ queue' = queue
        /\ addresses' = addresses /\ timer' = timer /\ expired' = expired /\ pk' = pk
        /\ moved' = moved /\ spent' = spent
    BY <1>7 DEF vars, defer
  <2>2. Vehicles' /\ Tables'
    BY <2>1, VehiclesKept, TablesKept DEF IInv, Vehicles
  <2>3. QED
    BY <2>1, <2>2, OnlyVehicles
<1>8. QED
  BY <1>1, <1>2, <1>3, <1>4, <1>5, <1>6, <1>7 DEF Next

\* In every state the packets, queues, tables and maps are what the code relies on: a
\* packet on its way has a path in its header that leads from the vehicles that have
\* handled it to the one that is next (RouteOutput, RouteInput, Forwarding, CheckQueue).
THEOREM Invariant == Spec => []IInv
<1>1. Init => IInv
  BY InitInv
<1>2. IInv /\ [Next]_vars => IInv'
  BY NextInv
<1>3. QED
  BY <1>1, <1>2, PTL DEF Spec

LEMMA ImpliesTypes ==
  ASSUME IInv
  PROVE  TypeOK
<1>1. Vehicles /\ Tables /\ Maps /\ Packets /\ Queues
  BY DEF IInv
<1>2. /\ pos \in Layouts
      /\ running \subseteq Node /\ addressed \subseteq Node /\ up = running \cap addressed
      /\ timer \subseteq Node /\ twice \subseteq Node /\ expired \subseteq Packet
      /\ moved \in BOOLEAN /\ spent \in 0 .. MaxEvents
  BY <1>1 DEF Vehicles, Maps
<1>3. ASSUME NEW n \in Node
      PROVE  /\ n \in DOMAIN table /\ DOMAIN table[n] = Node
             /\ table[n][n] = None
             /\ types[n] \in [DOMAIN Roads -> {RoadType, IntMax}]
             /\ Len(queue[n]) <= MaxQueueLen
             /\ ToSet(queue[n]) \subseteq Packet
             /\ ToSet(addresses[n]) \subseteq Node \ {n}
  <2>1. n \in DOMAIN table /\ DOMAIN table[n] = Node /\ table[n][n] = None
    BY <1>1 DEF Tables, TablesOf
  <2>2. types[n] \in [DOMAIN Roads -> {RoadType, IntMax}]
    BY <1>1 DEF Maps, TypesOfRoads, Road
  <2>3. Len(queue[n]) <= MaxQueueLen /\ ToSet(queue[n]) \subseteq Packet
    BY <1>1, InQueue
  <2>4. ToSet(addresses[n]) \subseteq Node \ {n}
    BY <1>1 DEF Queues
  <2>5. QED
    BY <2>1, <2>2, <2>3, <2>4
<1>4. ASSUME NEW p \in Packet
      PROVE  /\ pk[p].place \in Node \cup {Fresh, Loopback, Queued, Delivered, Lost}
             /\ pk[p].ttl \in 0 .. Ttl
             /\ pk[p].place # Fresh /\ pk[p].wire # <<>> => ToSet(PathIn(pk[p])) \subseteq Crossing
             /\ ToSet(pk[p].by) \subseteq Node
  <2>1. pk[p] \in PacketState /\ Headed(pk[p])
    BY <1>1 DEF Packets, Good, PacketOK
  <2>2. pk[p].place \in PlacesOfPackets /\ pk[p].ttl \in 0 .. Ttl /\ pk[p].by \in Seq(Node)
    BY <2>1, PacketFields
  <2>3. pk[p].place \in Node \cup {Fresh, Loopback, Queued, Delivered, Lost}
    BY <2>2 DEF PlacesOfPackets, Outcomes
  <2>4. ToSet(pk[p].by) \subseteq Node
    BY <2>2, Members
  <2>5. ASSUME pk[p].wire # <<>> PROVE ToSet(PathIn(pk[p])) \subseteq Crossing
    <3>1. PICK path \in Carried : HasPath(pk[p].wire, path)
      BY <2>1, <2>5 DEF Headed
    <3>2. PathIn(pk[p]) = path /\ path \in Seq(Crossing)
      BY <3>1, PathRead, CarriedIs
    <3>3. ToSet(path) \subseteq Crossing
      BY <3>2, Members
    <3>4. QED
      BY <3>2, <3>3
  <2>6. QED
    BY <2>2, <2>3, <2>4, <2>5
<1>5. QED
  BY <1>2, <1>3, <1>4 DEF TypeOK

\* What the vehicles keep has its type, a queue never holds more than it may, and every
\* path that a header carries is one of crossings, whatever the map and the traffic.
THEOREM TypeCorrect == Spec => []TypeOK
<1>1. IInv => TypeOK
  BY ImpliesTypes
<1>2. QED
  BY Invariant, <1>1, PTL

\* getPaths: searches leave the map of a vehicle as open as it was, unless a path found
\* ran over a road that an earlier one of the same search had closed.
THEOREM RoadsReopened == Spec => []RoadsReopen
<1>1. IInv => RoadsReopen
  BY DEF IInv, Maps, RoadsReopen
<1>2. QED
  BY Invariant, <1>1, PTL

\* Forwarding and find_next_hop: while no vehicle moves none handles a packet twice, on
\* every map, with every placement of the vehicles and however frames and hellos are lost.
THEOREM NotTwice == Spec => []NoVehicleTwice
<1>1. IInv => NoVehicleTwice
  BY DEF IInv, Packets, Good, Course, Excepted, OnRoad, NoVehicleTwice
<1>2. QED
  BY Invariant, <1>1, PTL
=============================================================================
