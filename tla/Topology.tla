------------------------------ MODULE Topology -------------------------------
(***************************************************************************)
(* Obstacles and what a radio signal loses behind them (NS3/obstacle), with *)
(* the cache of losses that all channels of a simulation share.             *)
(*                                                                          *)
(* Coordinates are integer, in units of Unit metres.  Lengths are rounded   *)
(* down to metres and losses are in fortieths of a decibel.                 *)
(***************************************************************************)
EXTENDS Integers, Sequences, FiniteSets, FiniteSetsExt, SequencesExt, TLC

CONSTANTS
  Unit,        \* in metres
  Window,      \* how far around the line of sight obstacles are looked for, in metres
  CacheSize    \* the cache is cleared when it holds more losses than this

ASSUME TopologyAssumption == {Unit, Window, CacheSize} \subseteq Nat \ {0}

Minus(a, b) == <<a[1] - b[1], a[2] - b[2]>>
Cross(v, w) == v[1] * w[2] - v[2] * w[1]
Dot(v, w)   == v[1] * w[1] + v[2] * w[2]

Distance(a, b) == Dot(Minus(a, b), Minus(a, b))   \* its square

----------------------------------------------------------------------------
(* Loading *)

\* A polygon in the file is of a type and has a shape; types begin with these words.
IsBuilding(poly) == poly.type \in {"building", "unknown"}

\* Locate: the "center" of an obstacle is the upper right corner of its bounding box.
Locate(vertices) ==
  <<Max({v[1] : v \in ToSet(vertices)}), Max({v[2] : v \in ToSet(vertices)})>>

\* CreateShape: every vertex but the last, which closes the shape.
CreateShape(shape) == [vertices |-> Front(shape), center |-> Locate(Front(shape))]

\* LoadBuildings
LoadBuildings(file) ==
  [k \in DOMAIN SelectSeq(file, IsBuilding) |-> CreateShape(SelectSeq(file, IsBuilding)[k].shape)]

HasObstacles(obstacles) == obstacles # <<>>

----------------------------------------------------------------------------
(* The line of sight from p to q.  A point on it is the part of the way to it, a         *)
(* fraction <<a, b>> with b > 0.                                                          *)

Before(s, t) == s[1] * t[2] < t[1] * s[2]

Edges(vertices) == [k \in DOMAIN vertices |-> <<vertices[k], vertices[(k % Len(vertices)) + 1]>>]

\* The intersection with a wall that is not parallel to the way: where the two lines
\* meet, as parts of the way and of the wall, over |d|.
Meeting(way, wall, to, d) ==
  LET sign == IF d > 0 THEN 1 ELSE -1
      t    == sign * Cross(to, wall)
  IN  IF t \in 0 .. sign * d /\ sign * Cross(to, way) \in 0 .. sign * d
        THEN {<<t, sign * d>>} ELSE {}

\* And with one on the same line, which covers the way from a to b of n: a point only if
\* the two merely touch.
Touching(a, b, n) == {<<x, n>> : x \in {y \in {Max({0, Min({a, b})})} : y = Min({n, Max({a, b})})}}

\* CGAL::intersection, where it is a point: none for an edge along the line.
Intersection(way, wall, to) ==
  IF Cross(way, wall) # 0 THEN Meeting(way, wall, to, Cross(way, wall))
  ELSE IF Cross(to, way) = 0
    THEN Touching(Dot(to, way), Dot(to, way) + Dot(wall, way), Dot(way, way))
    ELSE {}

Hit(p, q, edge) == Intersection(Minus(q, p), Minus(edge[2], edge[1]), Minus(edge[1], p))

Metres(p, q) ==
  LET d2 == Distance(p, q) * Unit * Unit
  IN  CHOOSE d \in 0 .. Unit * (Max({1, q[1] - p[1], p[1] - q[1]}) + Max({1, q[2] - p[2], p[2] - q[2]})) :
        d * d <= d2 /\ d2 < (d + 1) * (d + 1)

Nearest(met)  == CHOOSE s \in met : \A t \in met : ~Before(t, s)
Farthest(met) == CHOOSE s \in met : \A t \in met : ~Before(s, t)

\* through tells apart a way of less than a metre and none.
Inside(first, last, metres, walls) ==
  [intersections |-> walls, through |-> Before(first, last),
   distance |-> IF Before(first, last)
                  THEN ((last[1] * first[2] - first[1] * last[2]) * metres) \div (last[2] * first[2])
                  ELSE 0]

\* GetObstructedDistance: how many edges the line meets, and how far it is from the first
\* to the last.
GetObstructedDistance(p, q, obstacle) ==
  LET hits == {<<e, Hit(p, q, e)>> : e \in Range(Edges(obstacle.vertices))}
      met  == UNION {h[2] : h \in hits}
  IN  IF met = {} THEN [intersections |-> 0, through |-> FALSE, distance |-> 0]
      ELSE Inside(Nearest(met), Farthest(met), Metres(p, q), Cardinality({h \in hits : h[2] # {}}))

\* Every obstacle has the constructor's factors.
Beta  == 360
Gamma == 16

\* What an obstacle takes: Beta for every wall, Gamma for every metre, less for beacons.
Taken(o, forBeacon) ==
  LET walls == IF o.distance < 2 THEN 1 ELSE o.intersections
      lost  == Beta * walls + Gamma * o.distance
  IN  IF o.through /\ o.intersections > 1
        THEN IF forBeacon THEN (3 * lost) \div 4 ELSE lost
        ELSE 0

Obstruction(p, q, obstacle, forBeacon) == Taken(GetObstructedDistance(p, q, obstacle), forBeacon)

\* The window query finds obstacles by their "center".
InWindow(p, q, obstacle) ==
  \A axis \in {1, 2} :
    LET c == obstacle.center[axis] * Unit
    IN  /\ Min({p[axis], q[axis]}) * Unit - Window <= c
        /\ c <= Max({p[axis], q[axis]}) * Unit + Window

NoSignal == 9999 * 40

\* What is lost between p and q on a channel.
Loss(obstacles, p, q, channel) ==
  IF Distance(p, q) * Unit * Unit < channel.maxDistance * channel.maxDistance
    THEN FoldLeft(LAMBDA sum, o : sum + (IF InWindow(p, q, o)
                                           THEN Obstruction(p, q, o, channel.forBeacon) ELSE 0),
                  0, obstacles)
    ELSE NoSignal

----------------------------------------------------------------------------
(* The cache: a function from pairs of positions to the loss between them *)

NoLosses == [pair \in {} |-> 0]

\* GetObstructedLossBetween: the cache that it leaves behind, when loss is what the
\* channel takes between two places.  B to A is the same as A to B; the channel is not
\* part of the key.
Remember(cache, loss, p, q) ==
  LET kept == IF Cardinality(DOMAIN cache) > CacheSize THEN NoLosses ELSE cache
  IN  IF <<p, q>> \in DOMAIN cache \/ <<q, p>> \in DOMAIN cache THEN cache
      ELSE [pair \in DOMAIN kept \cup {<<p, q>>} |->
              IF pair \in DOMAIN kept THEN kept[pair] ELSE loss[pair]]

\* And the loss it returns.
GetLoss(cache, loss, p, q) ==
  IF <<p, q>> \in DOMAIN cache THEN cache[<<p, q>>]
  ELSE IF <<q, p>> \in DOMAIN cache THEN cache[<<q, p>>]
  ELSE loss[<<p, q>>]
=============================================================================
