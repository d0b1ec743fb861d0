----------------------------- MODULE GeoSvrMap ------------------------------
(***************************************************************************)
(* The road map of NS3/geoSVR/model/geoSVR-map.cc: which road a place is on, *)
(* and the search for a path that takes shortest paths one after the other,  *)
(* closing the roads of each for the next, and then restores them.           *)
(*                                                                           *)
(* A road's number is its place in the constructor's list.  Distances are    *)
(* compared by their squares.  Which of several shortest paths               *)
(* dijkstra_shortest_paths finds is left open.                               *)
(***************************************************************************)
EXTENDS Integers, Sequences, FiniteSets, FiniteSetsExt, SequencesExt

CONSTANTS
  Crossing,       \* the junctions' numbers
  Point,          \* where they are
  Roads,          \* sequence of <<source, target>>
  RoadType,       \* the type of every road
  IntMax,         \* the greatest int: the type of a closed road
  RoadPad, PadStep,
  NoRoad

\* A path of all crossings and one more has to fit into the bytes of a header.
ASSUME GeoSvrMapAssumption ==
  /\ Crossing \subseteq 0 .. 255 /\ Cardinality(Crossing) < 255
  /\ Point \in [Crossing -> Int \X Int]
  /\ Roads \in Seq(Crossing \X Crossing) /\ Roads # <<>>
  /\ \A r \in DOMAIN Roads : Roads[r][1] < Roads[r][2]
  /\ IsInjective(Roads)
  /\ RoadType \in Nat \ {0} /\ IntMax \in Nat /\ IntMax > RoadType * Cardinality(Crossing)
  /\ RoadPad \in Nat /\ PadStep \in Nat \ {0}
  /\ NoRoad \notin DOMAIN Roads

Distance(p, q) == (p[1] - q[1]) * (p[1] - q[1]) + (p[2] - q[2]) * (p[2] - q[2])

Ends(r) == {Roads[r][1], Roads[r][2]}

OtherEnd(r, v) == IF Roads[r][1] = v THEN Roads[r][2] ELSE Roads[r][1]

RoadsAt(v) == {r \in DOMAIN Roads : v \in Ends(r)}

Open == [r \in DOMAIN Roads |-> RoadType]

----------------------------------------------------------------------------
(* Places and roads *)

\* How far the place is outside the box around the road's ends, and how often that box
\* has grown when it holds the place.
Outside(r, p) ==
  LET ends(i) == {Point[v][i] : v \in Ends(r)}
  IN  Max({Min(ends(1)) - p[1], p[1] - Max(ends(1)), Min(ends(2)) - p[2], p[2] - Max(ends(2))})

Growths(r, p) ==
  IF Outside(r, p) <= RoadPad THEN 0 ELSE (Outside(r, p) - RoadPad + PadStep - 1) \div PadStep

\* The boxes grow until one holds the place.
Boxes(p) == {r \in DOMAIN Roads : \A o \in DOMAIN Roads : Growths(r, p) <= Growths(o, p)}

\* getRoadByPos: of several roads the one met first, walking the vertices and their
\* neighbours in order.
RoadByPos(p) ==
  LET before(r, o) == \/ Roads[r][1] < Roads[o][1]
                      \/ Roads[r][1] = Roads[o][1] /\ r <= o
  IN  CHOOSE r \in Boxes(p) : \A o \in Boxes(p) : before(r, o)

RoadBetween ==
  [e \in Crossing \X Crossing |->
     LET between == {r \in DOMAIN Roads : Ends(r) = {e[1], e[2]}}
     IN  IF between = {} THEN NoRoad ELSE Min(between)]

RoadByNode(u, v) == RoadBetween[u, v]

\* The end of road r that is nearer to p, the target if both are as near.
NearerEnd(r, p) ==
  IF Distance(Point[Roads[r][1]], p) < Distance(Point[Roads[r][2]], p)
  THEN Roads[r][1] ELSE Roads[r][2]

\* getSrcAndDst: the ends the two places' roads turn towards each other; on one road
\* its ends, in the direction from the first place to the second.
SrcAndDst(p, q) ==
  LET s     == RoadByPos(p)
      d     == RoadByPos(q)
      start == Point[Roads[s][1]]
      first == NearerEnd(s, q)
      last  == NearerEnd(d, p)
  IN  IF s = d
      THEN IF Distance(start, p) < Distance(start, q) THEN Roads[s]
                                                      ELSE <<Roads[s][2], Roads[s][1]>>
      ELSE <<first, IF last = first THEN OtherEnd(d, last) ELSE last>>

----------------------------------------------------------------------------
(* The search; types says of every road its present type *)

HasNextPath(types, src, dst) ==
  \E r \in RoadsAt(dst) :
    /\ types[r] # IntMax
    /\ Distance(Point[src], Point[dst]) > Distance(Point[src], Point[OtherEnd(r, dst)])

\* The paths without repetition, by their number of roads.
SimplePaths(src) ==
  LET paths[k \in 0 .. Cardinality(Crossing) - 1] ==
        IF k = 0 THEN {<<src>>}
        ELSE UNION {{Append(p, OtherEnd(r, Last(p))) :
                       r \in {o \in RoadsAt(Last(p)) : OtherEnd(o, Last(p)) \notin ToSet(p)}} :
                    p \in paths[k - 1]}
  IN  UNION {paths[k] : k \in DOMAIN paths}

RoadsOf(path) == [k \in 1 .. Len(path) - 1 |-> RoadByNode(path[k], path[k + 1])]

Types(types, path) == [k \in 1 .. Len(path) - 1 |-> types[RoadsOf(path)[k]]]

SumOf(s) ==
  LET sum[k \in 0 .. Len(s)] == IF k = 0 THEN 0 ELSE sum[k - 1] + s[k]
  IN  sum[Len(s)]

ShortestPaths(types, src, dst) ==
  LET between == {p \in SimplePaths(src) : Last(p) = dst}
      least   == Min({SumOf(Types(types, p)) : p \in between})
  IN  {p \in between : SumOf(Types(types, p)) = least}

\* The roads of a path get the types that are given in its order.
WithTypes(types, path, new) ==
  [r \in DOMAIN types |->
     LET k == SelectInSeq(RoadsOf(path), LAMBDA o : o = r) IN IF k = 0 THEN types[r] ELSE new[k]]

Close(types, path) == WithTypes(types, path, [k \in 1 .. Len(path) - 1 |-> IntMax])

\* The loop of getPaths keeps of every path found the types its roads had, and leaves the
\* map with the types left.  These are the types when the k-th is looked for.
Before(types, found, k) == IF k = 1 THEN types ELSE found[k - 1].left

\* One more path is found and its roads are closed.
FoundNext(types, src, dst, found) ==
  LET now == Before(types, found, Len(found) + 1)
  IN  {Append(found, [path |-> p, types |-> Types(now, p), left |-> Close(now, p)]) :
         p \in ShortestPaths(now, src, dst)}

\* All that can be found until no road is left that leads back from the destination.  A
\* round that closes no road changes nothing and comes again for ever, so that a loop that
\* ends has no more rounds than there are roads.
Found(types, src, dst) ==
  LET goesOn(found) == HasNextPath(Before(types, found, Len(found) + 1), src, dst)
      rounds[k \in 0 .. Len(Roads)] ==
        IF k = 0 THEN {<<>>}
        ELSE UNION {FoundNext(types, src, dst, f) : f \in {g \in rounds[k - 1] : goesOn(g)}}
  IN  {f \in UNION {rounds[k] : k \in 0 .. Len(Roads)} : ~goesOn(f)}

\* Mutant of Restored: the roads of the first path are forgotten.
RestoredButFirst(types, found) ==
  LET back[k \in 0 .. Len(found)] ==
        IF k < 2 THEN Before(types, found, Len(found) + 1)
        ELSE WithTypes(back[k - 1], found[k].path, found[k].types)
  IN  back[Len(found)]

\* The types are restored in the order in which the paths were found: a road that two
\* paths ran over keeps the type it had for the last of them, which is closed.
Restored(types, found) ==
  LET back[k \in 0 .. Len(found)] ==
        IF k = 0 THEN Before(types, found, Len(found) + 1)
        ELSE WithTypes(back[k - 1], found[k].path, found[k].types)
  IN  back[Len(found)]

\* A sum of ints wraps around.
Int32(n) == ((n + IntMax + 1) % (2 * (IntMax + 1))) - (IntMax + 1)

\* The deviation of the types is 0; after an overflow the mean is undefined.
Even(types) == Cardinality(ToSet(types)) = 1 /\ SumOf(types) <= IntMax

\* findMeanMin: the one path with the least sum, else the first with no deviation.
FindMeanMin(found) ==
  LET sum(k) == Int32(SumOf(found[k].types))
      least  == {k \in DOMAIN found : \A l \in DOMAIN found : sum(k) <= sum(l)}
      even   == {k \in DOMAIN found : Even(found[k].types)}
  IN  CASE Cardinality(least) = 1 /\ \A k \in least : sum(k) < IntMax -> least
        [] OTHER -> IF even # {} THEN {Min(even)} ELSE DOMAIN found

\* Mutant of AddLastRoad: the road is appended, not its end.
AddLastRoadItself(path, q) ==
  LET n == Len(path)
      d == RoadByPos(q)
  IN  IF {path[n - 1], path[n]} = Ends(d) THEN path ELSE Append(path, d)

\* If the path does not end with the destination's road, that is appended.
AddLastRoad(path, q) ==
  LET n == Len(path)
      d == RoadByPos(q)
  IN  IF {path[n - 1], path[n]} = Ends(d) THEN path
      ELSE Append(path, IF path[n] = Roads[d][1] THEN Roads[d][2] ELSE Roads[d][1])

\* getPaths: the possible results with the types the map is left with.  twice: a path
\* ran over a road that an earlier one had closed.
GetPaths(types, p, q) ==
  LET ends == SrcAndDst(p, q)
  IN  UNION {
        IF found = <<>>
        THEN {[path |-> AddLastRoad(ends, q), types |-> types, twice |-> FALSE]}
        ELSE {[path  |-> AddLastRoad(found[k].path, q),
               types |-> Restored(types, found),
               twice |-> \E f \in ToSet(found) : IntMax \in ToSet(f.types)] :
              k \in FindMeanMin(found)} :
        found \in Found(types, ends[1], ends[2])}
=============================================================================
