------------------------------- MODULE SumoMap -------------------------------
(***************************************************************************)
(* The simulator's road map (wave/model/graph.cc).  Its lists of vertices   *)
(* and edges are those of the kernel module, and the functions on them that *)
(* are the same are RoadMap's; it looks vertices up by geohash and by       *)
(* distance, and reports every crossing at which a path of just two roads   *)
(* changes from one to the other.                                           *)
(*                                                                          *)
(* A vertex is at a point, and distances between points are in metres.      *)
(***************************************************************************)
EXTENDS RoadMap

CONSTANTS
  Distance(_, _),   \* between two points (get_distance)
  InSquare(_, _),   \* the second point is within LAT_STEP and LON_STEP of the first
  Geohash(_),       \* the block of a point (geohash_fast_encode)
  Wild              \* a pointer that was never assigned

----------------------------------------------------------------------------
(* The vertex a vehicle is at *)

\* The first vertex of the list "among" with the least distance to p.
Closest(mem, among, p) ==
  LET distance(k) == Distance(mem[among[k]].at, p)
      nearest == {k \in DOMAIN among : \A l \in DOMAIN among : distance(k) <= distance(l)}
  IN  among[Min(nearest)]

\* find_vertex_by_square
FindVertexBySquare(vertices, mem, p) ==
  LET inside == SelectSeq(vertices, LAMBDA h : InSquare(p, mem[h].at) /\ Distance(mem[h].at, p) < 999)
  IN  IF inside = <<>> THEN Wild ELSE Closest(mem, inside, p)

\* The three vertices whose geohash differs least, in this order.
NearestByGeohash(vertices, mem, geohash) ==
  LET distance(h) == GeohashCompare(mem[h].geoHash, geohash)
      insert(best, h) ==
        LET k == SelectInSeq(best, LAMBDA o : distance(h) < distance(o))
        IN  IF k = 0 THEN Append(best, h) ELSE InsertAt(best, k, h)
  IN  FoldLeft(LAMBDA best, h : SubSeq(insert(best, h), 1, Min({3, Len(best) + 1})), <<>>, vertices)

\* find_Vertex_by_VehiclePosition: neighbouring blocks can have distant numbers, so
\* a vertex more than 100 metres away is not believed.
FindVertexByVehiclePosition(vertices, mem, geohash, p) ==
  LET near == SelectSeq(NearestByGeohash(vertices, mem, geohash),
                        LAMBDA h : Distance(mem[h].at, p) <= 100)
  IN  IF near = <<>> THEN FindVertexBySquare(vertices, mem, p) ELSE Closest(mem, near, p)

----------------------------------------------------------------------------
(* Crossings *)

\* The places in the queue on the way from place k back to the start.
PathBack(queue, k) ==
  LET path[j \in DOMAIN queue] ==
        IF queue[j].ancest = 0 THEN <<j>> ELSE <<j>> \o path[queue[j].ancest]
  IN  path[k]

\* print_crossnode: where the path changes from one road to another, if it does so
\* only once.
PrintChange(queue, target) ==
  LET path    == PathBack(queue, target)
      changes == {i \in 2 .. Len(path) - 1 : queue[path[i]].road_id # queue[path[i - 1]].road_id}
  IN  IF Cardinality(changes) = 1 THEN queue[path[CHOOSE i \in changes : TRUE]].v ELSE Null

\* find_vertex: a vertex that is queued but not yet expanded gets the vertex under
\* expansion, at place k, as its new ancestor.
Reparent(queue, v, k) ==
  LET j == SelectInSeq(queue, LAMBDA e : e.v = v)
  IN  IF j >= k THEN [queue EXCEPT ![j].ancest = k] ELSE queue

\* One edge of the vertex at place k.  Once the target was found, every edge asks
\* for the crossing on the target's path as it is now.
Look(mem, to, k, s, edge) ==
  LET known  == FindVertex(s.queue, edge.vertex)
      isTo   == mem[edge.vertex].idStr = mem[to].idStr
      queue  == IF known THEN Reparent(s.queue, edge.vertex, k)
                ELSE Append(s.queue, [v |-> edge.vertex, ancest |-> k, road_id |-> edge.road_id])
      target == IF ~known /\ isTo THEN Len(queue) ELSE s.target
      flag   == s.flag \/ (isTo /\ target # 0)
      x      == IF flag THEN PrintChange(queue, target) ELSE Null
  IN  [queue |-> queue, target |-> target, flag |-> flag,
       list |-> IF x # Null /\ x \notin ToSet(s.list) THEN Append(s.list, x) ELSE s.list]

\* The vertex at place k of the queue is expanded, unless the search has ended, at the
\* target or with the queue.
Expand(mem, to, k, s) ==
  IF k > Len(s.queue) \/ \E j \in 1 .. k : mem[s.queue[j].v].idStr = mem[to].idStr
  THEN s
  ELSE FoldLeft(LAMBDA t, edge : Look(mem, to, k, t, edge), s, mem[s.queue[k].v].edges)

\* cross_vertex: the list of crossings between two vertices.
CrossVertices(mem, from, to) ==
  FoldLeft(LAMBDA s, k : Expand(mem, to, k, s),
           [queue |-> <<[v |-> from, ancest |-> 0, road_id |-> Null]>>,
            target |-> 0, flag |-> FALSE, list |-> <<>>],
           [k \in 1 .. Cardinality(DOMAIN mem) |-> k]).list
=============================================================================
