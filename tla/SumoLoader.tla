------------------------------ MODULE SumoLoader ------------------------------
(***************************************************************************)
(* How the simulator's road map comes about (MbrSumo::Initialize): a SUMO    *)
(* net file becomes vertices and roads, and roads that are too long are      *)
(* divided.                                                                  *)
(*                                                                           *)
(* A net is a record: junctions, a sequence of <<id, point>> without an id   *)
(* that occurs twice; edges, a sequence of records with the id, cut at its   *)
(* dashes and without what follows the #, the ids of the two junctions and   *)
(* the shape, a sequence of points, empty if the attribute is absent; and    *)
(* names, a function from ways to road names, from the OSM file.             *)
(*                                                                           *)
(* Vertices are never removed: a vertex' handle is its place in the list.    *)
(***************************************************************************)
EXTENDS SumoMap

CONSTANTS
  NetOffset,             \* what the net file's coordinates are shifted by
  MaxDist, AverageDist,  \* in metres
  MaxVertices,           \* bound: no map has more
  NoOsmFile              \* the names of a net that is used without an OSM file

Handles(mem) == [h \in DOMAIN mem |-> h]

Handle(mem, id) == GetVertex(Handles(mem), mem, id)

\* sumoCartesian2GPS; degrees are kept as the metres they stand for.
Gps(p) == <<p[1] - NetOffset[1], p[2] - NetOffset[2]>>

\* graph_add_vertex: at the tail.
GraphAddVertex(mem, vertex) == Append(mem, vertex)

\* vertex_create
Vertex(id, at, isIntersection) ==
  [idStr |-> id, at |-> at, geoHash |-> Geohash(at), edges |-> <<>>,
   indegree |-> 0, outdegree |-> 0, isIntersection |-> isIntersection]

AddEdgeUndirect(mem, from, to, road) == AddEdge(AddEdge(mem, from, to, road), to, from, road)

\* vertex_add_edge_to_vertex_undirect_exclusive: the last road between two vertices stays.
AddEdgeExclusive(mem, from, to, road) ==
  AddEdgeUndirect(RemoveEdgeUndirect(mem, from, to), from, to, road)

----------------------------------------------------------------------------
(* loadSumoMap *)

Junctions(net) ==
  FoldLeft(LAMBDA mem, j : GraphAddVertex(mem, Vertex(j[1], Gps(j[2]), TRUE)), <<>>, net.junctions)

\* parseOsmWayid: what is before the first dash and after it, if there is one.
ParseOsmWayid(id) == id[IF Len(id) = 1 THEN 1 ELSE 2]

\* parseOsmRoadName; ways without a name all get the empty one.
RoadName(net, id) ==
  LET way == ParseOsmWayid(id)
  IN  IF net.names = NoOsmFile THEN way
      ELSE IF way \in DOMAIN net.names THEN net.names[way] ELSE NoOsmFile

\* parseShapeAndUpdateGraph.  All points of a shape are entered at one place, made of the
\* first coordinates of its first two, and each is joined to the second; a shape of two
\* points makes no road at all.
ParseShapeAndUpdateGraph(mem, edge, road) ==
  LET points == edge.shape
      inner  == SubSeq(points, 2, Len(points) - 1)
      place  == Gps(<<points[1][1], points[2][1]>>)
      create(m, id)   == IF Handle(m, id) # Null THEN m ELSE GraphAddVertex(m, Vertex(id, place, FALSE))
      join(m, id, to) == AddEdgeExclusive(m, Handle(m, id), Handle(m, to), road)
      star == FoldLeft(LAMBDA m, id : join(m, inner[1], id), FoldLeft(create, mem, inner), Tail(inner))
  IN  IF Len(points) <= 2 THEN mem
      ELSE join(join(star, edge.from, inner[1]), Last(inner), edge.to)

\* An edge of the file; roads are numbered in the order of their names' appearance.
LoadEdge(net, s, edge) ==
  LET name  == RoadName(net, edge.id)
      roads == IF Contains(s.roads, name) THEN s.roads ELSE Append(s.roads, name)
      road  == SelectInSeq(roads, LAMBDA n : n = name)
  IN  [roads |-> roads,
       mem   |-> IF edge.shape = <<>>
                 THEN AddEdgeExclusive(s.mem, Handle(s.mem, edge.from), Handle(s.mem, edge.to), road)
                 ELSE ParseShapeAndUpdateGraph(s.mem, edge, road)]

LoadSumoMap(net) ==
  FoldLeft(LAMBDA s, edge : LoadEdge(net, s, edge), [mem |-> Junctions(net), roads |-> <<>>], net.edges)

----------------------------------------------------------------------------
(* graph_division *)

\* find_road_id: -1 when there is no edge.
FindRoadId(mem, from, to) ==
  LET k == SelectInSeq(mem[from].edges, LAMBDA e : e.vertex = to)
  IN  IF k = 0 THEN -1 ELSE mem[from].edges[k].road_id

\* The point from which on the road to q is still to be divided.
FirstPart(p, q) ==
  LET parts == (2 * Distance(p, q) + AverageDist) \div (2 * AverageDist)
  IN  <<p[1] + (q[1] - p[1]) \div parts, p[2] + (q[2] - p[2]) \div parts>>

\* Mutant of EdgeDivision: the road is looked up when it has gone.
EdgeDivisionLate(mem, from, to) ==
  LET at    == FirstPart(mem[from].at, mem[to].at)
      temp  == Len(mem) + 1
      cut   == RemoveEdgeUndirect(GraphAddVertex(mem, Vertex(<<"gps", at[2], at[1]>>, at, FALSE)), from, to)
      road  == FindRoadId(cut, from, to)
  IN  IF Distance(mem[from].at, mem[to].at) <= MaxDist THEN mem
      ELSE AddEdgeUndirect(AddEdgeUndirect(cut, from, temp, road), temp, to, road)

\* edge_division: a vertex cuts off the first part of a long road; its turn comes at the
\* end of the list.
EdgeDivision(mem, from, to) ==
  LET at    == FirstPart(mem[from].at, mem[to].at)
      temp  == Len(mem) + 1
      grown == GraphAddVertex(mem, Vertex(<<"gps", at[2], at[1]>>, at, FALSE))
      road  == FindRoadId(mem, from, to)
  IN  IF Distance(mem[from].at, mem[to].at) <= MaxDist THEN mem
      ELSE RemoveEdgeUndirect(
             AddEdgeUndirect(AddEdgeUndirect(grown, from, temp, road), temp, to, road), from, to)

\* graph_division: the loop over the growing list, and over the edges of a vertex as they
\* are when its turn comes.
GraphDivision(mem) ==
  FoldLeft(LAMBDA m, h : IF h > Len(m) THEN m
                         ELSE FoldLeft(LAMBDA n, e : EdgeDivision(n, h, e.vertex), m, m[h].edges),
           mem, [h \in 1 .. MaxVertices |-> h])

Initialize(net) == GraphDivision(LoadSumoMap(net).mem)

----------------------------------------------------------------------------
(* What the map has to be *)

\* The junctions that can be reached from vertex h along one road without passing another.
JunctionsAlong(mem, h, road) ==
  LET step(near) == near \cup
        {e.vertex : e \in UNION {{o \in ToSet(mem[v].edges) : o.road_id = road} :
                                v \in {w \in near : w = h \/ ~mem[w].isIntersection}}}
      within == FoldLeft(LAMBDA near, v : step(near), {h}, mem)
  IN  {v \in within \ {h} : mem[v].isIntersection}

\* The edges of the file between two junctions that the map keeps.
Kept(net, ids) ==
  LET between == {k \in DOMAIN net.edges : {net.edges[k].from, net.edges[k].to} = ids}
      direct  == {k \in between : net.edges[k].shape = <<>>}
  IN  {k \in between : Len(net.edges[k].shape) > 2} \cup
      {k \in direct : \A l \in direct : l <= k}

Follows(mem, net, roads) ==
  /\ \A h \in DOMAIN mem : \A e \in ToSet(mem[h].edges) :
       /\ Distance(mem[h].at, mem[e.vertex].at) <= MaxDist
       /\ [vertex |-> h, road_id |-> e.road_id] \in ToSet(mem[e.vertex].edges)
  /\ \A j \in DOMAIN net.junctions, i \in DOMAIN roads :
       JunctionsAlong(mem, j, i) =
         {l \in DOMAIN net.junctions \ {j} :
            \E k \in Kept(net, {net.junctions[j][1], net.junctions[l][1]}) :
              RoadName(net, net.edges[k].id) = roads[i]}
=============================================================================
