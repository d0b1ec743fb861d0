------------------------------- MODULE RoadMap -------------------------------
(***************************************************************************)
(* The road map of the kernel module (graph.c): junctions in a list, each  *)
(* with a list of roads to its neighbours, and the algorithms on it.       *)
(*                                                                         *)
(* A map is a pair: the list of vertices and the memory they live in, a    *)
(* function from handles (addresses) to vertices.  Lists have their newest *)
(* element first, as list_add_data builds them.  Nothing here changes      *)
(* state: RoadGraph does, and mbr_forward searches what it left.           *)
(***************************************************************************)
EXTENDS Integers, SequencesExt

CONSTANT Null      \* the NULL pointer

----------------------------------------------------------------------------
(* Search *)

\* getVertex: the first vertex of the list with this name.
GetVertex(vertices, mem, id) ==
  LET k == SelectInSeq(vertices, LAMBDA h : mem[h].idStr = id)
  IN  IF k = 0 THEN Null ELSE vertices[k]

\* geohash_compare: the difference of two positions as unsigned numbers.
GeohashCompare(a, b) == IF a > b THEN a - b ELSE b - a

\* find_Vertex_by_VehiclePosition: the first vertex whose geohash differs least.
FindVertexByPosition(vertices, mem, position) ==
  LET distance(k) == GeohashCompare(mem[vertices[k]].geoHash, position)
      nearest == {k \in DOMAIN vertices : \A l \in DOMAIN vertices : distance(k) <= distance(l)}
  IN  IF vertices = <<>> THEN Null ELSE vertices[Min(nearest)]

\* find_vertex: is v in the queue of the breadth-first search?
FindVertex(queue, v) == \E k \in DOMAIN queue : queue[k].v = v

\* The search has just queued a vertex with the target's name.
Reached(mem, queue, to) == Len(queue) > 1 /\ mem[Last(queue).v].idStr = mem[to].idStr

\* One road of the vertex at place k of the queue, unless the search is over.
Visit(mem, to, k, queue, edge) ==
  IF Reached(mem, queue, to) \/ FindVertex(queue, edge.vertex)
    THEN queue
    ELSE Append(queue, [v |-> edge.vertex, ancest |-> k, road_id |-> edge.road_id])

\* All roads of the vertex at place k of the queue are followed, in their order.
VisitAll(mem, to, k, queue) ==
  LET edges == mem[queue[k].v].edges
      after[j \in 0 .. Len(edges)] ==
        IF j = 0 THEN queue ELSE Visit(mem, to, k, after[j - 1], edges[j])
  IN  after[Len(edges)]

\* Mutant of Search: the search goes on from the vertex queued last.
SearchDeep(mem, from, to) ==
  LET q[k \in 0 .. Cardinality(DOMAIN mem)] ==
        IF k = 0
          THEN <<[v |-> from, ancest |-> 0, road_id |-> Null]>>
          ELSE IF k > Len(q[k - 1]) \/ Reached(mem, q[k - 1], to)
                 THEN q[k - 1]
                 ELSE VisitAll(mem, to, Len(q[k - 1]), q[k - 1])
  IN  q[Cardinality(DOMAIN mem)]

\* The queue cross_vertex builds: path records with a pointer to the record they
\* were reached from.  q[k] is the queue after its first k vertices were expanded.
Search(mem, from, to) ==
  LET q[k \in 0 .. Cardinality(DOMAIN mem)] ==
        IF k = 0
          THEN <<[v |-> from, ancest |-> 0, road_id |-> Null]>>
          ELSE IF k > Len(q[k - 1]) \/ Reached(mem, q[k - 1], to)
                 THEN q[k - 1]
                 ELSE VisitAll(mem, to, k, q[k - 1])
  IN  q[Cardinality(DOMAIN mem)]

\* print_crossnode: walking back from the end of the queue, the first vertex the
\* path enters and leaves by different roads.
PrintCrossnode(queue) ==
  LET walk[p \in 2 .. Len(queue)] ==
        LET a == queue[p].ancest
        IN  IF a = 1 THEN Null
            ELSE IF queue[p].road_id # queue[a].road_id THEN queue[a].v
            ELSE walk[a]
  IN  walk[Len(queue)]

\* cross_vertex: the crossing nearest to the target on a shortest path to it,
\* or Null when there is no path or no change of road on it.
CrossVertex(mem, from, to) ==
  LET queue == Search(mem, from, to)
  IN  IF Reached(mem, queue, to) THEN PrintCrossnode(queue) ELSE Null

\* graph_is_balanced
GraphIsBalanced(vertices, mem) ==
  \A h \in ToSet(vertices) : mem[h].indegree = mem[h].outdegree

----------------------------------------------------------------------------
(* Updates, as functions of the memory *)

\* list_add_data: at the head.
ListAdd(list, data) == <<data>> \o list

\* Mutant of AddEdge: the source's outdegree is forgotten.
AddEdgeUncounted(mem, from, to, road) ==
  [mem EXCEPT ![from].edges = <<[vertex |-> to, road_id |-> road]>> \o @,
              ![to].indegree = @ + 1]

\* vertex_add_edge_to_vertex
AddEdge(mem, from, to, road) ==
  [mem EXCEPT ![from].edges = ListAdd(@, [vertex |-> to, road_id |-> road]),
              ![to].indegree = @ + 1,
              ![from].outdegree = @ + 1]

\* The edges that lead to a vertex, and a list without the first of them.
LeadsTo(edges, to)    == \E k \in DOMAIN edges : edges[k].vertex = to
WithoutOne(edges, to) == RemoveFirstMatch(edges, LAMBDA e : e.vertex = to)

\* vertex_remove_edge_to_vertex: the first edge that leads to the vertex, only.
RemoveEdge(mem, from, to) ==
  IF LeadsTo(mem[from].edges, to)
    THEN [mem EXCEPT ![from].edges = WithoutOne(@, to),
                     ![to].indegree = @ - 1,
                     ![from].outdegree = @ - 1]
    ELSE mem

\* Mutant of RemoveEdgeUndirect: only one direction is removed.
RemoveEdgeOneWay(mem, from, to) == RemoveEdge(mem, to, from)

\* vertex_remove_edge_to_vertex_undirect
RemoveEdgeUndirect(mem, from, to) == RemoveEdge(RemoveEdge(mem, from, to), to, from)
=============================================================================
