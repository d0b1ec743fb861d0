------------------------------ MODULE RoadGraph ------------------------------
(***************************************************************************)
(* The road map of the kernel module as netlink messages change it         *)
(* (netlink_recv_cb and the graph.c functions it calls).                   *)
(*                                                                         *)
(* The callback runs in the context of the process that sends, so a NULL   *)
(* dereference kills that process and leaves the map as far as the callback*)
(* got.  graph_remove_vertex_undirect reads the next pointer of the list   *)
(* node it has just freed: the allocator keeps that word (its free pointer *)
(* is the word before it), unless the node is handed out again in between, *)
(* in which case the loop is modelled to fault.                            *)
(*                                                                         *)
(* Memory that only leaks (the edge or vertex of a message that faulted)   *)
(* is not modelled.                                                        *)
(***************************************************************************)
EXTENDS RoadMap, Filter

CONSTANTS
  Handle,     \* the addresses a vertex can have
  Id,         \* the names of junctions
  Road,       \* the roads
  Position,   \* Position[id]: the geohash user space sends with a junction
  MaxNodes,   \* bound on the NEW_NODE messages between two module loads
  MaxEdges    \* bound on the NEW_EDGE messages between two module loads

Edge   == [vertex : Handle \cup {Null}, road_id : Road]
Vertex == [idStr : Id, geoHash : Nat, edges : Seq(Edge), indegree : Int, outdegree : Int]

ASSUME GraphAssumption ==
  /\ Null \notin Handle \cup Road \cup Vertex
  /\ IsFiniteSet(Handle)
  /\ Position \in [Id -> Nat]
  /\ MaxNodes \in Nat
  /\ MaxEdges \in Nat

VARIABLES
  phase,      \* how far init_mbr_module is
  vertices,   \* global_graph->vertices
  mem,        \* mem[h]: the vertex at h, Null when h is free
  sent,       \* NEW_NODE and NEW_EDGE messages since the graph was created
  damaged     \* history: a message faulted half way or deleted a vertex that
              \* had parallel roads to a neighbour

vars == <<phase, vertices, mem, sent, damaged>>

Listed == ToSet(vertices)
NothingSent == [nodes |-> 0, edges |-> 0]

Init ==
  /\ phase = "unloaded"
  /\ vertices = <<>>
  /\ mem = [h \in Handle |-> Null]
  /\ sent = NothingSent
  /\ damaged = FALSE

\* init_mbr_module up to netlink_kernel_create: messages can arrive.
InitNetlink ==
  /\ phase = "unloaded"
  /\ phase' = "netlink"
  /\ UNCHANGED <<vertices, mem, sent, damaged>>

\* global_graph = graph_create(), and the rest of init_mbr_module.
GraphCreate ==
  /\ phase = "netlink"
  /\ phase' = "ready"
  /\ UNCHANGED <<vertices, mem, sent, damaged>>

\* graph_free frees every listed vertex and its edges.  The vertex that a fault took
\* off the list stays allocated, but nothing points to it any more, so that its
\* address can as well be used again.
GraphFree == [h \in Handle |-> Null]

\* cleanup_mbr_module
Cleanup ==
  /\ phase = "ready"
  /\ phase' = "unloaded"
  /\ mem' = GraphFree
  /\ vertices' = <<>>
  /\ sent' = NothingSent
  /\ damaged' = FALSE

\* A message that arrives before graph_create: every branch of the switch goes
\* through the NULL global_graph.
EarlyMessage ==
  /\ phase = "netlink"
  /\ UNCHANGED vars

\* The messages the model follows: a damaged map is only ever unloaded (bound).
Ready == phase = "ready" /\ ~damaged

\* NEW_NODE: vertex_create and graph_add_vertex.  The name need not be new.
NewNode(id) ==
  /\ Ready
  /\ sent.nodes < MaxNodes
  /\ sent' = [sent EXCEPT !.nodes = @ + 1]
  /\ \E h \in Handle :
       /\ mem[h] = Null
       /\ mem' = [mem EXCEPT ![h] = [idStr |-> id, geoHash |-> Position[id],
                                     edges |-> <<>>, indegree |-> 0, outdegree |-> 0]]
       /\ vertices' = ListAdd(vertices, h)
  /\ UNCHANGED <<phase, damaged>>

\* NEW_EDGE: vertex_add_edge_to_vertex_undirect, one edge in each direction.
\* When only the second name is unknown the edge is linked before the fault.
NewEdge(fromId, toId, road) ==
  /\ Ready
  /\ sent.edges < MaxEdges
  /\ sent' = [sent EXCEPT !.edges = @ + 1]
  /\ LET from == GetVertex(vertices, mem, fromId)
         to   == GetVertex(vertices, mem, toId)
     IN  IF from = Null
           THEN UNCHANGED <<mem, damaged>>
         ELSE IF to = Null
           THEN /\ mem' = [mem EXCEPT ![from].edges = ListAdd(@, [vertex |-> Null, road_id |-> road])]
                /\ damaged' = TRUE
         ELSE /\ mem' = AddEdge(AddEdge(mem, from, to, road), to, from, road)
              /\ UNCHANGED damaged
  /\ UNCHANGED <<phase, vertices>>

\* Mutant of Unlinked: the loop stops at the vertex it unlinks.
UnlinkedStop(d, n) ==
  FoldLeft(LAMBDA m, v : RemoveEdgeUndirect(m, v, d), mem,
           SubSeq(vertices, 1, SelectInSeq(vertices, LAMBDA v : v = d) - 1))

\* The loop of graph_remove_vertex_undirect over the first n vertices: d's roads
\* are removed in both directions.
Unlinked(d, n) ==
  LET upTo[k \in 0 .. Len(vertices)] ==
        IF k = 0 THEN mem
        ELSE IF vertices[k] = d THEN upTo[k - 1]
        ELSE RemoveEdgeUndirect(upTo[k - 1], vertices[k], d)
  IN  upTo[n]

\* Parallel roads of d: only the first of them is removed.
HasParallelRoads(d) ==
  \E v \in Listed \ {d} : \E j, k \in DOMAIN mem[v].edges :
    j < k /\ mem[v].edges[j].vertex = d /\ mem[v].edges[k].vertex = d

\* Mutant of FreeVertex: the list keeps the vertex.
FreeVertexListed(d) ==
  /\ vertices' = vertices
  /\ mem' = [Unlinked(d, Len(vertices)) EXCEPT ![d] = Null]

\* The loop reaches the end and vertex_free releases d and its edge list.
FreeVertex(d) ==
  /\ vertices' = Filter(vertices, Handle \ {d})
  /\ mem' = [Unlinked(d, Len(vertices)) EXCEPT ![d] = Null]

\* DEL_NODE of a known name.
DelNode(id) ==
  /\ Ready
  /\ LET d == GetVertex(vertices, mem, id)
     IN  /\ d # Null
         /\ FreeVertex(d)
         /\ damaged' = (damaged \/ HasParallelRoads(d))
  /\ UNCHANGED <<phase, sent>>

\* DEL_NODE of a known name, when the freed list node was handed out again before
\* the loop read its next pointer: the vertices behind d keep their roads to it.
DelNodeFault(id) ==
  /\ Ready
  /\ LET d == GetVertex(vertices, mem, id)
     IN  /\ d # Null
         /\ mem' = Unlinked(d, SelectInSeq(vertices, LAMBDA v : v = d))
         /\ vertices' = Filter(vertices, Handle \ {d})
  /\ damaged' = TRUE
  /\ UNCHANGED <<phase, sent>>

\* DEL_NODE of an unknown name: the loop faults at the first vertex of the list,
\* or vertex_free does when the list is empty.
DelUnknown(id) ==
  /\ Ready
  /\ GetVertex(vertices, mem, id) = Null
  /\ UNCHANGED vars

\* netlink_user sends one message and waits for the answer before the next; here the
\* messages, their order and their number are any.
MessageSend ==
  \/ \E id \in Id : NewNode(id) \/ DelNode(id) \/ DelNodeFault(id) \/ DelUnknown(id)
  \/ \E a, b \in Id, r \in Road : NewEdge(a, b, r)

Next == InitNetlink \/ GraphCreate \/ Cleanup \/ EarlyMessage \/ MessageSend

Spec == Init /\ [][Next]_vars

-----------------------------------------------------------------------------
(* Properties *)

\* The type invariant; what is listed is allocated, once.
TypeOK ==
  /\ phase \in {"unloaded", "netlink", "ready"}
  /\ vertices \in Seq(Handle)
  /\ \A h \in Handle :
       mem[h] # Null =>
         /\ mem[h].idStr \in Id
         /\ mem[h].geoHash = Position[mem[h].idStr]
         /\ mem[h].edges \in Seq(Edge)
         /\ mem[h].indegree \in Int
         /\ mem[h].outdegree \in Int
  /\ \A k, l \in DOMAIN vertices : vertices[k] = vertices[l] => k = l
  /\ \A h \in Listed : mem[h] # Null
  /\ sent \in [nodes : 0 .. MaxNodes, edges : 0 .. MaxEdges]
  /\ damaged \in BOOLEAN

\* graph_is_balanced: every road leads both ways, whatever sequence of messages
\* built and took down the map, as long as none of them damaged it.
Balanced == ~damaged => GraphIsBalanced(vertices, mem)

\* The roads from a junction to another, in the order of its list.
RoadsTo(m, a, b) ==
  LET es == Filter(m[a].edges, [vertex : {b}, road_id : Road])
  IN  [k \in DOMAIN es |-> es[k].road_id]

\* Both directions of a road are added and removed together: two junctions agree
\* on the roads between them, parallel ones included, and on their number.
EdgesAgree ==
  ~damaged =>
    \A a, b \in Listed :
      /\ a # b => RoadsTo(mem, a, b) = RoadsTo(mem, b, a)
      /\ mem[a].outdegree = Len(mem[a].edges)

\* No road leads to memory that has been freed, so that a search that walks the
\* lists later stays inside the map.
NoDanglingEdge ==
  ~damaged =>
    \A a \in Listed : \A k \in DOMAIN mem[a].edges : mem[a].edges[k].vertex \in Listed

\* Walks of n roads from a, as the sequence of the roads taken.
Walks(a, n) ==
  LET roadsFrom(v) == ToSet(mem[v].edges)
      walks[k \in 1 .. n] ==
        IF k = 1 THEN {<<e>> : e \in roadsFrom(a)}
        ELSE UNION {{Append(p, e) : e \in roadsFrom(Last(p).vertex)} : p \in walks[k - 1]}
  IN  walks[n]

\* The shortest paths from a to another vertex with the name of b.
ShortestPathsTo(a, b) ==
  LET arriving(n) == {p \in Walks(a, n) : Last(p).vertex # a /\ mem[Last(p).vertex].idStr = mem[b].idStr}
      lengths == {n \in 1 .. Len(vertices) - 1 : arriving(n) # {}}
  IN  IF lengths = {} THEN {} ELSE arriving(Min(lengths))

\* Where a path last changes from one road to another.
LastCrossing(p) ==
  LET changes == {k \in 2 .. Len(p) : p[k].road_id # p[k - 1].road_id}
  IN  IF changes = {} THEN Null ELSE p[Max(changes) - 1].vertex

\* cross_vertex answers with the last crossing of a shortest path whenever the
\* target can be reached, and with NULL otherwise.
CrossVertexCorrect ==
  ~damaged =>
    \A a, b \in Listed :
      LET S == ShortestPathsTo(a, b)
          x == CrossVertex(mem, a, b)
      IN  IF S = {} THEN x = Null ELSE \E p \in S : x = LastCrossing(p)
=============================================================================
