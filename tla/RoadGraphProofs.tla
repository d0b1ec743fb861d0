--------------------------- MODULE RoadGraphProofs ---------------------------
(***************************************************************************)
(* Proofs about RoadGraph for any addresses, names, places, roads and       *)
(* sequences of netlink messages: types, degrees that count the lists, both *)
(* directions of every road, no road into freed memory, and that the search *)
(* of cross_vertex finds a shortest path and its last crossing.             *)
(*                                                                          *)
(* First what adding and removing one edge does to a vertex and to the      *)
(* roads between two; then the loop of graph_remove_vertex_undirect, whose  *)
(* invariant Passed says which vertices it has unlinked so far; then a      *)
(* lemma for every message, and the theorems that follow from IInv alone.   *)
(*                                                                          *)
(* The search follows.  Its loops are recursive functions, whose invariants *)
(* are Walking (the roads of one vertex) and Searching (the places of the   *)
(* queue): the queue is a tree in the order of the distance, and whatever   *)
(* is nearer than the vertex that is being expanded is expanded.  Trails    *)
(* gives every record of the tree its path, and the walks that define a     *)
(* shortest path are followed through the tree (WalksFound).                *)
(***************************************************************************)
EXTENDS RoadGraph, FilterProofs, SequenceTheorems, FiniteSetTheorems

USE DEF ListAdd

(***************************************************************************)
(* The inductive invariant                                                  *)
(***************************************************************************)

Memory == [Handle -> Vertex \cup {Null}]

\* What is allocated is a junction at its own place.
Allocated(m) ==
  \A h \in Handle : m[h] # Null => m[h].geoHash = Position[m[h].idStr]

\* What is listed is allocated, once.
ListOK ==
  /\ vertices \in Seq(Handle)
  /\ \A k, l \in DOMAIN vertices : vertices[k] = vertices[l] => k = l
  /\ \A h \in Listed : mem[h] # Null

\* A map that no message damaged: all vertices are listed, roads lead to vertices that
\* are, and the degrees count them.
Sound(m, L) ==
  /\ \A h \in Handle : m[h] # Null => h \in L
  /\ \A h \in L : /\ m[h].indegree = Len(m[h].edges) /\ m[h].outdegree = Len(m[h].edges)
                  /\ \A k \in DOMAIN m[h].edges : m[h].edges[k].vertex \in L

\* Both directions of every road are there.
TwoWay(m, L) == \A a, b \in L : a # b => RoadsTo(m, a, b) = RoadsTo(m, b, a)

Counters ==
  /\ phase \in {"unloaded", "netlink", "ready"}
  /\ sent \in [nodes : 0 .. MaxNodes, edges : 0 .. MaxEdges]
  /\ damaged \in BOOLEAN

IInv ==
  /\ Counters /\ ListOK
  /\ mem \in Memory /\ Allocated(mem)
  /\ ~damaged => Sound(mem, Listed) /\ TwoWay(mem, Listed)

-----------------------------------------------------------------------------
(***************************************************************************)
(* Vertices and lists of edges                                              *)
(***************************************************************************)

\* What a vertex is made of.
LEMMA VertexFields ==
  ASSUME NEW x \in Vertex
  PROVE  /\ x.idStr \in Id /\ x.geoHash \in Nat /\ x.edges \in Seq(Edge)
         /\ x.indegree \in Int /\ x.outdegree \in Int /\ x # Null
BY GraphAssumption DEF Vertex, GraphAssumption

\* What an edge is made of.
LEMMA EdgeFields ==
  ASSUME NEW e \in Edge
  PROVE  e.vertex \in Handle \cup {Null} /\ e.road_id \in Road
BY DEF Edge

\* r is s without its element at i.
Drops(r, s, i) ==
  /\ i \in 1 .. Len(s) /\ Len(r) = Len(s) - 1
  /\ \A j \in 1 .. Len(r) : r[j] = IF j < i THEN s[j] ELSE s[j + 1]

\* RemoveAt drops the element at the index.
LEMMA RemoveAtDrops ==
  ASSUME NEW S, NEW s \in Seq(S), NEW i \in 1 .. Len(s)
  PROVE  RemoveAt(s, i) \in Seq(S) /\ Drops(RemoveAt(s, i), s, i)
<1> DEFINE a == SubSeq(s, 1, i - 1)
           b == SubSeq(s, i + 1, Len(s))
<1>1. /\ a \in Seq(S) /\ Len(a) = i - 1
      /\ \A j \in 1 .. i - 1 : a[j] = s[j]
  OBVIOUS
<1>2. /\ b \in Seq(S) /\ Len(b) = Len(s) - i
      /\ \A j \in 1 .. Len(s) - i : b[j] = s[i + j]
  OBVIOUS
<1>3. RemoveAt(s, i) = a \o b
  BY DEF RemoveAt
<1> HIDE DEF a, b
<1>4. /\ a \o b \in Seq(S) /\ Len(a \o b) = Len(a) + Len(b)
      /\ \A j \in 1 .. Len(a) + Len(b) : (a \o b)[j] = IF j <= Len(a) THEN a[j] ELSE b[j - Len(a)]
  BY <1>1, <1>2, ConcatProperties
<1> DEFINE r == a \o b
<1> HIDE DEF r
<1>5. /\ r \in Seq(S) /\ Len(r) = Len(s) - 1
      /\ \A j \in 1 .. Len(r) : r[j] = IF j <= i - 1 THEN a[j] ELSE b[j - (i - 1)]
  BY <1>1, <1>2, <1>4 DEF r
<1>6. \A j \in 1 .. Len(r) : r[j] = IF j < i THEN s[j] ELSE s[j + 1]
  <2> TAKE j \in 1 .. Len(r)
  <2>1. CASE j < i
    BY <1>1, <1>5, <2>1
  <2>2. CASE ~(j < i)
    <3>1. j - (i - 1) \in 1 .. Len(s) - i /\ i + (j - (i - 1)) = j + 1
      BY <1>5, <2>2
    <3>2. QED
      BY <1>2, <1>5, <2>2, <3>1
  <2>3. QED
    BY <2>1, <2>2
<1>7. QED
  BY <1>3, <1>5, <1>6 DEF Drops, r

\* The first edge to a vertex is what WithoutOne drops.
FirstTo(edges, to, i) ==
  i \in 1 .. Len(edges) /\ edges[i].vertex = to /\ \A j \in 1 .. i - 1 : edges[j].vertex # to

\* What WithoutOne returns.
LEMMA WithoutOneDrops ==
  ASSUME NEW s \in Seq(Edge), NEW to, LeadsTo(s, to)
  PROVE  /\ WithoutOne(s, to) \in Seq(Edge)
         /\ \E i \in 1 .. Len(s) : FirstTo(s, to, i) /\ Drops(WithoutOne(s, to), s, i)
<1> DEFINE I == {i \in 1 .. Len(s) : s[i].vertex = to}
           i == SelectInSeq(s, LAMBDA e : e.vertex = to)
<1>1. I # {} /\ I \in SUBSET Nat
  BY DEF LeadsTo
<1>2. i = Min(I)
  BY <1>1 DEF SelectInSeq
<1>3. Min(I) \in I /\ \A k \in I : Min(I) <= k
  <2> HIDE DEF I
  <2>1. \E m \in I : \A k \in I : m <= k
    BY <1>1, Least
  <2>2. Min(I) = CHOOSE m \in I : \A k \in I : m <= k
    BY DEF Min
  <2>3. QED
    BY <2>1, <2>2
<1>4. WithoutOne(s, to) = RemoveAt(s, i)
  BY <1>1 DEF WithoutOne, RemoveFirstMatch
<1> HIDE DEF i
<1>5. i \in 1 .. Len(s) /\ s[i].vertex = to
  BY <1>2, <1>3
<1>6. \A j \in 1 .. i - 1 : s[j].vertex # to
  <2> TAKE j \in 1 .. i - 1
  <2>1. j \in 1 .. Len(s) /\ ~(i <= j)
    BY <1>5
  <2>2. j \notin I
    BY <1>2, <1>3, <2>1
  <2>3. QED
    BY <2>1, <2>2
<1> HIDE DEF I
<1>7. QED
  BY <1>4, <1>5, <1>6, RemoveAtDrops DEF FirstTo

-----------------------------------------------------------------------------
(***************************************************************************)
(* Adding and removing an edge                                              *)
(***************************************************************************)

\* x is vertex y with these edges and so much more of the degrees.
Becomes(x, y, edges, in, out) ==
  /\ x \in Vertex /\ x.idStr = y.idStr /\ x.geoHash = y.geoHash
  /\ x.edges = edges /\ x.indegree = y.indegree + in /\ x.outdegree = y.outdegree + out

\* The same elsewhere than at a.
ElseSame(r, m, a) == r \in Memory /\ \A h \in Handle \ {a} : r[h] = m[h]

\* A vertex of the map with other edges ...
LEMMA NewEdges ==
  ASSUME NEW m \in Memory, NEW a \in Handle, m[a] \in Vertex, NEW es \in Seq(Edge)
  PROVE  /\ ElseSame([m EXCEPT ![a].edges = es], m, a)
         /\ Becomes([m EXCEPT ![a].edges = es][a], m[a], es, 0, 0)
<1> DEFINE x == [m[a] EXCEPT !.edges = es]
           r == [m EXCEPT ![a].edges = es]
<1>1. r = [m EXCEPT ![a] = x]
  BY DEF Memory
<1>2. x \in Vertex
  BY DEF Vertex
<1>3. /\ x.idStr = m[a].idStr /\ x.geoHash = m[a].geoHash /\ x.edges = es
      /\ x.indegree = m[a].indegree /\ x.outdegree = m[a].outdegree
  BY DEF Vertex
<1>4. x.indegree = m[a].indegree + 0 /\ x.outdegree = m[a].outdegree + 0
  BY <1>3, VertexFields
<1> HIDE DEF x, r
<1>5. r \in Memory /\ r[a] = x /\ \A h \in Handle \ {a} : r[h] = m[h]
  BY <1>1, <1>2 DEF Memory
<1>6. ElseSame(r, m, a)
  BY <1>5 DEF ElseSame
<1>7. Becomes(r[a], m[a], es, 0, 0)
  BY <1>2, <1>3, <1>4, <1>5 DEF Becomes
<1>8. QED
  BY <1>6, <1>7 DEF r

\* ... with another indegree ...
LEMMA NewIndegree ==
  ASSUME NEW m \in Memory, NEW a \in Handle, m[a] \in Vertex, NEW k \in Int,
         NEW v, v = m[a].indegree + k
  PROVE  /\ ElseSame([m EXCEPT ![a].indegree = v], m, a)
         /\ Becomes([m EXCEPT ![a].indegree = v][a], m[a], m[a].edges, k, 0)
<1> DEFINE x == [m[a] EXCEPT !.indegree = v]
           r == [m EXCEPT ![a].indegree = v]
<1>1. r = [m EXCEPT ![a] = x]
  BY DEF Memory
<1>2. v \in Int /\ m[a].outdegree \in Int
  BY VertexFields
<1>3. x \in Vertex
  BY <1>2 DEF Vertex
<1>4. /\ x.idStr = m[a].idStr /\ x.geoHash = m[a].geoHash /\ x.edges = m[a].edges
      /\ x.indegree = m[a].indegree + k /\ x.outdegree = m[a].outdegree
  BY DEF Vertex
<1>5. x.outdegree = m[a].outdegree + 0
  BY <1>2, <1>4
<1> HIDE DEF x, r
<1>6. r \in Memory /\ r[a] = x /\ \A h \in Handle \ {a} : r[h] = m[h]
  BY <1>1, <1>3 DEF Memory
<1>7. ElseSame(r, m, a)
  BY <1>6 DEF ElseSame
<1>8. Becomes(r[a], m[a], m[a].edges, k, 0)
  BY <1>3, <1>4, <1>5, <1>6 DEF Becomes
<1>9. QED
  BY <1>7, <1>8 DEF r

\* ... and with another outdegree.
LEMMA NewOutdegree ==
  ASSUME NEW m \in Memory, NEW a \in Handle, m[a] \in Vertex, NEW k \in Int,
         NEW v, v = m[a].outdegree + k
  PROVE  /\ ElseSame([m EXCEPT ![a].outdegree = v], m, a)
         /\ Becomes([m EXCEPT ![a].outdegree = v][a], m[a], m[a].edges, 0, k)
<1> DEFINE x == [m[a] EXCEPT !.outdegree = v]
           r == [m EXCEPT ![a].outdegree = v]
<1>1. r = [m EXCEPT ![a] = x]
  BY DEF Memory
<1>2. v \in Int /\ m[a].indegree \in Int
  BY VertexFields
<1>3. x \in Vertex
  BY <1>2 DEF Vertex
<1>4. /\ x.idStr = m[a].idStr /\ x.geoHash = m[a].geoHash /\ x.edges = m[a].edges
      /\ x.outdegree = m[a].outdegree + k /\ x.indegree = m[a].indegree
  BY DEF Vertex
<1>5. x.indegree = m[a].indegree + 0
  BY <1>2, <1>4
<1> HIDE DEF x, r
<1>6. r \in Memory /\ r[a] = x /\ \A h \in Handle \ {a} : r[h] = m[h]
  BY <1>1, <1>3 DEF Memory
<1>7. ElseSame(r, m, a)
  BY <1>6 DEF ElseSame
<1>8. Becomes(r[a], m[a], m[a].edges, 0, k)
  BY <1>3, <1>4, <1>5, <1>6 DEF Becomes
<1>9. QED
  BY <1>7, <1>8 DEF r

\* The three assignments that make m into r for an edge from a to b: a's list, b's
\* indegree and a's outdegree.
Edged(r, m, a, b, es, k) ==
  \E m1, m2, i, o :
    /\ m1 = [m EXCEPT ![a].edges = es]
    /\ m2 = [m1 EXCEPT ![b].indegree = i] /\ i = m1[b].indegree + k
    /\ r = [m2 EXCEPT ![a].outdegree = o] /\ o = m2[a].outdegree + k

\* All three at once.
LEMMA EdgedDoes ==
  ASSUME NEW m \in Memory, NEW a \in Handle, NEW b \in Handle, m[a] \in Vertex, m[b] \in Vertex,
         NEW es \in Seq(Edge), NEW k \in Int, NEW m3, Edged(m3, m, a, b, es, k)
  PROVE  /\ m3 \in Memory
         /\ \A h \in Handle \ {a, b} : m3[h] = m[h]
         /\ a # b => Becomes(m3[a], m[a], es, 0, k) /\ Becomes(m3[b], m[b], m[b].edges, k, 0)
         /\ a = b => Becomes(m3[a], m[a], es, k, k)
<1>1. PICK m1, m2, i, o :
        /\ m1 = [m EXCEPT ![a].edges = es]
        /\ m2 = [m1 EXCEPT ![b].indegree = i] /\ i = m1[b].indegree + k
        /\ m3 = [m2 EXCEPT ![a].outdegree = o] /\ o = m2[a].outdegree + k
  BY DEF Edged
<1>2. ElseSame(m1, m, a) /\ Becomes(m1[a], m[a], es, 0, 0)
  BY <1>1, NewEdges
<1>3. m1 \in Memory /\ m1[a] \in Vertex /\ m1[b] \in Vertex
  BY <1>2 DEF ElseSame, Becomes
<1>4. ElseSame(m2, m1, b) /\ Becomes(m2[b], m1[b], m1[b].edges, k, 0)
  BY <1>1, <1>3, NewIndegree
<1>5. m2 \in Memory /\ m2[a] \in Vertex
  BY <1>3, <1>4 DEF ElseSame, Becomes
<1>6. ElseSame(m3, m2, a) /\ Becomes(m3[a], m2[a], m2[a].edges, 0, k)
  BY <1>1, <1>5, NewOutdegree
<1>7. m3 \in Memory /\ \A h \in Handle \ {a, b} : m3[h] = m[h]
  BY <1>2, <1>4, <1>6 DEF ElseSame
<1>8. /\ m[a].indegree \in Int /\ m[a].outdegree \in Int /\ m[b].indegree \in Int /\ m[b].outdegree \in Int
  BY VertexFields
<1>9. ASSUME a # b
      PROVE  Becomes(m3[a], m[a], es, 0, k) /\ Becomes(m3[b], m[b], m[b].edges, k, 0)
  <2>1. m2[a] = m1[a] /\ m1[b] = m[b] /\ m3[b] = m2[b]
    BY <1>2, <1>4, <1>6, <1>9 DEF ElseSame
  <2>2. Becomes(m3[b], m[b], m[b].edges, k, 0)
    BY <1>4, <2>1
  <2>3. Becomes(m3[a], m[a], es, 0, k)
    BY <1>2, <1>6, <1>8, <2>1 DEF Becomes
  <2>4. QED
    BY <2>2, <2>3
<1>10. ASSUME a = b PROVE Becomes(m3[a], m[a], es, k, k)
  <2>1. Becomes(m2[a], m1[a], m1[a].edges, k, 0)
    BY <1>4, <1>10
  <2>2. /\ m1[a].idStr = m[a].idStr /\ m1[a].geoHash = m[a].geoHash /\ m1[a].edges = es
        /\ m1[a].indegree = m[a].indegree /\ m1[a].outdegree = m[a].outdegree
    BY <1>2, <1>8 DEF Becomes
  <2>3. /\ m2[a].idStr = m[a].idStr /\ m2[a].geoHash = m[a].geoHash /\ m2[a].edges = es
        /\ m2[a].indegree = m[a].indegree + k /\ m2[a].outdegree = m[a].outdegree
    BY <1>8, <2>1, <2>2 DEF Becomes
  <2>4. m[a].indegree + k \in Int
    BY <1>8
  <2>5. /\ m3[a] \in Vertex /\ m3[a].idStr = m2[a].idStr /\ m3[a].geoHash = m2[a].geoHash
        /\ m3[a].edges = m2[a].edges /\ m3[a].indegree = m2[a].indegree + 0
        /\ m3[a].outdegree = m2[a].outdegree + k
    BY <1>6 DEF Becomes
  <2>6. m3[a].indegree = m[a].indegree + k /\ m3[a].outdegree = m[a].outdegree + k
    BY <2>3, <2>4, <2>5
  <2>7. QED
    BY <2>3, <2>5, <2>6 DEF Becomes
<1>11. QED
  BY <1>7, <1>9, <1>10

\* A vertex that is one, not Null.
LEMMA InMemory ==
  ASSUME NEW m \in Memory, NEW a \in Handle
  PROVE  m[a] # Null <=> m[a] \in Vertex
BY VertexFields DEF Memory

\* vertex_add_edge_to_vertex
LEMMA AddEdgeDoes ==
  ASSUME NEW m \in Memory, NEW a \in Handle, NEW b \in Handle, m[a] \in Vertex, m[b] \in Vertex,
         NEW road \in Road
  PROVE  LET r  == AddEdge(m, a, b, road)
             es == <<[vertex |-> b, road_id |-> road]>> \o m[a].edges
         IN  /\ r \in Memory /\ es \in Seq(Edge)
             /\ \A h \in Handle \ {a, b} : r[h] = m[h]
             /\ a # b => Becomes(r[a], m[a], es, 0, 1) /\ Becomes(r[b], m[b], m[b].edges, 1, 0)
             /\ a = b => Becomes(r[a], m[a], es, 1, 1)
<1> DEFINE r  == AddEdge(m, a, b, road)
           e  == [vertex |-> b, road_id |-> road]
           es == <<e>> \o m[a].edges
           m1 == [m EXCEPT ![a].edges = es]
           m2 == [m1 EXCEPT ![b].indegree = m1[b].indegree + 1]
<1>1. es \in Seq(Edge)
  <2>1. e \in Edge /\ m[a].edges \in Seq(Edge)
    BY VertexFields DEF Edge
  <2> HIDE DEF e
  <2>2. QED
    BY <2>1
<1>2. r = [m2 EXCEPT ![a].outdegree = m2[a].outdegree + 1]
  BY DEF AddEdge
<1>3. Edged(r, m, a, b, es, 1)
  <2> HIDE DEF r, e, es
  <2>1. QED
    BY <1>2 DEF Edged
<1> HIDE DEF r, es, m1, m2
<1>4. /\ r \in Memory
      /\ \A h \in Handle \ {a, b} : r[h] = m[h]
      /\ a # b => Becomes(r[a], m[a], es, 0, 1) /\ Becomes(r[b], m[b], m[b].edges, 1, 0)
      /\ a = b => Becomes(r[a], m[a], es, 1, 1)
  BY <1>1, <1>3, EdgedDoes
<1>5. QED
  BY <1>1, <1>4 DEF r, es

\* vertex_remove_edge_to_vertex of another vertex
LEMMA RemoveEdgeDoes ==
  ASSUME NEW m \in Memory, NEW a \in Handle, NEW b \in Handle, a # b, m[a] \in Vertex, m[b] \in Vertex,
         LeadsTo(m[a].edges, b)
  PROVE  LET r == RemoveEdge(m, a, b)
         IN  /\ r \in Memory
             /\ \A h \in Handle \ {a, b} : r[h] = m[h]
             /\ Becomes(r[a], m[a], WithoutOne(m[a].edges, b), 0, -1)
             /\ Becomes(r[b], m[b], m[b].edges, -1, 0)
<1> DEFINE r  == RemoveEdge(m, a, b)
           es == WithoutOne(m[a].edges, b)
           m1 == [m EXCEPT ![a].edges = es]
           m2 == [m1 EXCEPT ![b].indegree = m1[b].indegree - 1]
<1>1. es \in Seq(Edge)
  BY VertexFields, WithoutOneDrops
<1>2. r = [m2 EXCEPT ![a].outdegree = m2[a].outdegree - 1]
  BY DEF RemoveEdge
<1> HIDE DEF r, es
<1>3. ElseSame(m1, m, a) /\ Becomes(m1[a], m[a], es, 0, 0)
  BY <1>1, NewEdges
<1>4. m1[b] \in Vertex /\ m1 \in Memory
  BY <1>3 DEF ElseSame
<1>5. m1[b].indegree - 1 = m1[b].indegree + (-1)
  BY <1>4, VertexFields
<1>6. m2[a] \in Vertex
  <2>1. m1[b].indegree - 1 = m1[b].indegree + (-1) /\ -1 \in Int
    BY <1>5
  <2>2. ElseSame(m2, m1, b)
    BY <1>4, <2>1, NewIndegree
  <2>3. m2[a] = m1[a]
    BY <2>2 DEF ElseSame
  <2>4. QED
    BY <1>3, <2>3 DEF Becomes
<1>7. m2[a].outdegree - 1 = m2[a].outdegree + (-1)
  BY <1>6, VertexFields
<1>8. Edged(r, m, a, b, es, -1)
  BY <1>2, <1>5, <1>7 DEF Edged
<1>9. QED
  BY <1>1, <1>8, EdgedDoes DEF r, es

-----------------------------------------------------------------------------
(***************************************************************************)
(* The roads between two vertices                                           *)
(***************************************************************************)

To(b) == [vertex : {b}, road_id : Road]
Roads(edges, b) == [k \in DOMAIN Filter(edges, To(b)) |-> Filter(edges, To(b))[k].road_id]

\* RoadsTo in these words.
LEMMA RoadsToIs ==
  ASSUME NEW m, NEW a, NEW b
  PROVE  RoadsTo(m, a, b) = Roads(m[a].edges, b)
BY DEF RoadsTo, Roads, To

\* What an edge to b is.
LEMMA ToIs ==
  ASSUME NEW e \in Edge, NEW b
  PROVE  e \in To(b) <=> e.vertex = b
BY DEF Edge, To

\* An edge leads to b if there is a road to it.
LEMMA LeadsToRoad ==
  ASSUME NEW s \in Seq(Edge), NEW b
  PROVE  LeadsTo(s, b) <=> DOMAIN Roads(s, b) # {}
<1> DEFINE f == Filter(s, To(b))
<1>1. f \in Seq(Edge)
  BY FilterPicks
<1>2. PICK g : Picks(s, To(b), Len(s), g, f)
  BY FilterPicks
<1>3. \A k \in 1 .. Len(s) : s[k] \in To(b) <=> s[k].vertex = b
  BY ToIs
<1>4. DOMAIN f = 1 .. Len(f) /\ DOMAIN s = 1 .. Len(s) /\ Len(f) \in Nat
  BY <1>1
<1>5. DOMAIN Roads(s, b) = DOMAIN f
  BY DEF Roads
<1> HIDE DEF f
<1>6. ASSUME NEW k \in 1 .. Len(s), s[k].vertex = b PROVE DOMAIN f # {}
  BY <1>2, <1>3, <1>4, <1>6 DEF Picks
<1>7. ASSUME NEW j \in DOMAIN f PROVE \E k \in DOMAIN s : s[k].vertex = b
  <2>1. g[j] \in 1 .. Len(s) /\ f[j] = s[g[j]] /\ f[j] \in To(b)
    BY <1>2, <1>4, <1>7 DEF Picks
  <2>2. s[g[j]].vertex = b
    BY <1>3, <2>1
  <2>3. QED
    BY <1>4, <2>1, <2>2
<1>8. QED
  BY <1>4, <1>5, <1>6, <1>7 DEF LeadsTo

\* A new edge in front is a new first road to where it leads, and changes no other.
LEMMA RoadAdded ==
  ASSUME NEW s \in Seq(Edge), NEW v \in Handle, NEW r \in Road, NEW b
  PROVE  Roads(<<[vertex |-> v, road_id |-> r]>> \o s, b) =
           IF b = v THEN <<r>> \o Roads(s, b) ELSE Roads(s, b)
<1> DEFINE e == [vertex |-> v, road_id |-> r]
           f == Filter(s, To(b))
           q == Filter(<<e>> \o s, To(b))
<1>1. e \in Edge /\ e.vertex = v /\ e.road_id = r
  BY DEF Edge
<1> HIDE DEF e
<1>2. e \in To(b) <=> v = b
  BY <1>1, ToIs
<1>3. q = IF e \in To(b) THEN <<e>> \o f ELSE f
  BY <1>1, FilterPrepends
<1>4. f \in Seq(Edge)
  BY FilterPicks
<1>5. Roads(<<e>> \o s, b) = [k \in DOMAIN q |-> q[k].road_id] /\ Roads(s, b) = [k \in DOMAIN f |-> f[k].road_id]
  BY DEF Roads
<1> HIDE DEF f, q
<1>6. CASE b # v
  BY <1>2, <1>3, <1>5, <1>6 DEF e
<1>7. CASE b = v
  <2> DEFINE p == [k \in DOMAIN f |-> f[k].road_id]
             w == [k \in DOMAIN q |-> q[k].road_id]
  <2>1. q = <<e>> \o f
    BY <1>2, <1>3, <1>7
  <2>2. /\ q \in Seq(Edge) /\ Len(q) = 1 + Len(f) /\ q[1] = e
        /\ \A k \in 1 .. Len(f) : q[k + 1] = f[k]
    BY <1>1, <1>4, <2>1
  <2>3. /\ p \in Seq(Road) /\ Len(p) = Len(f) /\ \A k \in 1 .. Len(f) : p[k] = f[k].road_id
    <3>1. \A k \in 1 .. Len(f) : f[k] \in Edge
      BY <1>4
    <3>2. \A k \in 1 .. Len(f) : f[k].road_id \in Road
      BY <3>1, EdgeFields
    <3>3. DOMAIN f = 1 .. Len(f) /\ Len(f) \in Nat
      BY <1>4
    <3>4. QED
      BY <3>2, <3>3
  <2>4. DOMAIN w = 1 .. 1 + Len(f) /\ \A k \in 1 .. 1 + Len(f) : w[k] = q[k].road_id
    BY <2>2
  <2>5. /\ <<r>> \o p \in Seq(Road) /\ Len(<<r>> \o p) = 1 + Len(f)
        /\ (<<r>> \o p)[1] = r /\ \A k \in 1 .. Len(f) : (<<r>> \o p)[k + 1] = p[k]
    <3> HIDE DEF p
    <3>1. QED
      BY <2>3
  <2>6. Len(f) \in Nat
    BY <1>4
  <2> DEFINE z == <<r>> \o p
  <2>7. z \in Seq(Road) /\ Len(z) = 1 + Len(f) /\ DOMAIN z = 1 .. 1 + Len(f)
    BY <2>5
  <2>8. w[1] = z[1]
    BY <1>1, <2>2, <2>4, <2>5, <2>6
  <2>9. \A k \in 1 .. Len(f) : w[k + 1] = z[k + 1]
    <3> TAKE k \in 1 .. Len(f)
    <3>1. k + 1 \in 1 .. 1 + Len(f)
      BY <2>6
    <3>2. w[k + 1] = q[k + 1].road_id /\ z[k + 1] = f[k].road_id
      BY <2>3, <2>4, <2>5, <3>1
    <3>3. QED
      BY <2>2, <3>2
  <2> HIDE DEF p
  <2>10. \A k \in 1 .. 1 + Len(f) : w[k] = z[k]
    <3> TAKE k \in 1 .. 1 + Len(f)
    <3>1. k = 1 \/ (k - 1 \in 1 .. Len(f) /\ (k - 1) + 1 = k)
      BY <2>6
    <3> HIDE DEF w, z
    <3>2. QED
      BY <2>8, <2>9, <3>1
  <2>11. w = z
    <3>1. w = [k \in 1 .. 1 + Len(f) |-> w[k]]
      BY <2>4
    <3>2. z = [k \in 1 .. 1 + Len(f) |-> z[k]]
      BY <2>7
    <3> HIDE DEF w, z
    <3>3. QED
      BY <2>10, <3>1, <3>2
  <2>12. QED
    BY <1>5, <1>7, <2>11 DEF e, p
<1>8. QED
  BY <1>6, <1>7

\* Without an edge to v the roads to others are the same.
LEMMA RoadRemoved ==
  ASSUME NEW s \in Seq(Edge), NEW v, LeadsTo(s, v), NEW b, b # v
  PROVE  Roads(WithoutOne(s, v), b) = Roads(s, b)
<1> DEFINE r == WithoutOne(s, v)
<1>1. PICK i \in 1 .. Len(s) : FirstTo(s, v, i) /\ Drops(r, s, i)
  BY WithoutOneDrops
<1>2. r \in Seq(Edge)
  BY WithoutOneDrops
<1> HIDE DEF r
<1>3. s[i] \notin To(b)
  BY <1>1, ToIs DEF FirstTo
<1>4. Filter(r, To(b)) = Filter(s, To(b))
  BY <1>1, <1>2, <1>3, FilterSkips DEF Drops
<1>5. QED
  BY <1>4 DEF Roads, r

\* What an edge removed leaves: edges of the list, and if there were no two to v none to v.
LEMMA LeadsElsewhere ==
  ASSUME NEW s \in Seq(Edge), NEW v, LeadsTo(s, v)
  PROVE  /\ Len(WithoutOne(s, v)) = Len(s) - 1
         /\ \A k \in DOMAIN WithoutOne(s, v) : \E j \in DOMAIN s : WithoutOne(s, v)[k] = s[j]
         /\ (\A j, k \in DOMAIN s : ~(j < k /\ s[j].vertex = v /\ s[k].vertex = v))
               => ~LeadsTo(WithoutOne(s, v), v)
<1> DEFINE r == WithoutOne(s, v)
<1>1. PICK i \in 1 .. Len(s) : FirstTo(s, v, i) /\ Drops(r, s, i)
  BY WithoutOneDrops
<1>2. r \in Seq(Edge)
  BY WithoutOneDrops
<1> HIDE DEF r
<1>3. /\ Len(r) = Len(s) - 1 /\ DOMAIN r = 1 .. Len(r) /\ DOMAIN s = 1 .. Len(s) /\ Len(s) \in Nat
      /\ \A j \in 1 .. Len(r) : r[j] = IF j < i THEN s[j] ELSE s[j + 1]
  BY <1>1, <1>2 DEF Drops
<1>4. \A k \in DOMAIN r : \E j \in DOMAIN s : j # i /\ r[k] = s[j]
  <2> TAKE k \in DOMAIN r
  <2>1. CASE k < i
    BY <1>3, <2>1
  <2>2. CASE ~(k < i)
    <3>1. k + 1 \in DOMAIN s /\ k + 1 # i /\ r[k] = s[k + 1]
      BY <1>3, <2>2
    <3>2. QED
      BY <3>1
  <2>3. QED
    BY <2>1, <2>2
<1>5. ASSUME \A j, k \in DOMAIN s : ~(j < k /\ s[j].vertex = v /\ s[k].vertex = v), LeadsTo(r, v)
      PROVE  FALSE
  <2>1. PICK k \in DOMAIN r : r[k].vertex = v
    BY <1>5 DEF LeadsTo
  <2>2. PICK j \in DOMAIN s : j # i /\ r[k] = s[j]
    BY <1>4
  <2>3. i \in DOMAIN s /\ s[i].vertex = v /\ s[j].vertex = v
    BY <1>1, <1>3, <2>1, <2>2 DEF FirstTo
  <2>4. i < j \/ j < i
    BY <1>3, <2>2, <2>3
  <2>5. QED
    BY <1>5, <2>3, <2>4
<1>6. QED
  BY <1>3, <1>4, <1>5 DEF r

-----------------------------------------------------------------------------
(***************************************************************************)
(* The loop of graph_remove_vertex_undirect                                 *)
(***************************************************************************)

\* The same junctions are allocated, under the same names and at the same places.
SamePlaces(r, m) ==
  \A h \in Handle : /\ r[h] = Null <=> m[h] = Null
                    /\ m[h] # Null => r[h].idStr = m[h].idStr /\ r[h].geoHash = m[h].geoHash

\* Removing an edge moves and frees nobody.
LEMMA RemoveEdgeKeeps ==
  ASSUME NEW m \in Memory, NEW a \in Handle, NEW b \in Handle, a # b, m[a] \in Vertex, m[b] \in Vertex
  PROVE  RemoveEdge(m, a, b) \in Memory /\ SamePlaces(RemoveEdge(m, a, b), m)
<1> DEFINE r == RemoveEdge(m, a, b)
<1>1. CASE ~LeadsTo(m[a].edges, b)
  BY <1>1 DEF RemoveEdge, SamePlaces
<1>2. CASE LeadsTo(m[a].edges, b)
  <2>1. /\ r \in Memory
        /\ \A h \in Handle \ {a, b} : r[h] = m[h]
        /\ Becomes(r[a], m[a], WithoutOne(m[a].edges, b), 0, -1)
        /\ Becomes(r[b], m[b], m[b].edges, -1, 0)
    BY <1>2, RemoveEdgeDoes
  <2> HIDE DEF r
  <2>2. \A h \in {a, b} : /\ r[h] \in Vertex /\ m[h] \in Vertex
                          /\ r[h].idStr = m[h].idStr /\ r[h].geoHash = m[h].geoHash
    BY <2>1 DEF Becomes
  <2>3. \A h \in {a, b} : r[h] # Null /\ m[h] # Null
    BY <2>2, VertexFields
  <2>4. SamePlaces(r, m)
    BY <2>1, <2>2, <2>3 DEF SamePlaces
  <2>5. QED
    BY <2>1, <2>4 DEF r
<1>3. QED
  BY <1>1, <1>2

\* Both directions of a road between v and d.
LEMMA UndirectDoes ==
  ASSUME NEW m \in Memory, NEW v \in Handle, NEW d \in Handle, v # d, m[v] \in Vertex, m[d] \in Vertex
  PROVE  LET r == RemoveEdgeUndirect(m, v, d)
         IN  /\ r \in Memory /\ SamePlaces(r, m)
             /\ \A h \in Handle \ {v, d} : r[h] = m[h]
             /\ LeadsTo(m[v].edges, d) /\ LeadsTo(m[d].edges, v) =>
                  /\ Becomes(r[v], m[v], WithoutOne(m[v].edges, d), -1, -1)
                  /\ r[d].edges = WithoutOne(m[d].edges, v)
             /\ ~LeadsTo(m[v].edges, d) /\ ~LeadsTo(m[d].edges, v) => r = m
<1> DEFINE q == RemoveEdge(m, v, d)
           r == RemoveEdge(q, d, v)
<1>1. RemoveEdgeUndirect(m, v, d) = r
  BY DEF RemoveEdgeUndirect
<1>2. q \in Memory /\ SamePlaces(q, m)
  BY RemoveEdgeKeeps
<1>3. \A h \in Handle \ {v, d} : q[h] = m[h]
  <2>1. CASE LeadsTo(m[v].edges, d)
    BY <2>1, RemoveEdgeDoes
  <2>2. CASE ~LeadsTo(m[v].edges, d)
    BY <2>2 DEF RemoveEdge
  <2>3. QED
    BY <2>1, <2>2
<1>4. q[v] \in Vertex /\ q[d] \in Vertex
  <2> HIDE DEF q
  <2>1. m[v] # Null /\ m[d] # Null
    BY VertexFields
  <2>2. q[v] # Null /\ q[d] # Null
    BY <1>2, <2>1 DEF SamePlaces
  <2>3. QED
    BY <1>2, <2>2 DEF Memory
<1>5. LeadsTo(m[v].edges, d) =>
        /\ Becomes(q[v], m[v], WithoutOne(m[v].edges, d), 0, -1)
        /\ Becomes(q[d], m[d], m[d].edges, -1, 0)
  BY RemoveEdgeDoes
<1>6. ~LeadsTo(m[v].edges, d) => q = m
  BY DEF RemoveEdge
<1> HIDE DEF q
<1>7. r \in Memory /\ SamePlaces(r, q)
  BY <1>2, <1>4, RemoveEdgeKeeps
<1>8. \A h \in Handle \ {v, d} : r[h] = q[h]
  <2>1. CASE LeadsTo(q[d].edges, v)
    BY <1>2, <1>4, <2>1, RemoveEdgeDoes
  <2>2. CASE ~LeadsTo(q[d].edges, v)
    BY <2>2 DEF RemoveEdge
  <2>3. QED
    BY <2>1, <2>2
<1>9. LeadsTo(q[d].edges, v) =>
        /\ Becomes(r[d], q[d], WithoutOne(q[d].edges, v), 0, -1)
        /\ Becomes(r[v], q[v], q[v].edges, -1, 0)
  BY <1>2, <1>4, RemoveEdgeDoes
<1>10. ~LeadsTo(q[d].edges, v) => r = q
  BY DEF RemoveEdge
<1> HIDE DEF r
<1>11. SamePlaces(r, m)
  BY <1>2, <1>7 DEF SamePlaces
<1>12. ASSUME LeadsTo(m[v].edges, d), LeadsTo(m[d].edges, v)
       PROVE  /\ Becomes(r[v], m[v], WithoutOne(m[v].edges, d), -1, -1)
              /\ r[d].edges = WithoutOne(m[d].edges, v)
  <2>1. /\ Becomes(q[v], m[v], WithoutOne(m[v].edges, d), 0, -1)
        /\ Becomes(q[d], m[d], m[d].edges, -1, 0)
    BY <1>5, <1>12
  <2>2. q[d].edges = m[d].edges
    BY <2>1 DEF Becomes
  <2>3. /\ Becomes(r[d], q[d], WithoutOne(q[d].edges, v), 0, -1)
        /\ Becomes(r[v], q[v], q[v].edges, -1, 0)
    BY <1>9, <1>12, <2>2
  <2>4. r[d].edges = WithoutOne(m[d].edges, v)
    BY <2>2, <2>3 DEF Becomes
  <2>5. /\ m[v].indegree \in Int /\ m[v].outdegree \in Int
    BY VertexFields
  <2>6. /\ r[v] \in Vertex /\ r[v].idStr = m[v].idStr /\ r[v].geoHash = m[v].geoHash
        /\ r[v].edges = WithoutOne(m[v].edges, d)
    BY <2>1, <2>3 DEF Becomes
  <2>7. r[v].indegree = m[v].indegree + (-1) /\ r[v].outdegree = m[v].outdegree + (-1)
    <3>1. q[v].indegree = m[v].indegree + 0 /\ q[v].outdegree = m[v].outdegree + (-1)
      BY <2>1 DEF Becomes
    <3>2. r[v].indegree = q[v].indegree + (-1) /\ r[v].outdegree = q[v].outdegree + 0
      BY <2>3 DEF Becomes
    <3>3. QED
      BY <2>5, <3>1, <3>2
  <2>8. QED
    BY <2>4, <2>6, <2>7 DEF Becomes
<1>13. QED
  BY <1>1, <1>3, <1>6, <1>7, <1>8, <1>10, <1>11, <1>12

\* The memory when the loop has passed the first k vertices.
Passed(m, d, k) ==
  /\ m \in Memory /\ SamePlaces(m, mem)
  /\ \A j \in 1 .. Len(vertices) : vertices[j] # d =>
       LET v == vertices[j]
       IN  IF j > k
             THEN m[v] = mem[v] /\ (LeadsTo(m[d].edges, v) <=> LeadsTo(mem[d].edges, v))
             ELSE IF LeadsTo(mem[v].edges, d)
                    THEN Becomes(m[v], mem[v], WithoutOne(mem[v].edges, d), -1, -1)
                    ELSE m[v] = mem[v]

\* A road from v to d is one from d to v.
LEMMA BothLead ==
  ASSUME mem \in Memory, ListOK, TwoWay(mem, Listed), NEW a \in Listed, NEW b \in Listed, a # b
  PROVE  LeadsTo(mem[a].edges, b) <=> LeadsTo(mem[b].edges, a)
<1>1. a \in Handle /\ b \in Handle /\ mem[a] # Null /\ mem[b] # Null
  BY Members DEF ListOK, Listed
<1>2. mem[a].edges \in Seq(Edge) /\ mem[b].edges \in Seq(Edge)
  BY <1>1, InMemory, VertexFields
<1>3. Roads(mem[a].edges, b) = Roads(mem[b].edges, a)
  BY RoadsToIs DEF TwoWay
<1>4. QED
  BY <1>2, <1>3, LeadsToRoad

\* A turn of the loop at another vertex than d.
LEMMA PassesNext ==
  ASSUME mem \in Memory, ListOK, TwoWay(mem, Listed), NEW d \in Listed,
         NEW k \in 0 .. Len(vertices) - 1, NEW m, Passed(m, d, k), vertices[k + 1] # d
  PROVE  Passed(RemoveEdgeUndirect(m, vertices[k + 1], d), d, k + 1)
<1> DEFINE v == vertices[k + 1]
           r == RemoveEdgeUndirect(m, v, d)
           N == Len(vertices)
<1>1. /\ vertices \in Seq(Handle) /\ N \in Nat /\ k + 1 \in 1 .. N
      /\ Listed \subseteq Handle /\ \A j \in 1 .. N : vertices[j] \in Listed /\ vertices[j] \in Handle
  BY Members DEF ListOK, Listed
<1>2. \A h \in Listed : mem[h] # Null
  BY DEF ListOK
<1>3. m \in Memory /\ SamePlaces(m, mem)
  BY DEF Passed
<1>4. m[v] \in Vertex /\ m[d] \in Vertex
  <2>1. m[v] # Null /\ m[d] # Null
    BY <1>1, <1>2, <1>3 DEF SamePlaces
  <2>2. QED
    BY <1>1, <1>3, <2>1, InMemory
<1>5. \A j \in 1 .. N : vertices[j] = v => j = k + 1
  BY <1>1, Members DEF ListOK
<1>6. m[v] = mem[v] /\ (LeadsTo(m[d].edges, v) <=> LeadsTo(mem[d].edges, v))
  <2>1. k + 1 > k
    OBVIOUS
  <2>2. QED
    BY <1>1, <2>1 DEF Passed
<1>7. LeadsTo(mem[v].edges, d) <=> LeadsTo(mem[d].edges, v)
  BY <1>1, BothLead
<1>8. LeadsTo(m[v].edges, d) <=> LeadsTo(m[d].edges, v)
  BY <1>6, <1>7
<1> HIDE DEF r, v
<1>9. v \in Handle /\ d \in Handle /\ v # d
  BY <1>1 DEF v
<1>10. /\ r \in Memory /\ SamePlaces(r, m)
       /\ \A h \in Handle \ {v, d} : r[h] = m[h]
       /\ LeadsTo(m[v].edges, d) /\ LeadsTo(m[d].edges, v) =>
            /\ Becomes(r[v], m[v], WithoutOne(m[v].edges, d), -1, -1)
            /\ r[d].edges = WithoutOne(m[d].edges, v)
       /\ ~LeadsTo(m[v].edges, d) /\ ~LeadsTo(m[d].edges, v) => r = m
  BY <1>3, <1>4, <1>9, UndirectDoes DEF r
<1>11. SamePlaces(r, mem)
  BY <1>3, <1>10 DEF SamePlaces
<1>12. \A u \in Handle \ {v} : LeadsTo(r[d].edges, u) <=> LeadsTo(m[d].edges, u)
  <2>1. CASE LeadsTo(m[v].edges, d)
    <3> TAKE u \in Handle \ {v}
    <3>1. m[d].edges \in Seq(Edge) /\ LeadsTo(m[d].edges, v)
      BY <1>4, <1>8, <2>1, VertexFields
    <3>2. Roads(WithoutOne(m[d].edges, v), u) = Roads(m[d].edges, u)
      BY <3>1, RoadRemoved
    <3>3. WithoutOne(m[d].edges, v) \in Seq(Edge)
      BY <3>1, WithoutOneDrops
    <3>4. QED
      BY <1>8, <1>10, <2>1, <3>1, <3>2, <3>3, LeadsToRoad
  <2>2. CASE ~LeadsTo(m[v].edges, d)
    BY <1>8, <1>10, <2>2
  <2>3. QED
    BY <2>1, <2>2
<1>13. ASSUME NEW j \in 1 .. N, vertices[j] # d
       PROVE  LET u == vertices[j]
              IN  IF j > k + 1
                    THEN r[u] = mem[u] /\ (LeadsTo(r[d].edges, u) <=> LeadsTo(mem[d].edges, u))
                    ELSE IF LeadsTo(mem[u].edges, d)
                           THEN Becomes(r[u], mem[u], WithoutOne(mem[u].edges, d), -1, -1)
                           ELSE r[u] = mem[u]
  <2> DEFINE u == vertices[j]
  <2>1. IF j > k
          THEN m[u] = mem[u] /\ (LeadsTo(m[d].edges, u) <=> LeadsTo(mem[d].edges, u))
          ELSE IF LeadsTo(mem[u].edges, d)
                 THEN Becomes(m[u], mem[u], WithoutOne(mem[u].edges, d), -1, -1)
                 ELSE m[u] = mem[u]
    BY <1>13 DEF Passed
  <2>2. u \in Handle /\ u # d
    BY <1>1, <1>13
  <2>3. CASE j = k + 1
    <3>1. u = v
      BY <2>3 DEF v
    <3>2. ~(j > k + 1)
      BY <2>3
    <3>3. CASE LeadsTo(mem[v].edges, d)
      <4>1. Becomes(r[v], mem[v], WithoutOne(mem[v].edges, d), -1, -1)
        BY <1>6, <1>8, <1>10, <3>3
      <4>2. QED
        BY <3>1, <3>2, <3>3, <4>1
    <3>4. CASE ~LeadsTo(mem[v].edges, d)
      <4>1. r[v] = mem[v]
        BY <1>6, <1>8, <1>10, <3>4
      <4>2. QED
        BY <3>1, <3>2, <3>4, <4>1
    <3>5. QED
      BY <3>3, <3>4
  <2>4. CASE j # k + 1
    <3>1. u # v /\ r[u] = m[u] /\ (j > k + 1 <=> j > k)
      BY <1>1, <1>5, <1>10, <2>2, <2>4
    <3>2. LeadsTo(r[d].edges, u) <=> LeadsTo(m[d].edges, u)
      BY <1>12, <2>2, <3>1
    <3> HIDE DEF u
    <3>3. QED
      BY <2>1, <3>1, <3>2 DEF u
  <2>5. QED
    BY <2>3, <2>4
<1>14. QED
  BY <1>10, <1>11, <1>13 DEF Passed, r, v

\* Every turn of the loop passes the next vertex.
LEMMA UnlinkedPasses ==
  ASSUME mem \in Memory, ListOK, TwoWay(mem, Listed), NEW d \in Listed, NEW n \in 0 .. Len(vertices)
  PROVE  Passed(Unlinked(d, n), d, n)
<1> DEFINE N == Len(vertices)
           Kept == {x \in Memory : \A h \in Listed : x[h] # Null}
           Step(k, x) == IF vertices[k] = d THEN x ELSE RemoveEdgeUndirect(x, vertices[k], d)
           Goes(f) == f = [k \in 0 .. N |-> IF k = 0 THEN mem
                             ELSE IF vertices[k] = d THEN f[k - 1]
                             ELSE RemoveEdgeUndirect(f[k - 1], vertices[k], d)]
           g == [k \in 1 .. N |-> [x \in Kept |-> Step(k, x)]]
           upTo == CHOOSE f : Goes(f)
<1>1. /\ vertices \in Seq(Handle) /\ N \in Nat /\ Listed \subseteq Handle
      /\ \A j \in 1 .. N : vertices[j] \in Listed
  BY Members DEF ListOK, Listed
<1>2. Unlinked(d, n) = upTo[n]
  BY DEF Unlinked
<1>3. mem \in Kept
  BY DEF ListOK
<1>4. \A k \in 1 .. N : \A x \in Kept : Step(k, x) \in Kept
  <2> SUFFICES ASSUME NEW k \in 1 .. N, NEW x \in Kept, vertices[k] # d
               PROVE  RemoveEdgeUndirect(x, vertices[k], d) \in Kept
    OBVIOUS
  <2>1. /\ x \in Memory /\ vertices[k] \in Handle /\ d \in Handle
        /\ x[vertices[k]] # Null /\ x[d] # Null /\ \A h \in Listed : x[h] # Null
    BY <1>1
  <2>2. x[vertices[k]] \in Vertex /\ x[d] \in Vertex
    BY <2>1, InMemory
  <2>3. /\ RemoveEdgeUndirect(x, vertices[k], d) \in Memory
        /\ SamePlaces(RemoveEdgeUndirect(x, vertices[k], d), x)
    BY <2>1, <2>2, UndirectDoes
  <2>4. QED
    BY <1>1, <2>1, <2>3 DEF SamePlaces
<1>5. \E f : Goes(f)
  <2> HIDE DEF N, Kept, Step
  <2>1. g \in [1 .. N -> [Kept -> Kept]]
    BY <1>4
  <2>2. \A k \in 1 .. N : \A x \in Kept : g[k][x] = Step(k, x)
    OBVIOUS
  <2> HIDE DEF g
  <2>3. PICK f : Unfolds(f, N, Kept, mem, g)
    BY <1>1, <1>3, <2>1, Recursion
  <2>4. \A k \in 0 .. N : k # 0 => k \in 1 .. N /\ k - 1 \in 0 .. N
    BY <1>1
  <2>5. /\ f \in [0 .. N -> Kept] /\ f[0] = mem
        /\ \A k \in 1 .. N : f[k] = g[k][f[k - 1]]
    BY <2>3 DEF Unfolds
  <2>6. \A k \in 0 .. N : f[k] = IF k = 0 THEN mem ELSE Step(k, f[k - 1])
    BY <2>2, <2>4, <2>5
  <2>7. Goes(f)
    BY <2>5, <2>6 DEF Step
  <2>8. QED
    BY <2>7
<1>6. Goes(upTo)
  <2> HIDE DEF Goes
  <2>1. QED
    BY <1>5
<1> HIDE DEF N, upTo
<1>7. \A k \in 0 .. N : upTo[k] = IF k = 0 THEN mem ELSE Step(k, upTo[k - 1])
  BY <1>6
<1> HIDE DEF Goes, Kept
<1> DEFINE OK == {k \in 0 .. N : Passed(upTo[k], d, k)}
<1>8. 0 \in OK
  <2>1. upTo[0] = mem
    BY <1>1, <1>7
  <2>2. Passed(mem, d, 0)
    BY DEF Passed, SamePlaces
  <2>3. QED
    BY <1>1, <2>1, <2>2
<1>9. ASSUME NEW k \in 0 .. N - 1, k \in OK PROVE k + 1 \in OK
  <2>1. k + 1 \in 1 .. N /\ k + 1 \in 0 .. N /\ (k + 1) - 1 = k /\ k + 1 # 0
    BY <1>1
  <2>2. upTo[k + 1] = Step(k + 1, upTo[k]) /\ Passed(upTo[k], d, k)
    BY <1>7, <1>9, <2>1
  <2>3. CASE vertices[k + 1] # d
    <3>1. Passed(RemoveEdgeUndirect(upTo[k], vertices[k + 1], d), d, k + 1)
      BY <2>2, <2>3, PassesNext DEF N
    <3>2. QED
      BY <2>1, <2>2, <2>3, <3>1
  <2>4. CASE vertices[k + 1] = d
    <3>1. upTo[k + 1] = upTo[k]
      BY <2>2, <2>4
    <3>2. \A j \in 1 .. N : vertices[j] # d => (j > k + 1 <=> j > k)
      BY <2>1, <2>4
    <3>3. Passed(upTo[k], d, k + 1)
      BY <2>2, <3>2 DEF Passed, N
    <3>4. QED
      BY <2>1, <3>1, <3>3
  <2>5. QED
    BY <2>3, <2>4
<1>10. n \in OK
  <2> HIDE DEF OK
  <2>1. 0 .. N \subseteq OK
    BY <1>1, <1>8, <1>9, UpTo
  <2>2. QED
    BY <2>1 DEF N
<1>11. QED
  BY <1>2, <1>10

-----------------------------------------------------------------------------
(***************************************************************************)
(* The steps                                                                *)
(***************************************************************************)

\* The list without d: every other vertex once.
LEMMA ListWithout ==
  ASSUME NEW s \in Seq(Handle), \A k, l \in DOMAIN s : s[k] = s[l] => k = l, NEW d
  PROVE  LET r == Filter(s, Handle \ {d})
         IN  /\ r \in Seq(Handle) /\ ToSet(r) = ToSet(s) \ {d}
             /\ \A k, l \in DOMAIN r : r[k] = r[l] => k = l
<1> DEFINE r == Filter(s, Handle \ {d})
<1>1. r \in Seq(Handle)
  BY FilterPicks
<1>2. PICK g : Picks(s, Handle \ {d}, Len(s), g, r)
  BY FilterPicks
<1> HIDE DEF r
<1>3. DOMAIN s = 1 .. Len(s) /\ DOMAIN r = 1 .. Len(r) /\ Len(r) \in Nat /\ Len(s) \in Nat
  BY <1>1
<1>4. /\ \A j \in 1 .. Len(r) : g[j] \in 1 .. Len(s) /\ r[j] = s[g[j]] /\ r[j] \in Handle \ {d}
      /\ \A i, j \in 1 .. Len(r) : i < j => g[i] < g[j]
      /\ \A k \in 1 .. Len(s) : s[k] \in Handle \ {d} => \E j \in 1 .. Len(r) : g[j] = k
  BY <1>2 DEF Picks
<1>5. ASSUME NEW k \in DOMAIN r, NEW l \in DOMAIN r, r[k] = r[l] PROVE k = l
  <2>1. g[k] = g[l] /\ g[k] \in 1 .. Len(s) /\ g[l] \in 1 .. Len(s)
    BY <1>3, <1>4, <1>5
  <2>2. ~(k < l) /\ ~(l < k)
    BY <1>3, <1>4, <2>1
  <2>3. QED
    BY <1>3, <2>2
<1>6. ASSUME NEW x PROVE x \in ToSet(r) <=> x \in ToSet(s) /\ x # d
  <2>1. ASSUME x \in ToSet(r) PROVE x \in ToSet(s) /\ x # d
    <3>1. PICK j \in 1 .. Len(r) : r[j] = x
      BY <1>1, <2>1, Members
    <3>2. s[g[j]] = x /\ g[j] \in 1 .. Len(s) /\ x # d
      BY <1>4, <3>1
    <3>3. QED
      BY <3>2, Members
  <2>2. ASSUME x \in ToSet(s), x # d PROVE x \in ToSet(r)
    <3>1. PICK k \in 1 .. Len(s) : s[k] = x
      BY <2>2, Members
    <3>2. s[k] \in Handle \ {d}
      BY <2>2, <3>1
    <3>3. PICK j \in 1 .. Len(r) : g[j] = k
      BY <1>4, <3>2
    <3>4. r[j] = x
      BY <1>4, <3>1, <3>3
    <3>5. QED
      BY <1>1, <3>4, Members
  <2>3. QED
    BY <2>1, <2>2
<1>7. ToSet(r) = ToSet(s) \ {d}
  BY <1>6
<1>8. QED
  BY <1>1, <1>5, <1>7 DEF r

\* getVertex finds a listed vertex or none.
LEMMA GetVertexIs ==
  ASSUME vertices \in Seq(Handle), NEW id, NEW v, v = GetVertex(vertices, mem, id), v # Null
  PROVE  /\ v \in Listed
         /\ \E k \in 1 .. Len(vertices) :
              v = vertices[k] /\ k = SelectInSeq(vertices, LAMBDA h : mem[h].idStr = id)
<1> DEFINE k == SelectInSeq(vertices, LAMBDA h : mem[h].idStr = id)
           I == {i \in 1 .. Len(vertices) : mem[vertices[i]].idStr = id}
<1>1. v = IF k = 0 THEN Null ELSE vertices[k]
  BY DEF GetVertex
<1>2. k = IF I # {} THEN Min(I) ELSE 0
  BY DEF SelectInSeq
<1>3. I # {} /\ k = Min(I) /\ v = vertices[k]
  BY <1>1, <1>2
<1>4. Min(I) \in I
  <2>1. I \in SUBSET Nat
    OBVIOUS
  <2> HIDE DEF I, k
  <2>2. \E m \in I : \A j \in I : m <= j
    BY <1>3, <2>1, Least
  <2>3. Min(I) = CHOOSE m \in I : \A j \in I : m <= j
    BY DEF Min
  <2>4. QED
    BY <2>2, <2>3
<1>5. k \in 1 .. Len(vertices)
  BY <1>3, <1>4
<1>6. v \in Listed
  BY <1>3, <1>5, Members DEF Listed
<1>7. QED
  BY <1>3, <1>5, <1>6

\* How many messages there were.
LEMMA Counts ==
  /\ NothingSent \in [nodes : 0 .. MaxNodes, edges : 0 .. MaxEdges]
  /\ \A s \in [nodes : 0 .. MaxNodes, edges : 0 .. MaxEdges] :
       /\ s.nodes < MaxNodes =>
            [s EXCEPT !.nodes = @ + 1] \in [nodes : 0 .. MaxNodes, edges : 0 .. MaxEdges]
       /\ s.edges < MaxEdges =>
            [s EXCEPT !.edges = @ + 1] \in [nodes : 0 .. MaxNodes, edges : 0 .. MaxEdges]
<1>1. MaxNodes \in Nat /\ MaxEdges \in Nat
  BY GraphAssumption DEF GraphAssumption
<1> DEFINE A == 0 .. MaxNodes
           B == 0 .. MaxEdges
<1>2. 0 \in A /\ 0 \in B /\ \A k \in A : k < MaxNodes => k + 1 \in A
  BY <1>1
<1>3. \A k \in B : k < MaxEdges => k + 1 \in B
  BY <1>1
<1> HIDE DEF A, B
<1>4. NothingSent \in [nodes : A, edges : B]
  BY <1>2 DEF NothingSent
<1>5. ASSUME NEW s \in [nodes : A, edges : B]
      PROVE  /\ s.nodes < MaxNodes => [s EXCEPT !.nodes = @ + 1] \in [nodes : A, edges : B]
             /\ s.edges < MaxEdges => [s EXCEPT !.edges = @ + 1] \in [nodes : A, edges : B]
  BY <1>2, <1>3
<1>6. QED
  BY <1>4, <1>5 DEF A, B

\* No module, no map.
LEMMA InitInv == Init => IInv
<1> SUFFICES ASSUME Init PROVE IInv
  OBVIOUS
<1>1. Counters
  BY Counts DEF Init, Counters
<1>2. vertices = <<>> /\ ToSet(vertices) = {}
  BY DEF Init, ToSet
<1>3. ListOK
  BY <1>2 DEF ListOK, Listed
<1>4. mem \in Memory /\ \A h \in Handle : mem[h] = Null
  BY DEF Init, Memory
<1>5. Allocated(mem) /\ Sound(mem, Listed) /\ TwoWay(mem, Listed)
  BY <1>2, <1>4 DEF Allocated, Sound, TwoWay, Listed
<1>6. QED
  BY <1>1, <1>3, <1>4, <1>5 DEF IInv

\* The map stays as it is.
LEMMA MapKept ==
  ASSUME IInv, Counters', UNCHANGED <<vertices, mem>>, damaged' = FALSE => damaged = FALSE
  PROVE  IInv'
<1>1. Counters /\ (damaged' = damaged \/ damaged' = TRUE)
  BY DEF IInv, Counters
<1>2. Listed' = Listed
  BY DEF Listed
<1>3. ListOK' /\ mem' \in Memory /\ Allocated(mem')
  BY <1>2 DEF IInv, ListOK
<1>4. ~damaged' => Sound(mem', Listed') /\ TwoWay(mem', Listed')
  BY <1>1, <1>2 DEF IInv
<1>5. QED
  BY <1>3, <1>4 DEF IInv

\* graph_free leaves nothing.
LEMMA CleanupInv ==
  ASSUME IInv, Cleanup
  PROVE  IInv'
<1>1. Counters'
  BY Counts DEF Cleanup, Counters
<1>2. vertices' = <<>> /\ Listed' = {}
  BY DEF Cleanup, GraphFree, Listed, ToSet
<1>3. ListOK'
  BY <1>2 DEF ListOK
<1>4. mem' \in Memory /\ \A h \in Handle : mem'[h] = Null
  BY DEF Cleanup, GraphFree, Memory
<1>5. Allocated(mem') /\ Sound(mem', Listed') /\ TwoWay(mem', Listed')
  BY <1>2, <1>4 DEF Allocated, Sound, TwoWay
<1>6. QED
  BY <1>1, <1>3, <1>4, <1>5 DEF IInv

\* Where no edge leads there are no roads.
LEMMA NoRoads ==
  ASSUME NEW s \in Seq(Edge), NEW b, ~LeadsTo(s, b), NEW t \in Seq(Edge), NEW c, ~LeadsTo(t, c)
  PROVE  Roads(s, b) = Roads(t, c)
<1>1. DOMAIN Roads(s, b) = {} /\ DOMAIN Roads(t, c) = {}
  BY LeadsToRoad
<1>2. /\ Roads(s, b) = [k \in DOMAIN Roads(s, b) |-> Roads(s, b)[k]]
      /\ Roads(t, c) = [k \in DOMAIN Roads(t, c) |-> Roads(t, c)[k]]
  BY DEF Roads
<1> DEFINE f == Roads(s, b)
           g == Roads(t, c)
<1> HIDE DEF f, g
<1>3. f = [k \in {} |-> f[k]] /\ g = [k \in {} |-> g[k]]
  BY <1>1, <1>2 DEF f, g
<1>4. f = g
  BY <1>3
<1>5. QED
  BY <1>4 DEF f, g

\* vertex_create and graph_add_vertex: nothing leads to the new vertex or from it.
LEMMA NewNodeInv ==
  ASSUME IInv, NEW id \in Id, NewNode(id)
  PROVE  IInv'
<1>1. Counters' /\ ~damaged /\ damaged' = damaged
  BY Counts DEF NewNode, Ready, IInv, Counters
<1> DEFINE x == [idStr |-> id, geoHash |-> Position[id], edges |-> <<>>, indegree |-> 0, outdegree |-> 0]
<1>2. PICK h \in Handle : mem[h] = Null /\ mem' = [mem EXCEPT ![h] = x] /\ vertices' = <<h>> \o vertices
  BY DEF NewNode
<1>3. /\ x \in Vertex /\ x.idStr = id /\ x.geoHash = Position[id] /\ x.edges = <<>>
      /\ x.indegree = 0 /\ x.outdegree = 0
  BY GraphAssumption DEF Vertex, GraphAssumption
<1>4. x # Null
  BY <1>3, VertexFields
<1> HIDE DEF x
<1>5. /\ mem \in Memory /\ vertices \in Seq(Handle) /\ Allocated(mem)
      /\ \A k, l \in DOMAIN vertices : vertices[k] = vertices[l] => k = l
      /\ \A v \in Listed : mem[v] # Null
      /\ Sound(mem, Listed) /\ TwoWay(mem, Listed)
  BY <1>1 DEF IInv, ListOK
<1>6. mem' \in Memory /\ mem'[h] = x /\ \A v \in Handle \ {h} : mem'[v] = mem[v]
  BY <1>2, <1>3, <1>5 DEF Memory
<1>7. Listed \subseteq Handle /\ h \notin Listed
  BY <1>2, <1>5, Members DEF Listed
<1> DEFINE N == Len(vertices)
<1>8. /\ vertices' \in Seq(Handle) /\ Len(vertices') = N + 1 /\ N \in Nat
      /\ vertices'[1] = h /\ \A k \in 1 .. N : vertices'[k + 1] = vertices[k]
  BY <1>2, <1>5
<1>9. \A k \in 1 .. N + 1 : k = 1 \/ (k - 1 \in 1 .. N /\ (k - 1) + 1 = k)
  BY <1>8
<1>10. /\ vertices'[1] = h
       /\ \A k \in 1 .. N + 1 : k # 1 => k - 1 \in 1 .. N /\ vertices'[k] = vertices[k - 1]
  BY <1>8, <1>9
<1>11. \A k \in 1 .. N : vertices[k] \in Listed
  BY <1>5, Members DEF Listed
<1>12. Listed' = Listed \cup {h}
  <2>1. ASSUME NEW v PROVE v \in ToSet(vertices') <=> v \in Listed \/ v = h
    <3>1. v \in ToSet(vertices') <=> \E k \in 1 .. N + 1 : vertices'[k] = v
      BY <1>8, Members
    <3>2. v \in Listed <=> \E k \in 1 .. N : vertices[k] = v
      BY <1>5, Members DEF Listed
    <3>3. 1 \in 1 .. N + 1 /\ \A k \in 1 .. N : k + 1 \in 1 .. N + 1
      BY <1>8
    <3>4. QED
      BY <1>8, <1>10, <3>1, <3>2, <3>3
  <2>2. QED
    BY <2>1 DEF Listed
<1>13. \A k, l \in DOMAIN vertices' : vertices'[k] = vertices'[l] => k = l
  <2>1. DOMAIN vertices' = 1 .. N + 1 /\ DOMAIN vertices = 1 .. N
    BY <1>5, <1>8
  <2> SUFFICES ASSUME NEW k \in 1 .. N + 1, NEW l \in 1 .. N + 1, vertices'[k] = vertices'[l]
               PROVE  k = l
    BY <2>1
  <2>2. CASE k = 1
    BY <1>7, <1>10, <1>11, <2>2
  <2>3. CASE l = 1
    BY <1>7, <1>10, <1>11, <2>3
  <2>4. CASE k # 1 /\ l # 1
    <3>1. k - 1 = l - 1
      BY <1>5, <1>10, <2>1, <2>4
    <3>2. QED
      BY <1>8, <3>1
  <2>5. QED
    BY <2>2, <2>3, <2>4
<1>14. ListOK'
  BY <1>4, <1>5, <1>6, <1>7, <1>8, <1>12, <1>13 DEF ListOK
<1>15. Allocated(mem')
  BY <1>3, <1>5, <1>6 DEF Allocated
<1>16. Sound(mem', Listed')
  <2>1. \A v \in Handle : mem'[v] # Null => v \in Listed'
    BY <1>5, <1>6, <1>12 DEF Sound
  <2>2. ASSUME NEW v \in Listed'
        PROVE  /\ mem'[v].indegree = Len(mem'[v].edges) /\ mem'[v].outdegree = Len(mem'[v].edges)
               /\ \A k \in DOMAIN mem'[v].edges : mem'[v].edges[k].vertex \in Listed'
    <3>1. CASE v = h
      BY <1>3, <1>6, <3>1
    <3>2. CASE v # h
      <4>1. v \in Listed /\ mem'[v] = mem[v]
        BY <1>6, <1>7, <1>12, <3>2
      <4>2. QED
        BY <1>5, <1>12, <4>1 DEF Sound
    <3>3. QED
      BY <3>1, <3>2
  <2>3. QED
    BY <2>1, <2>2 DEF Sound
<1>17. \A v \in Listed' : mem'[v].edges \in Seq(Edge)
  BY <1>4, <1>6, <1>14, <1>7, <1>12, InMemory, VertexFields DEF ListOK
<1>18. \A v \in Listed : ~LeadsTo(mem'[v].edges, h)
  BY <1>5, <1>6, <1>7 DEF Sound, LeadsTo
<1>19. \A v : ~LeadsTo(mem'[h].edges, v)
  BY <1>3, <1>6 DEF LeadsTo
<1>20. TwoWay(mem', Listed')
  <2> SUFFICES ASSUME NEW a \in Listed', NEW b \in Listed', a # b
               PROVE  Roads(mem'[a].edges, b) = Roads(mem'[b].edges, a)
    BY RoadsToIs DEF TwoWay
  <2>1. mem'[a].edges \in Seq(Edge) /\ mem'[b].edges \in Seq(Edge)
    BY <1>17
  <2>2. CASE a = h
    <3>1. ~LeadsTo(mem'[a].edges, b) /\ ~LeadsTo(mem'[b].edges, a)
      BY <1>12, <1>18, <1>19, <2>2
    <3>2. QED
      BY <2>1, <3>1, NoRoads
  <2>3. CASE b = h
    <3>1. ~LeadsTo(mem'[a].edges, b) /\ ~LeadsTo(mem'[b].edges, a)
      BY <1>12, <1>18, <1>19, <2>3
    <3>2. QED
      BY <2>1, <3>1, NoRoads
  <2>4. CASE a # h /\ b # h
    <3>1. a \in Listed /\ b \in Listed /\ mem'[a] = mem[a] /\ mem'[b] = mem[b]
      BY <1>6, <1>7, <1>12, <2>4
    <3>2. RoadsTo(mem, a, b) = RoadsTo(mem, b, a)
      BY <1>5, <3>1 DEF TwoWay
    <3>3. QED
      BY <3>1, <3>2, RoadsToIs
  <2>5. QED
    BY <2>2, <2>3, <2>4
<1>21. QED
  BY <1>1, <1>6, <1>14, <1>15, <1>16, <1>20 DEF IInv

\* Two vertices after an edge in each direction.
LEMMA BothEdges ==
  ASSUME NEW m \in Memory, NEW a \in Handle, NEW b \in Handle, m[a] \in Vertex, m[b] \in Vertex,
         NEW r \in Road
  PROVE  LET q == AddEdge(AddEdge(m, a, b, r), b, a, r)
             to(v) == <<[vertex |-> v, road_id |-> r]>>
         IN  /\ q \in Memory /\ SamePlaces(q, m)
             /\ \A h \in Handle \ {a, b} : q[h] = m[h]
             /\ a # b => /\ Becomes(q[a], m[a], to(b) \o m[a].edges, 1, 1)
                         /\ Becomes(q[b], m[b], to(a) \o m[b].edges, 1, 1)
             /\ a = b => Becomes(q[a], m[a], to(a) \o (to(a) \o m[a].edges), 2, 2)
<1> DEFINE p == AddEdge(m, a, b, r)
           q == AddEdge(p, b, a, r)
           to(v) == <<[vertex |-> v, road_id |-> r]>>
<1>1. /\ p \in Memory
      /\ \A h \in Handle \ {a, b} : p[h] = m[h]
      /\ a # b => Becomes(p[a], m[a], to(b) \o m[a].edges, 0, 1) /\ Becomes(p[b], m[b], m[b].edges, 1, 0)
      /\ a = b => Becomes(p[a], m[a], to(b) \o m[a].edges, 1, 1)
  BY AddEdgeDoes
<1> HIDE DEF p
<1>2. p[a] \in Vertex /\ p[b] \in Vertex
  BY <1>1 DEF Becomes
<1>3. /\ q \in Memory
      /\ \A h \in Handle \ {b, a} : q[h] = p[h]
      /\ b # a => Becomes(q[b], p[b], to(a) \o p[b].edges, 0, 1) /\ Becomes(q[a], p[a], p[a].edges, 1, 0)
      /\ b = a => Becomes(q[b], p[b], to(a) \o p[b].edges, 1, 1)
  BY <1>1, <1>2, AddEdgeDoes
<1> HIDE DEF q, to
<1>4. /\ m[a].indegree \in Int /\ m[a].outdegree \in Int /\ m[b].indegree \in Int /\ m[b].outdegree \in Int
  BY VertexFields
<1>5. \A h \in Handle \ {a, b} : q[h] = m[h]
  BY <1>1, <1>3
<1>6. ASSUME a # b
      PROVE  /\ Becomes(q[a], m[a], to(b) \o m[a].edges, 1, 1)
             /\ Becomes(q[b], m[b], to(a) \o m[b].edges, 1, 1)
  <2>1. Becomes(p[a], m[a], to(b) \o m[a].edges, 0, 1) /\ Becomes(p[b], m[b], m[b].edges, 1, 0)
    BY <1>1, <1>6
  <2>2. Becomes(q[b], p[b], to(a) \o p[b].edges, 0, 1) /\ Becomes(q[a], p[a], p[a].edges, 1, 0)
    BY <1>3, <1>6
  <2>3. p[b].edges = m[b].edges /\ p[a].edges = to(b) \o m[a].edges
    BY <2>1 DEF Becomes
  <2>4. Becomes(q[a], m[a], to(b) \o m[a].edges, 1, 1)
    BY <1>4, <2>1, <2>2, <2>3 DEF Becomes
  <2>5. Becomes(q[b], m[b], to(a) \o m[b].edges, 1, 1)
    BY <1>4, <2>1, <2>2, <2>3 DEF Becomes
  <2>6. QED
    BY <2>4, <2>5
<1>7. ASSUME a = b PROVE Becomes(q[a], m[a], to(a) \o (to(a) \o m[a].edges), 2, 2)
  <2>1. Becomes(p[a], m[a], to(a) \o m[a].edges, 1, 1)
    BY <1>1, <1>7
  <2>2. Becomes(q[a], p[a], to(a) \o p[a].edges, 1, 1)
    BY <1>3, <1>7
  <2>3. p[a].edges = to(a) \o m[a].edges
    BY <2>1 DEF Becomes
  <2>4. QED
    BY <1>4, <2>1, <2>2, <2>3 DEF Becomes
<1>8. SamePlaces(q, m)
  <2>1. \A h \in {a, b} : /\ q[h] \in Vertex /\ m[h] \in Vertex
                          /\ q[h].idStr = m[h].idStr /\ q[h].geoHash = m[h].geoHash
    BY <1>6, <1>7 DEF Becomes
  <2>2. \A h \in {a, b} : q[h] # Null /\ m[h] # Null
    BY <2>1, VertexFields
  <2>3. QED
    BY <1>5, <2>1, <2>2 DEF SamePlaces
<1>9. QED
  BY <1>3, <1>5, <1>6, <1>7, <1>8 DEF q, p, to

\* One more edge at the front of a list.
LEMMA InFront ==
  ASSUME NEW s \in Seq(Edge), NEW v \in Handle, NEW r \in Road
  PROVE  LET q == <<[vertex |-> v, road_id |-> r]>> \o s
         IN  /\ q \in Seq(Edge) /\ Len(q) = Len(s) + 1
             /\ \A k \in DOMAIN q : q[k].vertex = v \/ \E j \in DOMAIN s : q[k] = s[j]
<1> DEFINE e == [vertex |-> v, road_id |-> r]
           q == <<e>> \o s
<1>1. e \in Edge /\ e.vertex = v
  BY DEF Edge
<1> HIDE DEF e
<1>2. /\ q \in Seq(Edge) /\ Len(q) = Len(s) + 1 /\ q[1] = e
      /\ \A j \in 1 .. Len(s) : q[j + 1] = s[j]
  BY <1>1
<1> HIDE DEF q
<1>3. DOMAIN q = 1 .. Len(s) + 1 /\ DOMAIN s = 1 .. Len(s) /\ Len(s) \in Nat
  BY <1>2
<1>4. \A k \in DOMAIN q : k = 1 \/ (k - 1 \in DOMAIN s /\ (k - 1) + 1 = k)
  BY <1>3
<1>5. \A k \in DOMAIN q : q[k] = e \/ \E j \in DOMAIN s : q[k] = s[j]
  BY <1>2, <1>3, <1>4
<1>6. QED
  BY <1>1, <1>2, <1>5 DEF q, e

\* A road between two listed vertices, which may be one.
LEMMA RoadKeepsSound ==
  ASSUME mem \in Memory, ListOK, Sound(mem, Listed), TwoWay(mem, Listed),
         NEW a \in Listed, NEW b \in Listed, NEW r \in Road,
         NEW m, m = AddEdge(AddEdge(mem, a, b, r), b, a, r)
  PROVE  m \in Memory /\ SamePlaces(m, mem) /\ Sound(m, Listed) /\ TwoWay(m, Listed)
<1> DEFINE to(v) == <<[vertex |-> v, road_id |-> r]>>
<1>1. Listed \subseteq Handle /\ \A h \in Listed : mem[h] \in Vertex /\ mem[h].edges \in Seq(Edge)
  <2>1. Listed \subseteq Handle /\ \A h \in Listed : mem[h] # Null
    BY Members DEF ListOK, Listed
  <2>2. QED
    BY <2>1, InMemory, VertexFields
<1>2. /\ m \in Memory /\ SamePlaces(m, mem)
      /\ \A h \in Handle \ {a, b} : m[h] = mem[h]
      /\ a # b => /\ Becomes(m[a], mem[a], to(b) \o mem[a].edges, 1, 1)
                  /\ Becomes(m[b], mem[b], to(a) \o mem[b].edges, 1, 1)
      /\ a = b => Becomes(m[a], mem[a], to(a) \o (to(a) \o mem[a].edges), 2, 2)
  BY <1>1, BothEdges
<1>3. \A s \in Seq(Edge) : \A v \in Listed :
        /\ to(v) \o s \in Seq(Edge) /\ Len(to(v) \o s) = Len(s) + 1
        /\ \A k \in DOMAIN (to(v) \o s) : (to(v) \o s)[k].vertex = v \/ \E j \in DOMAIN s : (to(v) \o s)[k] = s[j]
  BY <1>1, InFront
<1>4. \A s \in Seq(Edge) : \A v, w \in Listed :
        Roads(to(v) \o s, w) = IF w = v THEN <<r>> \o Roads(s, w) ELSE Roads(s, w)
  BY <1>1, RoadAdded
<1> HIDE DEF to
<1>5. \A h \in Listed : /\ mem[h].indegree = Len(mem[h].edges) /\ mem[h].outdegree = Len(mem[h].edges)
                        /\ \A k \in DOMAIN mem[h].edges : mem[h].edges[k].vertex \in Listed
  BY DEF Sound
<1> DEFINE Good(x) == /\ x.indegree = Len(x.edges) /\ x.outdegree = Len(x.edges)
                      /\ \A k \in DOMAIN x.edges : x.edges[k].vertex \in Listed
<1>6. ASSUME NEW x, NEW h \in Listed, NEW v \in Listed, Becomes(x, mem[h], to(v) \o mem[h].edges, 1, 1)
      PROVE  Good(x)
  <2> DEFINE s == mem[h].edges
  <2>1. s \in Seq(Edge) /\ Len(s) \in Nat
    BY <1>1
  <2>2. x.edges = to(v) \o s /\ x.indegree = Len(s) + 1 /\ x.outdegree = Len(s) + 1
    BY <1>5, <1>6 DEF Becomes
  <2>3. \A k \in DOMAIN s : s[k].vertex \in Listed
    BY <1>5
  <2> HIDE DEF s
  <2>4. QED
    BY <1>3, <2>1, <2>2, <2>3
<1>7. ASSUME a = b PROVE Good(m[a])
  <2> DEFINE s == mem[a].edges
             t == to(a) \o s
  <2>1. s \in Seq(Edge) /\ Len(s) \in Nat
    BY <1>1
  <2>2. m[a].edges = to(a) \o t /\ m[a].indegree = Len(s) + 2 /\ m[a].outdegree = Len(s) + 2
    BY <1>2, <1>5, <1>7 DEF Becomes
  <2>3. \A k \in DOMAIN s : s[k].vertex \in Listed
    BY <1>5
  <2> HIDE DEF s
  <2>4. t \in Seq(Edge) /\ Len(t) = Len(s) + 1 /\ \A k \in DOMAIN t : t[k].vertex \in Listed
    BY <1>3, <2>1, <2>3
  <2> HIDE DEF t
  <2>5. Len(to(a) \o t) = Len(s) + 2
    BY <1>3, <2>1, <2>4
  <2>6. \A k \in DOMAIN (to(a) \o t) : (to(a) \o t)[k].vertex \in Listed
    BY <1>3, <2>4
  <2>7. QED
    BY <2>2, <2>5, <2>6
<1>8. \A h \in Listed : Good(m[h])
  <2> TAKE h \in Listed
  <2>1. CASE h \notin {a, b}
    <3>1. m[h] = mem[h]
      BY <1>1, <1>2, <2>1
    <3>2. QED
      BY <1>5, <3>1
  <2>2. CASE h \in {a, b} /\ a # b
    <3> HIDE DEF Good
    <3>1. QED
      BY <1>2, <1>6, <2>2
  <2>3. CASE h \in {a, b} /\ a = b
    BY <1>7, <2>3
  <2>4. QED
    BY <2>1, <2>2, <2>3
<1>9. \A h \in Handle : m[h] # Null => h \in Listed
  BY <1>2 DEF Sound, SamePlaces
<1>10. Sound(m, Listed)
  BY <1>8, <1>9 DEF Sound
<1>11. \A u, w \in Listed : u # w => Roads(mem[u].edges, w) = Roads(mem[w].edges, u)
  BY RoadsToIs DEF TwoWay
<1>12. \A u, w \in Listed : u # w =>
         Roads(m[u].edges, w) = IF a # b /\ {u, w} = {a, b} THEN <<r>> \o Roads(mem[u].edges, w)
                                ELSE Roads(mem[u].edges, w)
  <2> SUFFICES ASSUME NEW u \in Listed, NEW w \in Listed, u # w
               PROVE  Roads(m[u].edges, w) =
                        IF a # b /\ {u, w} = {a, b} THEN <<r>> \o Roads(mem[u].edges, w)
                        ELSE Roads(mem[u].edges, w)
    OBVIOUS
  <2>1. CASE u \notin {a, b}
    <3>1. m[u] = mem[u] /\ ~({u, w} = {a, b})
      BY <1>1, <1>2, <2>1
    <3>2. QED
      BY <3>1
  <2>2. CASE u = a /\ a # b
    <3>1. m[u].edges = to(b) \o mem[u].edges /\ mem[u].edges \in Seq(Edge)
      BY <1>1, <1>2, <2>2 DEF Becomes
    <3>2. {u, w} = {a, b} <=> w = b
      BY <2>2
    <3>3. Roads(to(b) \o mem[u].edges, w) =
            IF w = b THEN <<r>> \o Roads(mem[u].edges, w) ELSE Roads(mem[u].edges, w)
      BY <1>4, <3>1
    <3>4. QED
      BY <2>2, <3>1, <3>2, <3>3
  <2>3. CASE u = b /\ a # b
    <3>1. m[u].edges = to(a) \o mem[u].edges /\ mem[u].edges \in Seq(Edge)
      BY <1>1, <1>2, <2>3 DEF Becomes
    <3>2. {u, w} = {a, b} <=> w = a
      BY <2>3
    <3>3. Roads(to(a) \o mem[u].edges, w) =
            IF w = a THEN <<r>> \o Roads(mem[u].edges, w) ELSE Roads(mem[u].edges, w)
      BY <1>4, <3>1
    <3>4. QED
      BY <2>3, <3>1, <3>2, <3>3
  <2>4. CASE u = a /\ a = b
    <3>1. m[u].edges = to(a) \o (to(a) \o mem[u].edges) /\ mem[u].edges \in Seq(Edge) /\ w # a
      BY <1>1, <1>2, <2>4 DEF Becomes
    <3>2. to(a) \o mem[u].edges \in Seq(Edge)
      BY <1>3, <3>1
    <3>3. Roads(to(a) \o (to(a) \o mem[u].edges), w) = Roads(to(a) \o mem[u].edges, w)
      BY <1>4, <3>1, <3>2
    <3>4. Roads(to(a) \o mem[u].edges, w) = Roads(mem[u].edges, w)
      BY <1>4, <3>1
    <3>5. QED
      BY <2>4, <3>1, <3>3, <3>4
  <2>5. QED
    BY <2>1, <2>2, <2>3, <2>4
<1>13. \A u, w \in Listed : u # w => Roads(m[u].edges, w) = Roads(m[w].edges, u)
  <2> SUFFICES ASSUME NEW u \in Listed, NEW w \in Listed, u # w
               PROVE  Roads(m[u].edges, w) = Roads(m[w].edges, u)
    OBVIOUS
  <2>1. {u, w} = {w, u} /\ Roads(mem[u].edges, w) = Roads(mem[w].edges, u)
    BY <1>11
  <2>2. CASE a # b /\ {u, w} = {a, b}
    BY <1>12, <2>1, <2>2
  <2>3. CASE ~(a # b /\ {u, w} = {a, b})
    BY <1>12, <2>1, <2>3
  <2>4. QED
    BY <2>2, <2>3
<1>14. TwoWay(m, Listed)
  BY <1>13, RoadsToIs DEF TwoWay
<1>15. QED
  BY <1>2, <1>10, <1>14

\* A NEW_EDGE message keeps the invariant.
LEMMA NewEdgeInv ==
  ASSUME IInv, NEW fromId \in Id, NEW toId \in Id, NEW r \in Road, NewEdge(fromId, toId, r)
  PROVE  IInv'
<1> DEFINE from == GetVertex(vertices, mem, fromId)
           to   == GetVertex(vertices, mem, toId)
<1>1. /\ ~damaged /\ sent.edges < MaxEdges /\ sent' = [sent EXCEPT !.edges = @ + 1]
      /\ vertices' = vertices /\ phase' = phase
      /\ \/ from = Null /\ mem' = mem /\ damaged' = damaged
         \/ /\ from # Null /\ to = Null /\ damaged' = TRUE
            /\ mem' = [mem EXCEPT ![from].edges = <<[vertex |-> Null, road_id |-> r]>> \o @]
         \/ /\ from # Null /\ to # Null /\ damaged' = damaged
            /\ mem' = AddEdge(AddEdge(mem, from, to, r), to, from, r)
  BY DEF NewEdge, Ready
<1>2. from # Null => from \in Listed
  BY GetVertexIs DEF IInv, ListOK
<1>3. to # Null => to \in Listed
  BY GetVertexIs DEF IInv, ListOK
<1> HIDE DEF from, to
<1>4. Counters' /\ Listed' = Listed
  BY <1>1, Counts DEF IInv, Counters, Listed
<1>5. Listed \subseteq Handle /\ \A h \in Listed : mem[h] \in Vertex
  <2>1. Listed \subseteq Handle /\ \A h \in Listed : mem[h] # Null
    BY Members DEF IInv, ListOK, Listed
  <2>2. QED
    BY <2>1, InMemory DEF IInv
<1>6. ASSUME mem' \in Memory, SamePlaces(mem', mem) PROVE ListOK' /\ Allocated(mem')
  <2>1. Allocated(mem')
    BY <1>6 DEF IInv, Allocated, SamePlaces
  <2>2. \A h \in Listed' : mem'[h] # Null
    BY <1>4, <1>5, <1>6 DEF IInv, ListOK, SamePlaces
  <2>3. QED
    BY <1>1, <2>1, <2>2 DEF IInv, ListOK
<1>7. CASE from = Null
  BY <1>1, <1>4, <1>7, MapKept
<1>8. CASE from # Null /\ to = Null
  <2> DEFINE es == <<[vertex |-> Null, road_id |-> r]>> \o mem[from].edges
  <2>1. from \in Handle /\ mem[from] \in Vertex /\ mem \in Memory
    BY <1>2, <1>5, <1>8 DEF IInv
  <2>2. es \in Seq(Edge)
    <3> DEFINE e == [vertex |-> Null, road_id |-> r]
    <3>1. e \in Edge /\ mem[from].edges \in Seq(Edge)
      BY <2>1, VertexFields DEF Edge
    <3> HIDE DEF e
    <3>2. QED
      BY <3>1 DEF e
  <2>3. mem' = [mem EXCEPT ![from].edges = es] /\ damaged' = TRUE
    BY <1>1, <1>8
  <2> HIDE DEF es
  <2>4. ElseSame(mem', mem, from) /\ Becomes(mem'[from], mem[from], es, 0, 0)
    BY <2>1, <2>2, <2>3, NewEdges
  <2>5. mem'[from] # Null /\ mem[from] # Null
    BY <2>1, <2>4, VertexFields DEF Becomes
  <2>6. mem' \in Memory /\ SamePlaces(mem', mem)
    BY <2>4, <2>5 DEF ElseSame, Becomes, SamePlaces
  <2>7. QED
    BY <1>4, <1>6, <2>3, <2>6 DEF IInv
<1>9. CASE from # Null /\ to # Null
  <2>1. mem' = AddEdge(AddEdge(mem, from, to, r), to, from, r) /\ ~damaged'
    BY <1>1, <1>9
  <2>2. mem' \in Memory /\ SamePlaces(mem', mem) /\ Sound(mem', Listed) /\ TwoWay(mem', Listed)
    <3>1. /\ mem \in Memory /\ ListOK /\ Sound(mem, Listed) /\ TwoWay(mem, Listed)
          /\ from \in Listed /\ to \in Listed
      BY <1>1, <1>2, <1>3, <1>9 DEF IInv
    <3>2. QED
      BY <2>1, <3>1, RoadKeepsSound
  <2>3. QED
    BY <1>4, <1>6, <2>2 DEF IInv
<1>10. QED
  BY <1>7, <1>8, <1>9

\* The loop has passed all vertices and d had no parallel roads: nothing leads to d.
LEMMA UnlinkedSound ==
  ASSUME mem \in Memory, ListOK, Sound(mem, Listed), TwoWay(mem, Listed), NEW d \in Listed,
         ~HasParallelRoads(d), NEW m, Passed(m, d, Len(vertices)),
         NEW q, q = [m EXCEPT ![d] = Null]
  PROVE  Sound(q, Listed \ {d}) /\ TwoWay(q, Listed \ {d})
<1> DEFINE L == Listed \ {d}
<1>1. /\ Listed \subseteq Handle /\ \A h \in Listed : mem[h] \in Vertex /\ mem[h].edges \in Seq(Edge)
  <2>1. Listed \subseteq Handle /\ \A h \in Listed : mem[h] # Null
    BY Members DEF ListOK, Listed
  <2>2. QED
    BY <2>1, InMemory, VertexFields
<1>2. /\ m \in Memory /\ SamePlaces(m, mem)
      /\ \A h \in L : IF LeadsTo(mem[h].edges, d)
                        THEN Becomes(m[h], mem[h], WithoutOne(mem[h].edges, d), -1, -1)
                        ELSE m[h] = mem[h]
  <2>1. ASSUME NEW h \in L
        PROVE  IF LeadsTo(mem[h].edges, d)
                 THEN Becomes(m[h], mem[h], WithoutOne(mem[h].edges, d), -1, -1)
                 ELSE m[h] = mem[h]
    <3>1. PICK j \in 1 .. Len(vertices) : vertices[j] = h
      BY Members DEF ListOK, Listed
    <3>2. vertices[j] # d /\ ~(j > Len(vertices))
      BY <3>1, Members DEF ListOK
    <3>3. QED
      BY <3>1, <3>2 DEF Passed
  <2>2. QED
    BY <2>1 DEF Passed
<1>3. \A h \in L : q[h] = m[h]
  BY <1>1, <1>2 DEF Memory
<1>4. ASSUME NEW h \in Handle, q[h] # Null PROVE h \in L
  <2>1. h # d /\ m[h] # Null
    BY <1>2, <1>4 DEF Memory
  <2>2. QED
    BY <1>2, <2>1 DEF SamePlaces, Sound
<1>5. ASSUME NEW h \in L
      PROVE  /\ q[h].indegree = Len(q[h].edges) /\ q[h].outdegree = Len(q[h].edges)
             /\ \A k \in DOMAIN q[h].edges : q[h].edges[k].vertex \in L
             /\ q[h].edges \in Seq(Edge)
             /\ \A b \in L : Roads(q[h].edges, b) = Roads(mem[h].edges, b)
  <2> DEFINE s == mem[h].edges
             w == WithoutOne(s, d)
  <2>1. /\ s \in Seq(Edge) /\ mem[h].indegree = Len(s) /\ mem[h].outdegree = Len(s)
        /\ \A k \in DOMAIN s : s[k].vertex \in Listed
    BY <1>1 DEF Sound
  <2>2. \A j, k \in DOMAIN s : ~(j < k /\ s[j].vertex = d /\ s[k].vertex = d)
    BY DEF HasParallelRoads
  <2>3. CASE ~LeadsTo(s, d)
    <3>1. q[h] = mem[h]
      BY <1>2, <1>3, <2>3
    <3>2. \A k \in DOMAIN s : s[k].vertex \in L
      BY <2>1, <2>3 DEF LeadsTo
    <3>3. QED
      BY <2>1, <3>1, <3>2
  <2>4. CASE LeadsTo(s, d)
    <3>1. Becomes(q[h], mem[h], w, -1, -1)
      BY <1>2, <1>3, <2>4
    <3>2. /\ w \in Seq(Edge) /\ Len(w) = Len(s) - 1 /\ ~LeadsTo(w, d)
          /\ \A k \in DOMAIN w : \E j \in DOMAIN s : w[k] = s[j]
      BY <2>1, <2>2, <2>4, LeadsElsewhere, WithoutOneDrops
    <3>3. \A b \in L : Roads(w, b) = Roads(s, b)
      BY <2>1, <2>4, RoadRemoved
    <3>4. Len(s) \in Nat
      BY <2>1
    <3> HIDE DEF s, w
    <3>5. q[h].edges = w /\ q[h].indegree = Len(w) /\ q[h].outdegree = Len(w)
      BY <2>1, <3>1, <3>2, <3>4 DEF Becomes
    <3>6. \A k \in DOMAIN w : w[k].vertex \in L
      BY <2>1, <3>2 DEF LeadsTo
    <3>7. QED
      BY <3>2, <3>3, <3>5, <3>6 DEF s
  <2>5. QED
    BY <2>3, <2>4
<1>6. Sound(q, L)
  BY <1>4, <1>5 DEF Sound
<1>7. ASSUME NEW a \in L, NEW b \in L, a # b PROVE RoadsTo(q, a, b) = RoadsTo(q, b, a)
  <2>1. RoadsTo(mem, a, b) = RoadsTo(mem, b, a)
    BY <1>7 DEF TwoWay
  <2>2. Roads(mem[a].edges, b) = Roads(mem[b].edges, a)
    BY <2>1, RoadsToIs
  <2>3. Roads(q[a].edges, b) = Roads(q[b].edges, a)
    BY <1>5, <2>2
  <2>4. QED
    BY <2>3, RoadsToIs
<1>8. QED
  BY <1>6, <1>7 DEF TwoWay

\* A vertex leaves the list; the memory has been through the loop up to some vertex.
LEMMA DelNodeInv ==
  ASSUME IInv, NEW id \in Id, DelNode(id) \/ DelNodeFault(id)
  PROVE  IInv'
<1> DEFINE d == GetVertex(vertices, mem, id)
           N == Len(vertices)
           k == SelectInSeq(vertices, LAMBDA v : v = d)
<1>1. /\ ~damaged /\ d # Null /\ sent' = sent /\ phase' = phase
      /\ vertices' = Filter(vertices, Handle \ {d})
      /\ \/ /\ mem' = [Unlinked(d, N) EXCEPT ![d] = Null]
            /\ damaged' = (damaged \/ HasParallelRoads(d))
         \/ mem' = Unlinked(d, k) /\ damaged' = TRUE
  BY DEF DelNode, DelNodeFault, FreeVertex, Ready
<1>2. d \in Listed
  BY <1>1, GetVertexIs DEF IInv, ListOK
<1> HIDE DEF d
<1>3. /\ mem \in Memory /\ ListOK /\ Allocated(mem) /\ Sound(mem, Listed) /\ TwoWay(mem, Listed)
      /\ Counters
  BY <1>1 DEF IInv
<1>4. Counters'
  <2>1. damaged' \in BOOLEAN
    BY <1>1, <1>3 DEF Counters, HasParallelRoads
  <2>2. QED
    BY <1>1, <1>3, <2>1 DEF Counters
<1>5. /\ vertices \in Seq(Handle) /\ N \in Nat /\ N \in 0 .. N
      /\ \A i, j \in DOMAIN vertices : vertices[i] = vertices[j] => i = j
      /\ \A h \in Listed : mem[h] # Null
      /\ Listed \subseteq Handle
  BY <1>3, Members DEF ListOK, Listed
<1>6. /\ vertices' \in Seq(Handle) /\ Listed' = Listed \ {d}
      /\ \A i, j \in DOMAIN vertices' : vertices'[i] = vertices'[j] => i = j
  BY <1>1, <1>5, ListWithout DEF Listed
<1>7. k \in 0 .. N
  <2> DEFINE I == {i \in 1 .. Len(vertices) : vertices[i] = d}
  <2>1. k = IF I # {} THEN Min(I) ELSE 0
    BY DEF SelectInSeq
  <2>2. I # {} => Min(I) \in I
    <3>1. I \in SUBSET Nat
      OBVIOUS
    <3> HIDE DEF I
    <3>2. ASSUME I # {} PROVE \E m \in I : \A j \in I : m <= j
      BY <3>1, <3>2, Least
    <3>3. Min(I) = CHOOSE m \in I : \A j \in I : m <= j
      BY DEF Min
    <3>4. QED
      BY <3>2, <3>3
  <2>3. QED
    BY <1>5, <2>1, <2>2
<1> HIDE DEF k
<1>8. Passed(Unlinked(d, N), d, N) /\ Passed(Unlinked(d, k), d, k)
  BY <1>2, <1>3, <1>5, <1>7, UnlinkedPasses
<1>9. CASE mem' = [Unlinked(d, N) EXCEPT ![d] = Null] /\ damaged' = (damaged \/ HasParallelRoads(d))
  <2> DEFINE m == Unlinked(d, N)
  <2>1. m \in Memory /\ SamePlaces(m, mem)
    BY <1>8 DEF Passed
  <2>2. mem' = [m EXCEPT ![d] = Null]
    BY <1>9
  <2> HIDE DEF m
  <2>3. mem' \in Memory /\ mem'[d] = Null /\ \A h \in Handle \ {d} : mem'[h] = m[h]
    BY <1>2, <1>5, <2>1, <2>2 DEF Memory
  <2>4. \A h \in Listed' : mem'[h] # Null
    BY <1>5, <1>6, <2>1, <2>3 DEF SamePlaces
  <2>5. Allocated(mem')
    BY <1>3, <2>1, <2>3 DEF Allocated, SamePlaces
  <2>6. ASSUME ~damaged' PROVE Sound(mem', Listed') /\ TwoWay(mem', Listed')
    <3>1. ~HasParallelRoads(d)
      BY <1>9, <2>6
    <3>2. QED
      BY <1>2, <1>3, <1>6, <1>8, <2>2, <3>1, UnlinkedSound DEF m
  <2>7. QED
    BY <1>4, <1>6, <2>3, <2>4, <2>5, <2>6 DEF IInv, ListOK
<1>10. CASE mem' = Unlinked(d, k) /\ damaged' = TRUE
  <2>1. mem' \in Memory /\ SamePlaces(mem', mem)
    BY <1>8, <1>10 DEF Passed
  <2>2. \A h \in Listed' : mem'[h] # Null
    BY <1>5, <1>6, <2>1 DEF SamePlaces
  <2>3. Allocated(mem')
    BY <1>3, <2>1 DEF Allocated, SamePlaces
  <2>4. QED
    BY <1>4, <1>6, <1>10, <2>1, <2>2, <2>3 DEF IInv, ListOK
<1>11. QED
  BY <1>1, <1>9, <1>10

\* Every step keeps the invariant.
LEMMA NextInv == IInv /\ [Next]_vars => IInv'
<1> SUFFICES ASSUME IInv, [Next]_vars PROVE IInv'
  OBVIOUS
<1>1. CASE InitNetlink \/ GraphCreate \/ EarlyMessage \/ UNCHANGED vars
  BY <1>1, MapKept DEF IInv, Counters, InitNetlink, GraphCreate, EarlyMessage, vars
<1>2. CASE Cleanup
  BY <1>2, CleanupInv
<1>3. ASSUME NEW id \in Id, NewNode(id) PROVE IInv'
  BY <1>3, NewNodeInv
<1>4. ASSUME NEW id \in Id, DelNode(id) \/ DelNodeFault(id) PROVE IInv'
  BY <1>4, DelNodeInv
<1>5. ASSUME NEW id \in Id, DelUnknown(id) PROVE IInv'
  BY <1>5, MapKept DEF IInv, Counters, DelUnknown, vars
<1>6. ASSUME NEW a \in Id, NEW b \in Id, NEW r \in Road, NewEdge(a, b, r) PROVE IInv'
  BY <1>6, NewEdgeInv
<1>7. QED
  BY <1>1, <1>2, <1>3, <1>4, <1>5, <1>6 DEF Next, MessageSend

\* No sequence of messages, faults included, breaks the inductive invariant.
THEOREM Invariant == Spec => []IInv
BY InitInv, NextInv, PTL DEF Spec

\* The list and the memory of the map keep their types whatever the messages are and
\* wherever a message faults; what is listed is allocated, once.
THEOREM TypeCorrect == Spec => []TypeOK
<1>1. IInv => TypeOK
  <2> SUFFICES ASSUME IInv PROVE TypeOK
    OBVIOUS
  <2>1. ASSUME NEW h \in Handle, mem[h] # Null
        PROVE  /\ mem[h].idStr \in Id /\ mem[h].geoHash = Position[mem[h].idStr]
               /\ mem[h].edges \in Seq(Edge) /\ mem[h].indegree \in Int /\ mem[h].outdegree \in Int
    BY <2>1, InMemory, VertexFields DEF IInv, Allocated
  <2>2. QED
    BY <2>1 DEF TypeOK, IInv, Counters, ListOK
<1>2. QED
  BY <1>1, Invariant, PTL

\* On a map that no message damaged every vertex has as many roads in as out.
THEOREM AlwaysBalanced == Spec => []Balanced
<1>1. IInv => Balanced
  BY DEF IInv, Sound, Listed, Balanced, GraphIsBalanced
<1>2. QED
  BY <1>1, Invariant, PTL

\* On such a map two junctions agree on the roads between them, in their order, and the
\* degrees count the lists, for any sequence of additions and deletions.
THEOREM BothWays == Spec => []EdgesAgree
<1>1. IInv => EdgesAgree
  BY DEF IInv, Sound, TwoWay, EdgesAgree
<1>2. QED
  BY <1>1, Invariant, PTL

\* No road of such a map leads to memory that has been freed, although deletion walks only
\* the other vertices' lists and removes one edge from each.
THEOREM NothingDangles == Spec => []NoDanglingEdge
<1>1. IInv => NoDanglingEdge
  BY DEF IInv, Sound, NoDanglingEdge
<1>2. QED
  BY <1>1, Invariant, PTL

-----------------------------------------------------------------------------
(***************************************************************************)
(* The search of cross_vertex                                               *)
(***************************************************************************)

\* A path record of the search, and the roads of a set of vertices.
Arrival(L) == [v : L, ancest : Nat, road_id : Road \cup {Null}]
Way(L)     == [vertex : L, road_id : Road]

\* No road leaves L.
Closed(m, L) == \A h \in L : m[h].edges \in Seq(Way(L))

\* The road an arrival came by.
By(r) == [vertex |-> r.v, road_id |-> r.road_id]

\* The queue is a tree: every record but the first was reached by a road from an earlier
\* one, no vertex twice, and records stand in the order of the records they came from.
Tree(m, L, a, q) ==
  /\ q \in Seq(Arrival(L)) /\ Len(q) >= 1
  /\ q[1].v = a /\ q[1].ancest = 0
  /\ \A i \in 2 .. Len(q) : q[i].ancest \in 1 .. i - 1 /\ By(q[i]) \in ToSet(m[q[q[i].ancest].v].edges)
  /\ \A i, j \in 1 .. Len(q) : q[i].v = q[j].v => i = j
  /\ \A i, j \in 1 .. Len(q) : i <= j => q[i].ancest <= q[j].ancest

\* Only the last vertex of the queue can have the target's name.
Unmet(m, b, q) == \A i \in 2 .. Len(q) - 1 : m[q[i].v].idStr # m[b].idStr

\* Every road of the vertex at place i leads to a vertex that was found not later than by it.
Expanded(m, q, i) ==
  \A e \in ToSet(m[q[i].v].edges) : \E j \in 1 .. Len(q) : q[j].v = e.vertex /\ q[j].ancest <= i

\* What an arrival and a road are made of.
LEMMA Fields ==
  ASSUME NEW L
  PROVE  /\ \A r \in Arrival(L) : r.v \in L /\ r.ancest \in Nat /\ r.road_id \in Road \cup {Null}
         /\ \A e \in Way(L) : e.vertex \in L /\ e.road_id \in Road
         /\ \A e \in Way(L), k \in Nat :
              LET r == [v |-> e.vertex, ancest |-> k, road_id |-> e.road_id]
              IN  r \in Arrival(L) /\ r.v = e.vertex /\ r.ancest = k /\ By(r) = e
BY DEF Arrival, Way, By

\* What a tree is, place by place.
LEMMA TreeIs ==
  ASSUME NEW m, NEW L, NEW a, NEW q, Tree(m, L, a, q)
  PROVE  /\ Len(q) \in Nat /\ Len(q) >= 1 /\ 1 \in 1 .. Len(q)
         /\ \A i \in 1 .. Len(q) : q[i] \in Arrival(L) /\ q[i].v \in L /\ q[i].ancest \in Nat
         /\ \A i \in 2 .. Len(q) : /\ i \in 1 .. Len(q)
                                   /\ q[i].ancest \in 1 .. i - 1 /\ q[i].ancest \in 1 .. Len(q)
         /\ Last(q) = q[Len(q)]
<1>1. q \in Seq(Arrival(L)) /\ Len(q) \in Nat /\ Len(q) >= 1 /\ Last(q) = q[Len(q)]
  BY DEF Tree, Last
<1>2. \A i \in 1 .. Len(q) : q[i] \in Arrival(L)
  BY <1>1
<1>3. \A i \in 2 .. Len(q) : q[i].ancest \in 1 .. i - 1
  BY DEF Tree
<1>4. QED
  BY <1>1, <1>2, <1>3, Fields

\* A tree grows by a road from its vertex at place k, if no record came from a later one.
LEMMA TreeGrows ==
  ASSUME NEW m, NEW L, NEW a, NEW q, Tree(m, L, a, q), NEW k \in 1 .. Len(q),
         \A i \in 1 .. Len(q) : q[i].ancest <= k,
         NEW e \in Way(L), e \in ToSet(m[q[k].v].edges), \A i \in 1 .. Len(q) : q[i].v # e.vertex
  PROVE  LET r == Append(q, [v |-> e.vertex, ancest |-> k, road_id |-> e.road_id])
         IN  /\ Tree(m, L, a, r) /\ Len(r) = Len(q) + 1
             /\ r[Len(r)].v = e.vertex /\ r[Len(r)].ancest = k
             /\ \A i \in 1 .. Len(q) : r[i] = q[i]
<1> DEFINE x == [v |-> e.vertex, ancest |-> k, road_id |-> e.road_id]
           r == Append(q, x)
           N == Len(q)
<1>1. /\ N \in Nat /\ N >= 1 /\ k \in Nat
      /\ \A i \in 1 .. N : q[i].ancest \in Nat
      /\ q \in Seq(Arrival(L))
  BY TreeIs DEF Tree
<1>2. x \in Arrival(L) /\ x.v = e.vertex /\ x.ancest = k /\ By(x) = e
  BY <1>1, Fields
<1> HIDE DEF x
<1>3. /\ r \in Seq(Arrival(L)) /\ Len(r) = N + 1 /\ r[N + 1] = x
      /\ \A i \in 1 .. N : r[i] = q[i]
  BY <1>1, <1>2, AppendProperties
<1> HIDE DEF r
<1>4. r[1].v = a /\ r[1].ancest = 0
  BY <1>1, <1>3 DEF Tree
<1>5. \A i \in 2 .. N + 1 : r[i].ancest \in 1 .. i - 1 /\ By(r[i]) \in ToSet(m[r[r[i].ancest].v].edges)
  <2> SUFFICES ASSUME NEW i \in 2 .. N + 1
               PROVE  r[i].ancest \in 1 .. i - 1 /\ By(r[i]) \in ToSet(m[r[r[i].ancest].v].edges)
    OBVIOUS
  <2>1. CASE i = N + 1
    <3>1. r[i].ancest = k /\ By(r[i]) = e /\ r[k] = q[k]
      BY <1>2, <1>3, <2>1
    <3>2. k \in 1 .. i - 1
      BY <1>1, <2>1
    <3>3. QED
      BY <3>1, <3>2
  <2>2. CASE i # N + 1
    <3>1. i \in 2 .. N /\ i \in 1 .. N
      BY <1>1, <2>2
    <3>2. r[i] = q[i] /\ q[i].ancest \in 1 .. i - 1 /\ q[i].ancest \in 1 .. N
      BY <1>3, <3>1, TreeIs
    <3>3. r[q[i].ancest] = q[q[i].ancest] /\ By(q[i]) \in ToSet(m[q[q[i].ancest].v].edges)
      BY <1>3, <3>1, <3>2 DEF Tree
    <3>4. QED
      BY <3>2, <3>3
  <2>3. QED
    BY <2>1, <2>2
<1>6. \A i, j \in 1 .. N + 1 : r[i].v = r[j].v => i = j
  <2>1. \A i \in 1 .. N + 1 : i \in 1 .. N \/ i = N + 1
    BY <1>1
  <2>2. \A i, j \in 1 .. N : r[i].v = r[j].v => i = j
    BY <1>3 DEF Tree
  <2>3. \A i \in 1 .. N : r[i].v # r[N + 1].v
    BY <1>2, <1>3
  <2>4. QED
    BY <2>1, <2>2, <2>3
<1>7. \A i, j \in 1 .. N + 1 : i <= j => r[i].ancest <= r[j].ancest
  <2>1. \A i \in 1 .. N + 1 : i \in 1 .. N \/ i = N + 1
    BY <1>1
  <2>2. \A i, j \in 1 .. N : i <= j => r[i].ancest <= r[j].ancest
    BY <1>3 DEF Tree
  <2>3. \A i \in 1 .. N : r[i].ancest <= r[N + 1].ancest /\ ~(N + 1 <= i)
    BY <1>1, <1>2, <1>3
  <2>4. r[N + 1].ancest <= r[N + 1].ancest
    BY <1>1, <1>2, <1>3
  <2>5. QED
    BY <2>1, <2>2, <2>3, <2>4
<1>8. Tree(m, L, a, r)
  BY <1>1, <1>3, <1>4, <1>5, <1>6, <1>7 DEF Tree
<1>9. QED
  BY <1>2, <1>3, <1>8 DEF r, x

\* What was found stays found when the queue grows.
LEMMA StaysExpanded ==
  ASSUME NEW m, NEW q, NEW r, Len(q) \in Nat, Len(r) \in Nat, Len(q) <= Len(r),
         \A i \in 1 .. Len(q) : r[i] = q[i], NEW k \in 1 .. Len(q), Expanded(m, q, k)
  PROVE  Expanded(m, r, k)
<1>1. r[k] = q[k] /\ \A j \in 1 .. Len(q) : j \in 1 .. Len(r) /\ r[j] = q[j]
  OBVIOUS
<1>2. QED
  BY <1>1 DEF Expanded

\* The search is over when the last vertex, which is not the first, has the target's name.
LEMMA ReachedIs ==
  ASSUME NEW m, NEW L, NEW a, NEW b, NEW q, Tree(m, L, a, q)
  PROVE  Reached(m, q, b) <=> Len(q) > 1 /\ m[q[Len(q)].v].idStr = m[b].idStr
BY TreeIs DEF Reached

\* What the walk over the roads of the vertex at place k has done after j of them: it goes
\* on from queue, and is over only after a road from place k.
Walking(m, L, a, b, queue, k, j) ==
  {r \in Seq(Arrival(L)) :
     /\ Tree(m, L, a, r) /\ Unmet(m, b, r)
     /\ Len(queue) <= Len(r) /\ \A i \in 1 .. Len(queue) : r[i] = queue[i]
     /\ \A i \in 1 .. Len(r) : r[i].ancest <= k
     /\ Reached(m, r, b) => r[Len(r)].ancest = k
     /\ ~Reached(m, r, b) =>
          \A l \in 1 .. j : \E i \in 1 .. Len(r) : r[i].v = m[queue[k].v].edges[l].vertex}

\* One road.
LEMMA VisitWalks ==
  ASSUME NEW m, NEW L, Closed(m, L), NEW a, NEW b, NEW queue, Tree(m, L, a, queue), NEW k \in 1 .. Len(queue),
         NEW j \in 1 .. Len(m[queue[k].v].edges), NEW r \in Walking(m, L, a, b, queue, k, j - 1)
  PROVE  Visit(m, b, k, r, m[queue[k].v].edges[j]) \in Walking(m, L, a, b, queue, k, j)
<1> DEFINE es == m[queue[k].v].edges
           e  == es[j]
           x  == [v |-> e.vertex, ancest |-> k, road_id |-> e.road_id]
           l  == Append(r, x)
           N  == Len(r)
<1>1. /\ r \in Seq(Arrival(L)) /\ Tree(m, L, a, r) /\ Unmet(m, b, r)
      /\ Len(queue) <= Len(r) /\ \A i \in 1 .. Len(queue) : r[i] = queue[i]
      /\ \A i \in 1 .. Len(r) : r[i].ancest <= k
      /\ Reached(m, r, b) => r[Len(r)].ancest = k
      /\ ~Reached(m, r, b) =>
           \A i \in 1 .. j - 1 : \E p \in 1 .. Len(r) : r[p].v = es[i].vertex
  BY DEF Walking
<1>2. /\ queue[k].v \in L /\ Len(queue) \in Nat /\ N \in Nat /\ N >= 1 /\ k \in 1 .. N
      /\ r[k] = queue[k]
  BY <1>1, TreeIs
<1>3. es \in Seq(Way(L)) /\ Len(es) \in Nat
  BY <1>2 DEF Closed
<1>4. e \in Way(L) /\ e \in ToSet(es) /\ e.vertex \in L
  BY <1>3, Members, Fields
<1>5. \A i \in 1 .. j : i \in 1 .. j - 1 \/ i = j
  BY <1>3
<1> HIDE DEF es, e
<1>6. CASE Reached(m, r, b)
  <2>1. Visit(m, b, k, r, e) = r
    BY <1>6 DEF Visit
  <2>2. r \in Walking(m, L, a, b, queue, k, j)
    BY <1>1, <1>6 DEF Walking
  <2>3. QED
    BY <2>1, <2>2 DEF e, es
<1>7. CASE ~Reached(m, r, b) /\ FindVertex(r, e.vertex)
  <2>1. Visit(m, b, k, r, e) = r
    BY <1>7 DEF Visit
  <2>2. \E p \in 1 .. Len(r) : r[p].v = es[j].vertex
    BY <1>1, <1>7 DEF FindVertex, e
  <2>3. \A i \in 1 .. j : \E p \in 1 .. Len(r) : r[p].v = es[i].vertex
    BY <1>1, <1>5, <1>7, <2>2
  <2>4. r \in Walking(m, L, a, b, queue, k, j)
    BY <1>1, <1>7, <2>3 DEF Walking, es
  <2>5. QED
    BY <2>1, <2>4 DEF e, es
<1>8. CASE ~Reached(m, r, b) /\ ~FindVertex(r, e.vertex)
  <2>1. Visit(m, b, k, r, e) = l
    BY <1>8 DEF Visit
  <2>2. \A i \in 1 .. N : r[i].v # e.vertex
    BY <1>1, <1>8 DEF FindVertex
  <2>3. e \in ToSet(m[r[k].v].edges)
    BY <1>2, <1>4 DEF es
  <2>4. /\ Tree(m, L, a, l) /\ Len(l) = N + 1
        /\ l[Len(l)].v = e.vertex /\ l[Len(l)].ancest = k
        /\ \A i \in 1 .. N : l[i] = r[i]
    <3>1. Tree(m, L, a, r) /\ \A i \in 1 .. Len(r) : r[i].ancest <= k
      BY <1>1
    <3>2. k \in 1 .. Len(r) /\ e \in Way(L) /\ \A i \in 1 .. Len(r) : r[i].v # e.vertex
      BY <1>2, <1>4, <2>2
    <3>3. QED
      BY <2>3, <3>1, <3>2, TreeGrows
  <2> HIDE DEF l, x
  <2>5. l \in Seq(Arrival(L))
    BY <2>4 DEF Tree
  <2>6. \A i \in 1 .. N + 1 : i \in 1 .. N \/ i = N + 1
    BY <1>2
  <2>7. Unmet(m, b, l)
    <3> SUFFICES ASSUME NEW i \in 2 .. (N + 1) - 1 PROVE m[l[i].v].idStr # m[b].idStr
      BY <2>4 DEF Unmet
    <3>1. i \in 1 .. N /\ l[i] = r[i] /\ N > 1
      BY <1>2, <2>4
    <3>2. CASE i = N
      BY <1>1, <1>8, <3>1, <3>2, ReachedIs
    <3>3. CASE i # N
      <4>1. i \in 2 .. N - 1
        BY <1>2, <3>3
      <4>2. QED
        BY <1>1, <3>1, <4>1 DEF Unmet
    <3>4. QED
      BY <3>2, <3>3
  <2>8. Len(queue) <= Len(l) /\ \A i \in 1 .. Len(queue) : l[i] = queue[i]
    <3>1. \A i \in 1 .. Len(queue) : i \in 1 .. N
      BY <1>1, <1>2
    <3>2. QED
      BY <1>1, <1>2, <2>4, <3>1
  <2>9. k <= k
    BY <1>2
  <2>10. \A i \in 1 .. Len(l) : l[i].ancest <= k
    BY <1>1, <2>4, <2>6, <2>9
  <2>11. \A i \in 1 .. j : \E p \in 1 .. Len(l) : l[p].v = es[i].vertex
    <3>1. \A p \in 1 .. N : p \in 1 .. Len(l)
      BY <1>2, <2>4
    <3>2. Len(l) \in 1 .. Len(l)
      BY <1>2, <2>4
    <3>3. \A i \in 1 .. j - 1 : \E p \in 1 .. Len(l) : l[p].v = es[i].vertex
      BY <1>1, <1>8, <2>4, <3>1
    <3>4. l[Len(l)].v = es[j].vertex
      BY <2>4 DEF e
    <3>5. QED
      BY <1>5, <3>2, <3>3, <3>4
  <2>12. l \in Walking(m, L, a, b, queue, k, j)
    BY <2>4, <2>5, <2>7, <2>8, <2>10, <2>11 DEF Walking, es
  <2>13. QED
    BY <2>1, <2>12 DEF e, es
<1>9. QED
  BY <1>6, <1>7, <1>8

\* All roads of the vertex at place k: VisitAll is an unfolding of Visit.
LEMMA ExpandWalks ==
  ASSUME NEW m, NEW L, Closed(m, L), NEW a, NEW b, NEW queue, Tree(m, L, a, queue), Unmet(m, b, queue),
         ~Reached(m, queue, b), NEW k \in 1 .. Len(queue), \A i \in 1 .. Len(queue) : queue[i].ancest <= k
  PROVE  VisitAll(m, b, k, queue) \in Walking(m, L, a, b, queue, k, Len(m[queue[k].v].edges))
<1> DEFINE es == m[queue[k].v].edges
           N  == Len(es)
           S  == Seq(Arrival(L))
           Step(j, r) == Visit(m, b, k, r, es[j])
           Goes(f) == f = [j \in 0 .. N |-> IF j = 0 THEN queue ELSE Visit(m, b, k, f[j - 1], es[j])]
           g == [j \in 1 .. N |-> [r \in S |-> Step(j, r)]]
           after == CHOOSE f : Goes(f)
<1>1. /\ queue \in S /\ queue[k].v \in L /\ Len(queue) \in Nat
  BY TreeIs DEF Tree
<1>2. es \in Seq(Way(L)) /\ N \in Nat /\ \A j \in 1 .. N : es[j] \in Way(L)
  BY <1>1 DEF Closed
<1>3. VisitAll(m, b, k, queue) = after[N]
  BY DEF VisitAll
<1>4. \A j \in 1 .. N : \A r \in S : Step(j, r) \in S
  <2> SUFFICES ASSUME NEW j \in 1 .. N, NEW r \in S PROVE Step(j, r) \in S
    OBVIOUS
  <2>1. [v |-> es[j].vertex, ancest |-> k, road_id |-> es[j].road_id] \in Arrival(L)
    BY <1>2, Fields
  <2> HIDE DEF es
  <2>2. QED
    BY <2>1 DEF Visit
<1>5. \E f : Goes(f)
  <2> HIDE DEF N, S, Step
  <2>1. g \in [1 .. N -> [S -> S]]
    BY <1>4
  <2>2. \A j \in 1 .. N : \A r \in S : g[j][r] = Step(j, r)
    OBVIOUS
  <2> HIDE DEF g
  <2>3. PICK f : Unfolds(f, N, S, queue, g)
    BY <1>1, <1>2, <2>1, Recursion
  <2>4. \A j \in 0 .. N : j # 0 => j \in 1 .. N /\ j - 1 \in 0 .. N
    BY <1>2
  <2>5. /\ f \in [0 .. N -> S] /\ f[0] = queue
        /\ \A j \in 1 .. N : f[j] = g[j][f[j - 1]]
    BY <2>3 DEF Unfolds
  <2>6. \A j \in 0 .. N : f[j] = IF j = 0 THEN queue ELSE Step(j, f[j - 1])
    BY <2>2, <2>4, <2>5
  <2>7. Goes(f)
    BY <2>5, <2>6 DEF Step
  <2>8. QED
    BY <2>7
<1>6. Goes(after)
  <2> HIDE DEF Goes
  <2>1. QED
    BY <1>5
<1> HIDE DEF after
<1>7. \A j \in 0 .. N : after[j] = IF j = 0 THEN queue ELSE Step(j, after[j - 1])
  <2> HIDE DEF N, es
  <2>1. QED
    BY <1>6
<1> HIDE DEF Goes
<1> DEFINE OK == {j \in 0 .. N : after[j] \in Walking(m, L, a, b, queue, k, j)}
<1>8. 0 \in OK
  <2>1. after[0] = queue /\ 0 \in 0 .. N
    BY <1>2, <1>7
  <2>2. queue \in Walking(m, L, a, b, queue, k, 0)
    BY <1>1 DEF Walking
  <2>3. QED
    BY <2>1, <2>2
<1>9. ASSUME NEW j \in 0 .. N - 1, j \in OK PROVE j + 1 \in OK
  <2>1. j + 1 \in 1 .. N /\ j + 1 \in 0 .. N /\ (j + 1) - 1 = j /\ j + 1 # 0
    BY <1>2
  <2>2. after[j + 1] = Step(j + 1, after[j]) /\ after[j] \in Walking(m, L, a, b, queue, k, j)
    BY <1>7, <1>9, <2>1
  <2>3. after[j + 1] \in Walking(m, L, a, b, queue, k, j + 1)
    BY <2>1, <2>2, VisitWalks
  <2>4. QED
    BY <2>1, <2>3
<1>10. N \in OK
  <2> HIDE DEF OK, N
  <2>1. 0 .. N \subseteq OK
    BY <1>2, <1>8, <1>9, UpTo
  <2>2. QED
    BY <1>2, <2>1
<1>11. QED
  BY <1>3, <1>10

\* What the search has done when it went over the first k places of its queue: their roads
\* are all followed, unless the last vertex found has the target's name; then those of the
\* places before the one it was found from are.
Searching(m, L, a, b, k) ==
  {q \in Seq(Arrival(L)) :
     /\ Tree(m, L, a, q) /\ Unmet(m, b, q)
     /\ \A i \in 1 .. Len(q) : q[i].ancest <= k
     /\ \A i \in 1 .. Len(q) :
          i <= k /\ (Reached(m, q, b) => i < q[Len(q)].ancest) => Expanded(m, q, i)}

\* The next place.
LEMMA Expands ==
  ASSUME NEW m, NEW L, Closed(m, L), NEW a, NEW b, NEW k \in Nat, NEW q \in Searching(m, L, a, b, k),
         k + 1 <= Len(q), ~Reached(m, q, b)
  PROVE  VisitAll(m, b, k + 1, q) \in Searching(m, L, a, b, k + 1)
<1> DEFINE es == m[q[k + 1].v].edges
           r  == VisitAll(m, b, k + 1, q)
<1>1. /\ Tree(m, L, a, q) /\ Unmet(m, b, q)
      /\ \A i \in 1 .. Len(q) : q[i].ancest <= k
      /\ \A i \in 1 .. Len(q) : i <= k => Expanded(m, q, i)
  BY DEF Searching
<1>2. /\ Len(q) \in Nat /\ k + 1 \in 1 .. Len(q) /\ q[k + 1].v \in L
      /\ \A i \in 1 .. Len(q) : q[i].ancest \in Nat
  BY <1>1, TreeIs
<1>3. \A i \in 1 .. Len(q) : q[i].ancest <= k + 1
  BY <1>1, <1>2
<1>4. r \in Walking(m, L, a, b, q, k + 1, Len(es))
  BY <1>1, <1>2, <1>3, ExpandWalks
<1> HIDE DEF r
<1>5. /\ r \in Seq(Arrival(L)) /\ Tree(m, L, a, r) /\ Unmet(m, b, r)
      /\ Len(q) <= Len(r) /\ \A i \in 1 .. Len(q) : r[i] = q[i]
      /\ \A i \in 1 .. Len(r) : r[i].ancest <= k + 1
      /\ Reached(m, r, b) => r[Len(r)].ancest = k + 1
      /\ ~Reached(m, r, b) =>
           \A l \in 1 .. Len(es) : \E i \in 1 .. Len(r) : r[i].v = es[l].vertex
  BY <1>4 DEF Walking
<1>6. Len(r) \in Nat
  BY <1>5, TreeIs
<1>7. ASSUME NEW i \in 1 .. Len(r), i <= k + 1, Reached(m, r, b) => i < r[Len(r)].ancest
      PROVE  Expanded(m, r, i)
  <2>1. CASE i = k + 1
    <3>1. ~Reached(m, r, b)
      BY <1>5, <1>7, <2>1
    <3>2. r[i] = q[i]
      BY <1>2, <1>5, <2>1
    <3>3. es \in Seq(Way(L))
      BY <1>2 DEF Closed
    <3>4. ASSUME NEW e \in ToSet(es) PROVE \E j \in 1 .. Len(r) : r[j].v = e.vertex /\ r[j].ancest <= i
      <4>1. PICK l \in 1 .. Len(es) : es[l] = e
        BY <3>3, Members
      <4>2. PICK j \in 1 .. Len(r) : r[j].v = es[l].vertex
        BY <1>5, <3>1
      <4>3. QED
        BY <1>5, <2>1, <4>1, <4>2
    <3>5. QED
      BY <2>1, <3>2, <3>4 DEF Expanded
  <2>2. CASE i # k + 1
    <3>1. i <= k /\ i \in 1 .. Len(q)
      BY <1>2, <1>6, <1>7, <2>2
    <3>2. QED
      BY <1>1, <1>2, <1>5, <1>6, <3>1, StaysExpanded
  <2>3. QED
    BY <2>1, <2>2
<1>8. QED
  BY <1>5, <1>7 DEF Searching, r

\* Nothing is left to do at the next place.
LEMMA Rests ==
  ASSUME NEW m, NEW L, NEW a, NEW b, NEW k \in Nat, NEW q \in Searching(m, L, a, b, k),
         k + 1 > Len(q) \/ Reached(m, q, b)
  PROVE  q \in Searching(m, L, a, b, k + 1)
<1>1. /\ q \in Seq(Arrival(L)) /\ Tree(m, L, a, q) /\ Unmet(m, b, q)
      /\ \A i \in 1 .. Len(q) : q[i].ancest <= k
      /\ \A i \in 1 .. Len(q) : i <= k /\ (Reached(m, q, b) => i < q[Len(q)].ancest) => Expanded(m, q, i)
  BY DEF Searching
<1>2. /\ Len(q) \in Nat /\ Len(q) \in 1 .. Len(q) /\ \A i \in 1 .. Len(q) : q[i].ancest \in Nat
  BY <1>1, TreeIs
<1>3. \A i \in 1 .. Len(q) : q[i].ancest <= k + 1
  BY <1>1, <1>2
<1>4. ASSUME NEW i \in 1 .. Len(q), i <= k + 1, Reached(m, q, b) => i < q[Len(q)].ancest
      PROVE  Expanded(m, q, i)
  <2>1. i <= k
    <3>1. CASE k + 1 > Len(q)
      BY <1>2, <3>1
    <3>2. CASE Reached(m, q, b)
      <4>1. i < q[Len(q)].ancest /\ q[Len(q)].ancest <= k /\ q[Len(q)].ancest \in Nat
        BY <1>1, <1>2, <1>4, <3>2
      <4>2. QED
        BY <4>1
    <3>3. QED
      BY <3>1, <3>2
  <2>2. QED
    BY <1>1, <1>4, <2>1
<1>5. QED
  BY <1>1, <1>3, <1>4 DEF Searching

\* A tree has at most as many records as there are vertices.
LEMMA TreeBounded ==
  ASSUME NEW m, NEW L, NEW a, NEW q, Tree(m, L, a, q), IsFiniteSet(L)
  PROVE  Len(q) <= Cardinality(L)
<1> DEFINE f == [i \in 1 .. Len(q) |-> q[i].v]
<1>1. Len(q) \in Nat /\ \A i \in 1 .. Len(q) : q[i].v \in L
  BY TreeIs
<1>2. f \in [1 .. Len(q) -> L]
  BY <1>1
<1>3. \A i, j \in 1 .. Len(q) : f[i] = f[j] => i = j
  BY DEF Tree
<1>4. IsFiniteSet(1 .. Len(q)) /\ Cardinality(1 .. Len(q)) = Len(q)
  <2> DEFINE N == Len(q)
  <2> HIDE DEF N
  <2>1. N \in Nat /\ N >= 1
    BY TreeIs DEF N
  <2>2. IsFiniteSet(1 .. N) /\ Cardinality(1 .. N) = IF 1 > N THEN 0 ELSE N - 1 + 1
    BY <2>1, FS_Interval
  <2>3. QED
    BY <2>1, <2>2 DEF N
<1>5. Cardinality(L) \in Nat
  BY FS_CardinalityType
<1> HIDE DEF f
<1>6. ~(Cardinality(L) < Cardinality(1 .. Len(q)))
  BY <1>2, <1>3, <1>4, FS_PigeonHole
<1>7. QED
  BY <1>1, <1>4, <1>5, <1>6

\* The root alone, before any place.
LEMMA RootSearches ==
  ASSUME NEW m, NEW L, NEW a \in L, NEW b
  PROVE  <<[v |-> a, ancest |-> 0, road_id |-> Null]>> \in Searching(m, L, a, b, 0)
<1> DEFINE x == [v |-> a, ancest |-> 0, road_id |-> Null]
           q == <<x>>
<1>1. x \in Arrival(L) /\ x.v = a /\ x.ancest = 0
  BY DEF Arrival
<1> HIDE DEF x
<1>2. q \in Seq(Arrival(L)) /\ Len(q) = 1 /\ q[1] = x
  BY <1>1
<1> HIDE DEF q
<1>3. \A i \in 1 .. 1 : i = 1
  OBVIOUS
<1>4. Tree(m, L, a, q)
  BY <1>1, <1>2, <1>3 DEF Tree
<1>5. Unmet(m, b, q)
  BY <1>2 DEF Unmet
<1>6. \A i \in 1 .. Len(q) : q[i].ancest <= 0 /\ ~(i <= 0)
  BY <1>1, <1>2
<1>7. q \in Searching(m, L, a, b, 0)
  BY <1>2, <1>4, <1>5, <1>6 DEF Searching
<1>8. QED
  BY <1>7 DEF q, x

\* The search goes over all places of its queue.
LEMMA SearchIs ==
  ASSUME NEW m, NEW L, Closed(m, L), L \subseteq DOMAIN m, IsFiniteSet(DOMAIN m), NEW a \in L, NEW b
  PROVE  LET q == Search(m, a, b)
         IN  /\ Tree(m, L, a, q) /\ Unmet(m, b, q)
             /\ \A i \in 1 .. Len(q) :
                  (Reached(m, q, b) => i < q[Len(q)].ancest) => Expanded(m, q, i)
<1> DEFINE root == <<[v |-> a, ancest |-> 0, road_id |-> Null]>>
           C == Cardinality(DOMAIN m)
           S == Seq(Arrival(L))
           Step(k, r) == IF k > Len(r) \/ Reached(m, r, b) THEN r ELSE VisitAll(m, b, k, r)
           Goes(f) == f = [k \in 0 .. C |-> IF k = 0 THEN root
                             ELSE IF k > Len(f[k - 1]) \/ Reached(m, f[k - 1], b) THEN f[k - 1]
                             ELSE VisitAll(m, b, k, f[k - 1])]
           Within(k) == Searching(m, L, a, b, k)
           q == CHOOSE f : Goes(f)
<1>1. C \in Nat
  BY FS_CardinalityType
<1>2. Search(m, a, b) = q[C]
  BY DEF Search
<1>3. root \in Within(0)
  BY RootSearches
<1>4. ASSUME NEW k \in Nat, NEW r \in Within(k) PROVE Step(k + 1, r) \in Within(k + 1)
  <2> HIDE DEF root
  <2>1. CASE k + 1 > Len(r) \/ Reached(m, r, b)
    BY <2>1, Rests
  <2>2. CASE ~(k + 1 > Len(r) \/ Reached(m, r, b))
    <3>1. Len(r) \in Nat
      BY DEF Searching
    <3>2. k + 1 <= Len(r)
      BY <2>2, <3>1
    <3>3. QED
      BY <2>2, <3>2, Expands
  <2>3. QED
    BY <2>1, <2>2
<1>5. \A k \in 1 .. C : \A r \in Within(k - 1) : Step(k, r) \in Within(k)
  <2> HIDE DEF Within, Step, C
  <2>1. \A k \in 1 .. C : k - 1 \in Nat /\ (k - 1) + 1 = k
    BY <1>1
  <2>2. QED
    BY <1>4, <2>1
<1>6. \A k \in 0 .. C : Within(k) \subseteq S
  BY DEF Searching
<1> HIDE DEF Within, Step, C, root, S
<1>7. \A k \in 0 .. C : k # 0 => k \in 1 .. C /\ k - 1 \in 0 .. C
  BY <1>1
<1>8. \A k \in 0 .. C - 1 : k + 1 \in 1 .. C /\ k + 1 \in 0 .. C /\ (k + 1) - 1 = k /\ k + 1 # 0
  BY <1>1
<1>9. 0 \in 0 .. C /\ C \in 0 .. C
  BY <1>1
<1>10. \E f : Goes(f)
  <2> DEFINE g == [k \in 1 .. C |-> [r \in S |-> IF r \in Within(k - 1) THEN Step(k, r) ELSE r]]
  <2>1. \A k \in 1 .. C : \A r \in S : (IF r \in Within(k - 1) THEN Step(k, r) ELSE r) \in S
    <3>1. \A k \in 1 .. C : k \in 0 .. C
      BY <1>1
    <3>2. QED
      BY <1>5, <1>6, <3>1
  <2>2. g \in [1 .. C -> [S -> S]]
    BY <2>1
  <2>3. \A k \in 1 .. C : \A r \in S : g[k][r] = IF r \in Within(k - 1) THEN Step(k, r) ELSE r
    OBVIOUS
  <2>4. root \in S
    BY <1>3, <1>6, <1>9
  <2> HIDE DEF g
  <2>5. PICK f : Unfolds(f, C, S, root, g)
    BY <1>1, <2>2, <2>4, Recursion
  <2>6. /\ f \in [0 .. C -> S] /\ f[0] = root
        /\ \A k \in 1 .. C : f[k] = g[k][f[k - 1]]
    BY <2>5 DEF Unfolds
  <2> DEFINE OK == {k \in 0 .. C : f[k] \in Within(k)}
  <2>7. 0 \in OK
    BY <1>3, <1>9, <2>6
  <2>8. ASSUME NEW k \in 0 .. C - 1, k \in OK PROVE k + 1 \in OK
    <3>1. f[k] \in Within((k + 1) - 1) /\ f[k] \in S
      BY <1>8, <2>6, <2>8
    <3>2. f[k + 1] = g[k + 1][f[k]]
      BY <1>8, <2>6
    <3>3. f[k + 1] = Step(k + 1, f[k])
      BY <1>8, <2>3, <3>1, <3>2
    <3>4. QED
      BY <1>5, <1>8, <3>1, <3>3
  <2>9. \A k \in 0 .. C : f[k] \in Within(k)
    <3> HIDE DEF OK
    <3>1. 0 .. C \subseteq OK
      BY <1>1, <2>7, <2>8, UpTo
    <3>2. QED
      BY <3>1 DEF OK
  <2>10. \A k \in 0 .. C : f[k] = IF k = 0 THEN root ELSE Step(k, f[k - 1])
    BY <1>7, <2>3, <2>6, <2>9
  <2>11. Goes(f)
    BY <2>6, <2>10 DEF Step
  <2>12. QED
    BY <2>11
<1>11. Goes(q)
  <2> HIDE DEF Goes
  <2>1. QED
    BY <1>10
<1> HIDE DEF q
<1>12. \A k \in 0 .. C : q[k] = IF k = 0 THEN root ELSE Step(k, q[k - 1])
  BY <1>11 DEF Step
<1> HIDE DEF Goes
<1> DEFINE OK == {k \in 0 .. C : q[k] \in Within(k)}
<1>13. 0 \in OK
  BY <1>3, <1>9, <1>12
<1>14. ASSUME NEW k \in 0 .. C - 1, k \in OK PROVE k + 1 \in OK
  BY <1>5, <1>8, <1>12, <1>14
<1>15. q[C] \in Searching(m, L, a, b, C)
  <2> HIDE DEF OK
  <2>1. 0 .. C \subseteq OK
    BY <1>1, <1>13, <1>14, UpTo
  <2>2. QED
    BY <1>9, <2>1 DEF OK, Within
<1>16. QED
  <2> DEFINE r == q[C]
  <2> HIDE DEF r
  <2>1. /\ Tree(m, L, a, r) /\ Unmet(m, b, r)
        /\ \A i \in 1 .. Len(r) : i <= C /\ (Reached(m, r, b) => i < r[Len(r)].ancest) => Expanded(m, r, i)
    BY <1>15 DEF Searching, r
  <2>2. Len(r) \in Nat /\ Len(r) <= C
    <3>1. IsFiniteSet(L) /\ Cardinality(L) <= C /\ Cardinality(L) \in Nat
      BY FS_Subset, FS_CardinalityType DEF C
    <3>2. QED
      BY <1>1, <2>1, <3>1, TreeIs, TreeBounded
  <2>3. \A i \in 1 .. Len(r) : i <= C
    BY <1>1, <2>2
  <2>4. QED
    BY <1>2, <2>1, <2>3 DEF r

(***************************************************************************)
(* The paths to what was found                                              *)
(***************************************************************************)

\* The path to every record of the queue, as the roads that were taken.
Trails(L, q, p) ==
  /\ p \in [1 .. Len(q) -> Seq(Way(L))]
  /\ p[1] = <<>>
  /\ \A i \in 2 .. Len(q) : p[i] = Append(p[q[i].ancest], By(q[i]))

LEMMA TrailsExist ==
  ASSUME NEW m, NEW L, Closed(m, L), NEW a, NEW q, Tree(m, L, a, q)
  PROVE  \E p : Trails(L, q, p)
<1> DEFINE S == Seq(Way(L))
           g == [i \in 2 .. Len(q) |-> [s \in S |-> Append(s, By(q[i]))]]
<1>1. \A i \in 2 .. Len(q) : By(q[i]) \in Way(L)
  <2> SUFFICES ASSUME NEW i \in 2 .. Len(q) PROVE By(q[i]) \in Way(L)
    OBVIOUS
  <2>1. q[q[i].ancest].v \in L /\ By(q[i]) \in ToSet(m[q[q[i].ancest].v].edges)
    BY TreeIs DEF Tree
  <2>2. m[q[q[i].ancest].v].edges \in Seq(Way(L))
    BY <2>1 DEF Closed
  <2>3. QED
    BY <2>1, <2>2, Members
<1>2. g \in [2 .. Len(q) -> [S -> S]]
  BY <1>1
<1>3. \A i \in 2 .. Len(q) : \A s \in S : g[i][s] = Append(s, By(q[i]))
  OBVIOUS
<1>4. <<>> \in S
  OBVIOUS
<1> HIDE DEF S, g
<1>5. PICK p : Climbs(p, Len(q), q, S, <<>>, g)
  BY <1>2, <1>4, TreeIs, Ancestry DEF Tree
<1>6. p \in [1 .. Len(q) -> S] /\ p[1] = <<>> /\ \A i \in 2 .. Len(q) : p[i] = g[i][p[q[i].ancest]]
  BY <1>5 DEF Climbs
<1>7. \A i \in 2 .. Len(q) : p[q[i].ancest] \in S
  BY <1>6, TreeIs
<1>8. \A i \in 2 .. Len(q) : p[i] = Append(p[q[i].ancest], By(q[i]))
  BY <1>3, <1>6, <1>7
<1>9. Trails(L, q, p)
  BY <1>6, <1>8 DEF Trails, S
<1>10. QED
  BY <1>9

\* A path ends with the road its record came by, and is one road longer than its ancestor's.
LEMMA TrailIs ==
  ASSUME NEW m, NEW L, NEW a, NEW q, Tree(m, L, a, q), NEW p, Trails(L, q, p)
  PROVE  /\ \A i \in 1 .. Len(q) : p[i] \in Seq(Way(L)) /\ Len(p[i]) \in Nat
         /\ p[1] = <<>> /\ Len(p[1]) = 0
         /\ \A i \in 2 .. Len(q) :
              /\ p[i] = Append(p[q[i].ancest], By(q[i]))
              /\ Len(p[i]) = Len(p[q[i].ancest]) + 1
              /\ Last(p[i]) = By(q[i]) /\ Len(p[i]) >= 1
<1>1. \A i \in 1 .. Len(q) : p[i] \in Seq(Way(L)) /\ Len(p[i]) \in Nat
  BY DEF Trails
<1>2. ASSUME NEW i \in 2 .. Len(q)
      PROVE  /\ p[i] = Append(p[q[i].ancest], By(q[i]))
             /\ Len(p[i]) = Len(p[q[i].ancest]) + 1
             /\ Last(p[i]) = By(q[i]) /\ Len(p[i]) >= 1
  <2> DEFINE s == p[q[i].ancest]
  <2>1. p[i] = Append(s, By(q[i]))
    BY DEF Trails
  <2>2. s \in Seq(Way(L)) /\ Len(s) \in Nat
    BY <1>1, TreeIs
  <2> HIDE DEF s
  <2> DEFINE e == By(q[i])
  <2> HIDE DEF e
  <2>3. Len(Append(s, e)) = Len(s) + 1 /\ Append(s, e)[Len(s) + 1] = e
    BY <2>2
  <2>4. QED
    BY <2>1, <2>2, <2>3 DEF Last, s, e
<1>3. QED
  BY <1>1, <1>2 DEF Trails

\* Later records are not nearer, and none is farther than its place.
LEMMA TrailsGrow ==
  ASSUME NEW m, NEW L, NEW a, NEW q, Tree(m, L, a, q), NEW p, Trails(L, q, p)
  PROVE  /\ \A i \in 1 .. Len(q) : Len(p[i]) <= i - 1
         /\ \A i, j \in 1 .. Len(q) : i <= j => Len(p[i]) <= Len(p[j])
<1> DEFINE N == Len(q)
           G == {j \in 1 .. N : Len(p[j]) <= j - 1 /\ \A i \in 1 .. j : Len(p[i]) <= Len(p[j])}
<1>1. /\ N \in Nat /\ N >= 1
      /\ \A i \in 2 .. N : q[i].ancest \in 1 .. i - 1 /\ q[i].ancest \in 1 .. N
      /\ \A i, j \in 1 .. N : i <= j => q[i].ancest <= q[j].ancest
  BY TreeIs DEF Tree
<1>2. /\ \A i \in 1 .. N : Len(p[i]) \in Nat
      /\ Len(p[1]) = 0
      /\ \A i \in 2 .. N : Len(p[i]) = Len(p[q[i].ancest]) + 1
  BY TrailIs
<1> HIDE DEF N
<1>3. 1 \in G
  BY <1>1, <1>2
<1>4. ASSUME NEW j \in 2 .. N, 1 .. j - 1 \subseteq G PROVE j \in G
  <2> DEFINE c == q[j].ancest
  <2>1. c \in 1 .. j - 1 /\ c \in 1 .. N /\ c \in Nat /\ j \in 1 .. N /\ c \in G
    BY <1>1, <1>4
  <2>2. Len(p[j]) = Len(p[c]) + 1 /\ Len(p[c]) \in Nat
    BY <1>2, <2>1
  <2>3. Len(p[c]) <= c - 1 /\ \A i \in 1 .. c : Len(p[i]) <= Len(p[c])
    BY <2>1
  <2>4. Len(p[j]) <= j - 1
    BY <2>1, <2>2, <2>3
  <2>5. ASSUME NEW i \in 1 .. j PROVE Len(p[i]) <= Len(p[j])
    <3>1. CASE i = 1
      BY <1>2, <2>2, <3>1
    <3>2. CASE i # 1
      <4>1. i \in 2 .. N /\ i \in 1 .. N /\ i <= j
        BY <1>1, <3>2
      <4>2. q[i].ancest <= c /\ q[i].ancest \in 1 .. N
        BY <1>1, <2>1, <4>1
      <4>3. q[i].ancest \in 1 .. c
        BY <2>1, <4>2
      <4>4. Len(p[q[i].ancest]) <= Len(p[c]) /\ Len(p[i]) = Len(p[q[i].ancest]) + 1
        BY <1>2, <2>3, <4>1, <4>3
      <4>5. Len(p[q[i].ancest]) \in Nat
        BY <1>2, <4>2
      <4>6. QED
        BY <2>2, <4>4, <4>5
    <3>3. QED
      BY <3>1, <3>2
  <2>6. QED
    BY <2>1, <2>4, <2>5
<1>5. 1 .. N \subseteq G
  <2> HIDE DEF G
  <2>1. QED
    BY <1>1, <1>3, <1>4, EveryPlace
<1>6. \A j \in 1 .. N : Len(p[j]) <= j - 1 /\ \A i \in 1 .. j : Len(p[i]) <= Len(p[j])
  BY <1>5
<1>7. \A i, j \in 1 .. N : i <= j => i \in 1 .. j
  BY <1>1
<1>8. QED
  BY <1>6, <1>7 DEF N

\* Paths of at least one road, and what a set of them becomes by one more road.
Paths(L) == {p \in Seq(Way(L)) : Len(p) >= 1}
OneRoad(v) == {<<e>> : e \in ToSet(mem[v].edges)}
OneMore(W) == UNION {{Append(p, e) : e \in ToSet(mem[Last(p).vertex].edges)} : p \in W}

\* w[k] are the walks of k roads from v, for the k up to n.
WalkedTo(w, v, n) == w = [k \in 1 .. n |-> IF k = 1 THEN OneRoad(v) ELSE OneMore(w[k - 1])]

LEMMA LastRoad ==
  ASSUME NEW L, NEW p \in Paths(L)
  PROVE  /\ Last(p) = p[Len(p)] /\ Last(p) \in Way(L) /\ Last(p).vertex \in L /\ Last(p).road_id \in Road
         /\ p \in Seq(Way(L)) /\ Len(p) \in Nat /\ Len(p) >= 1
         /\ \A e \in Way(L) : /\ Append(p, e) \in Paths(L) /\ Last(Append(p, e)) = e
                              /\ Len(Append(p, e)) = Len(p) + 1
<1>1. p \in Seq(Way(L)) /\ Len(p) \in Nat /\ Len(p) >= 1 /\ p[Len(p)] \in Way(L)
  BY DEF Paths
<1>2. Last(p) = p[Len(p)]
  BY DEF Last
<1>3. ASSUME NEW e \in Way(L)
      PROVE  Append(p, e) \in Paths(L) /\ Last(Append(p, e)) = e /\ Len(Append(p, e)) = Len(p) + 1
  <2>1. /\ Append(p, e) \in Seq(Way(L)) /\ Len(Append(p, e)) = Len(p) + 1
        /\ Append(p, e)[Len(p) + 1] = e
    BY <1>1
  <2>2. QED
    BY <1>1, <2>1 DEF Paths, Last
<1>4. QED
  BY <1>1, <1>2, <1>3, Fields

LEMMA RoadsStay ==
  ASSUME NEW L, Closed(mem, L), NEW v \in L
  PROVE  /\ ToSet(mem[v].edges) \subseteq Way(L) /\ OneRoad(v) \subseteq Paths(L)
         /\ \A W \in SUBSET Paths(L) : OneMore(W) \subseteq Paths(L)
<1>1. ASSUME NEW h \in L PROVE ToSet(mem[h].edges) \subseteq Way(L)
  BY Members DEF Closed
<1>2. ASSUME NEW e \in Way(L) PROVE <<e>> \in Paths(L)
  BY DEF Paths
<1>3. ASSUME NEW W \in SUBSET Paths(L), NEW p \in W, NEW e \in ToSet(mem[Last(p).vertex].edges)
      PROVE  Append(p, e) \in Paths(L)
  BY <1>1, <1>3, LastRoad
<1>4. ASSUME NEW W \in SUBSET Paths(L) PROVE OneMore(W) \subseteq Paths(L)
  <2> SUFFICES ASSUME NEW s \in OneMore(W) PROVE s \in Paths(L)
    OBVIOUS
  <2>1. PICK p \in W : s \in {Append(p, e) : e \in ToSet(mem[Last(p).vertex].edges)}
    BY DEF OneMore
  <2>2. PICK e \in ToSet(mem[Last(p).vertex].edges) : s = Append(p, e)
    BY <2>1
  <2>3. QED
    BY <1>3, <2>2
<1>5. OneRoad(v) \subseteq Paths(L)
  BY <1>1, <1>2 DEF OneRoad
<1>6. QED
  BY <1>1, <1>4, <1>5

LEMMA WalksUnfold ==
  ASSUME NEW L, Closed(mem, L), NEW v \in L, NEW n \in Nat
  PROVE  \E w : WalkedTo(w, v, n)
<1> DEFINE S == SUBSET Paths(L)
           g == [k \in 1 .. n |-> [W \in S |-> IF k = 1 THEN OneRoad(v) ELSE OneMore(W)]]
<1>1. OneRoad(v) \in S /\ {} \in S /\ \A W \in S : OneMore(W) \in S
  BY RoadsStay
<1>2. g \in [1 .. n -> [S -> S]]
  BY <1>1
<1>3. \A k \in 1 .. n : \A W \in S : g[k][W] = IF k = 1 THEN OneRoad(v) ELSE OneMore(W)
  OBVIOUS
<1> HIDE DEF S, g
<1>4. PICK f : Unfolds(f, n, S, {}, g)
  BY <1>1, <1>2, Recursion
<1>5. f \in [0 .. n -> S] /\ \A k \in 1 .. n : f[k] = g[k][f[k - 1]]
  BY <1>4 DEF Unfolds
<1> DEFINE w == [k \in 1 .. n |-> f[k]]
<1>6. \A k \in 1 .. n : k - 1 \in 0 .. n /\ (k # 1 => k - 1 \in 1 .. n)
  OBVIOUS
<1>7. \A k \in 1 .. n : f[k] = IF k = 1 THEN OneRoad(v) ELSE OneMore(f[k - 1])
  BY <1>3, <1>5, <1>6
<1>8. \A k \in 1 .. n : w[k] = f[k] /\ (k # 1 => w[k - 1] = f[k - 1])
  BY <1>6
<1>9. \A k \in 1 .. n : f[k] = IF k = 1 THEN OneRoad(v) ELSE OneMore(w[k - 1])
  BY <1>7, <1>8
<1>10. WalkedTo(w, v, n)
  BY <1>9 DEF WalkedTo
<1>11. QED
  BY <1>10

\* Walks of the same length are the same whichever function they are taken from.
LEMMA WalksAgree ==
  ASSUME NEW v, NEW n \in Nat, NEW l \in Nat, NEW w, WalkedTo(w, v, n), NEW u, WalkedTo(u, v, l), n <= l
  PROVE  \A k \in 1 .. n : w[k] = u[k]
<1>1. /\ \A k \in 1 .. n : w[k] = IF k = 1 THEN OneRoad(v) ELSE OneMore(w[k - 1])
      /\ \A k \in 1 .. l : u[k] = IF k = 1 THEN OneRoad(v) ELSE OneMore(u[k - 1])
  BY DEF WalkedTo
<1> DEFINE OK == {k \in 0 .. n : \A i \in 1 .. k : w[i] = u[i]}
<1>2. 0 \in OK
  OBVIOUS
<1>3. ASSUME NEW k \in 0 .. n - 1, k \in OK PROVE k + 1 \in OK
  <2>1. k + 1 \in 0 .. n /\ k + 1 \in 1 .. n /\ k + 1 \in 1 .. l /\ (k + 1) - 1 = k
    OBVIOUS
  <2>2. w[k + 1] = u[k + 1]
    <3>1. CASE k = 0
      BY <1>1, <2>1, <3>1
    <3>2. CASE k # 0
      <4>1. w[k] = u[k] /\ k + 1 # 1
        BY <1>3, <3>2
      <4>2. QED
        BY <1>1, <2>1, <4>1
    <3>3. QED
      BY <3>1, <3>2
  <2>3. \A i \in 1 .. k + 1 : i \in 1 .. k \/ i = k + 1
    BY <2>1
  <2>4. QED
    BY <1>3, <2>1, <2>2, <2>3
<1>4. n \in OK
  <2> HIDE DEF OK
  <2>1. 0 .. n \subseteq OK
    BY <1>2, <1>3, UpTo
  <2>2. QED
    BY <2>1
<1>5. QED
  BY <1>4

\* The walks of ShortestPathsTo, length by length.
LEMMA WalksAre ==
  ASSUME NEW L, Closed(mem, L), NEW v \in L
  PROVE  /\ Walks(v, 1) = OneRoad(v)
         /\ \A n \in Nat \ {0} : Walks(v, n + 1) = OneMore(Walks(v, n))
<1> DEFINE walks(n) == CHOOSE w : WalkedTo(w, v, n)
<1>1. \A n \in Nat : WalkedTo(walks(n), v, n)
  BY WalksUnfold
<1>2. \A n \in Nat \ {0} : Walks(v, n) = walks(n)[n]
  BY DEF Walks, WalkedTo, OneRoad, OneMore
<1> HIDE DEF walks
<1>3. \A n \in Nat : \A k \in 1 .. n : walks(n)[k] = IF k = 1 THEN OneRoad(v) ELSE OneMore(walks(n)[k - 1])
  <2> SUFFICES ASSUME NEW n \in Nat, NEW k \in 1 .. n
               PROVE  walks(n)[k] = IF k = 1 THEN OneRoad(v) ELSE OneMore(walks(n)[k - 1])
    OBVIOUS
  <2> DEFINE w == walks(n)
  <2>1. WalkedTo(w, v, n)
    BY <1>1
  <2> HIDE DEF w
  <2>2. w[k] = IF k = 1 THEN OneRoad(v) ELSE OneMore(w[k - 1])
    BY <2>1 DEF WalkedTo
  <2>3. QED
    BY <2>2 DEF w
<1>4. Walks(v, 1) = OneRoad(v)
  <2>1. 1 \in Nat \ {0} /\ 1 \in 1 .. 1
    OBVIOUS
  <2>2. QED
    BY <1>2, <1>3, <2>1
<1>5. ASSUME NEW n \in Nat \ {0} PROVE Walks(v, n + 1) = OneMore(Walks(v, n))
  <2>1. n + 1 \in Nat \ {0} /\ n + 1 \in 1 .. n + 1 /\ n + 1 # 1 /\ (n + 1) - 1 = n /\ n \in 1 .. n
        /\ n \in Nat /\ n <= n + 1
    OBVIOUS
  <2>2. Walks(v, n + 1) = OneMore(walks(n + 1)[n])
    BY <1>2, <1>3, <2>1
  <2>3. walks(n)[n] = walks(n + 1)[n]
    BY <1>1, <2>1, WalksAgree
  <2>4. QED
    BY <1>2, <2>1, <2>2, <2>3
<1>6. QED
  BY <1>4, <1>5

\* Where the changes of road of a non-empty path have their last.
LEMMA LastChange ==
  ASSUME NEW n \in Nat, NEW C \in SUBSET (1 .. n), C # {}
  PROVE  Max(C) \in C /\ \A k \in C : k <= Max(C)
<1> DEFINE U == {k \in Nat : \A c \in C : c <= k}
<1>1. U \in SUBSET Nat /\ n \in U
  OBVIOUS
<1> HIDE DEF U
<1>2. PICK k \in U : \A x \in U : k <= x
  BY <1>1, Least
<1>3. k \in Nat /\ \A c \in C : c \in Nat /\ c >= 1 /\ c <= k
  BY <1>1 DEF U
<1>4. k >= 1
  <2>1. PICK c \in C : TRUE
    OBVIOUS
  <2>2. c \in Nat /\ c >= 1 /\ c <= k
    BY <1>3
  <2>3. QED
    BY <1>3, <2>2
<1>5. k \in C
  <2> SUFFICES ASSUME k \notin C PROVE FALSE
    OBVIOUS
  <2>1. \A c \in C : c <= k - 1
    BY <1>3
  <2>2. k - 1 \in U
    BY <1>3, <1>4, <2>1 DEF U
  <2>3. QED
    BY <1>2, <1>3, <2>2
<1>6. \E x \in C : \A y \in C : x >= y
  BY <1>3, <1>5
<1>7. Max(C) \in C /\ \A y \in C : Max(C) >= y
  BY <1>6 DEF Max
<1>8. QED
  BY <1>7

\* A path of one road does not cross; a longer one crosses last where its last road
\* begins, if this is another than the road before, and else where it did before.
LEMMA LastCrossingOne ==
  ASSUME NEW e
  PROVE  LastCrossing(<<e>>) = Null
<1>1. Len(<<e>>) = 1 /\ 2 .. 1 = {}
  OBVIOUS
<1>2. {k \in 2 .. Len(<<e>>) : <<e>>[k].road_id # <<e>>[k - 1].road_id} = {}
  BY <1>1
<1>3. QED
  BY <1>2 DEF LastCrossing

LEMMA LastCrossingMore ==
  ASSUME NEW L, NEW p \in Paths(L), NEW e \in Way(L)
  PROVE  LastCrossing(Append(p, e)) =
           IF e.road_id # Last(p).road_id THEN Last(p).vertex ELSE LastCrossing(p)
<1> DEFINE r == Append(p, e)
           n == Len(p)
           Before == {k \in 2 .. n : p[k].road_id # p[k - 1].road_id}
           Now    == {k \in 2 .. Len(r) : r[k].road_id # r[k - 1].road_id}
<1>1. p \in Seq(Way(L)) /\ n \in Nat /\ n >= 1 /\ Last(p) = p[n]
  BY LastRoad
<1>2. Len(r) = n + 1 /\ r[n + 1] = e /\ \A k \in 1 .. n : r[k] = p[k]
  BY <1>1
<1>3. /\ LastCrossing(p) = IF Before = {} THEN Null ELSE p[Max(Before) - 1].vertex
      /\ LastCrossing(r) = IF Now = {} THEN Null ELSE r[Max(Now) - 1].vertex
  BY DEF LastCrossing
<1> HIDE DEF r
<1>4. \A k \in 2 .. n + 1 : k \in Now <=> IF k = n + 1 THEN e.road_id # Last(p).road_id ELSE k \in Before
  <2> SUFFICES ASSUME NEW k \in 2 .. n + 1
               PROVE  k \in Now <=> IF k = n + 1 THEN e.road_id # Last(p).road_id ELSE k \in Before
    OBVIOUS
  <2>1. CASE k = n + 1
    <3>1. k - 1 = n /\ n \in 1 .. n
      BY <1>1, <2>1
    <3>2. r[k] = e /\ r[k - 1] = Last(p) /\ k \in 2 .. Len(r)
      BY <1>1, <1>2, <2>1, <3>1
    <3>3. QED
      BY <2>1, <3>2
  <2>2. CASE k # n + 1
    <3>1. k \in 2 .. n /\ k \in 1 .. n /\ k - 1 \in 1 .. n /\ k \in 2 .. Len(r)
      BY <1>1, <1>2, <2>2
    <3>2. r[k] = p[k] /\ r[k - 1] = p[k - 1]
      BY <1>2, <3>1
    <3>3. QED
      BY <2>2, <3>1, <3>2
  <2>3. QED
    BY <2>1, <2>2
<1>5. Now \subseteq 2 .. n + 1 /\ Before \subseteq 2 .. n
  BY <1>2
<1> HIDE DEF Now, Before, n
<1>6. CASE e.road_id # Last(p).road_id
  <2>1. n + 1 \in Now
    BY <1>1, <1>4, <1>6
  <2>2. Max(Now) \in Now /\ \A k \in Now : k <= Max(Now)
    <3>1. n + 1 \in Nat /\ Now \in SUBSET (1 .. n + 1)
      BY <1>1, <1>5
    <3>2. QED
      BY <2>1, <3>1, LastChange
  <2>3. Max(Now) = n + 1
    <3>1. Max(Now) \in 2 .. n + 1 /\ n + 1 <= Max(Now)
      BY <1>5, <2>1, <2>2
    <3>2. QED
      BY <1>1, <3>1
  <2>4. LastCrossing(r) = r[n].vertex
    <3>1. (n + 1) - 1 = n
      BY <1>1
    <3>2. QED
      BY <1>3, <2>1, <2>3, <3>1
  <2>5. r[n] = Last(p)
    BY <1>1, <1>2
  <2>6. QED
    BY <1>6, <2>4, <2>5 DEF r
<1>7. CASE e.road_id = Last(p).road_id
  <2>1. Now = Before
    <3>1. n + 1 \notin Now
      BY <1>1, <1>4, <1>7
    <3>2. \A k \in 2 .. n + 1 : k \in Now <=> k \in Before
      <4>1. n + 1 \notin Before
        BY <1>1, <1>5
      <4>2. QED
        BY <1>4, <3>1, <4>1
    <3>3. Before \subseteq 2 .. n + 1
      BY <1>1, <1>5
    <3>4. QED
      BY <1>5, <3>2, <3>3
  <2>2. CASE Before = {}
    BY <1>3, <1>7, <2>1, <2>2 DEF r
  <2>3. CASE Before # {}
    <3>1. Max(Before) \in Before
      <4>1. Before \in SUBSET (1 .. n)
        BY <1>1, <1>5
      <4>2. QED
        BY <1>1, <2>3, <4>1, LastChange
    <3>2. Max(Before) - 1 \in 1 .. n
      <4>1. Max(Before) \in 2 .. n
        BY <1>5, <3>1
      <4>2. QED
        BY <1>1, <4>1
    <3>3. r[Max(Before) - 1] = p[Max(Before) - 1]
      BY <1>2, <3>2
    <3>4. QED
      BY <1>3, <1>7, <2>1, <2>3, <3>3 DEF r
  <2>4. QED
    BY <2>2, <2>3
<1>8. QED
  BY <1>6, <1>7

\* print_crossnode over a tree: the walk back, as a function of the record.
WalksBack(walk, q) ==
  walk = [p \in 2 .. Len(q) |->
            LET c == q[p].ancest
            IN  IF c = 1 THEN Null
                ELSE IF q[p].road_id # q[c].road_id THEN q[c].v
                ELSE walk[c]]

LEMMA PrintCrossnodeIs ==
  ASSUME NEW m, NEW L, NEW a, NEW q, Tree(m, L, a, q), Len(q) > 1
  PROVE  \E walk : WalksBack(walk, q) /\ PrintCrossnode(q) = walk[Len(q)]
<1> DEFINE S == L \cup {Null}
           Step(i, x) == IF q[i].ancest = 1 THEN Null
                         ELSE IF q[i].road_id # q[q[i].ancest].road_id THEN q[q[i].ancest].v
                         ELSE x
           g == [i \in 2 .. Len(q) |-> [x \in S |-> Step(i, x)]]
<1>1. \A i \in 2 .. Len(q) : q[q[i].ancest].v \in L
  BY TreeIs
<1>2. g \in [2 .. Len(q) -> [S -> S]]
  BY <1>1
<1>3. \A i \in 2 .. Len(q) : \A x \in S : g[i][x] = Step(i, x)
  OBVIOUS
<1>4. Null \in S
  OBVIOUS
<1> HIDE DEF g, S
<1>5. PICK f : Climbs(f, Len(q), q, S, Null, g)
  BY <1>2, <1>4, TreeIs, Ancestry DEF Tree
<1>6. f \in [1 .. Len(q) -> S] /\ f[1] = Null /\ \A i \in 2 .. Len(q) : f[i] = g[i][f[q[i].ancest]]
  BY <1>5 DEF Climbs
<1>7. \A i \in 2 .. Len(q) : /\ q[i].ancest \in 1 .. Len(q) /\ f[q[i].ancest] \in S
                             /\ q[i].ancest # 1 => q[i].ancest \in 2 .. Len(q)
  BY <1>6, TreeIs
<1>8. \A i \in 2 .. Len(q) : f[i] = Step(i, f[q[i].ancest])
  BY <1>3, <1>6, <1>7
<1> DEFINE walk == [i \in 2 .. Len(q) |-> f[i]]
<1>9. \A i \in 2 .. Len(q) : walk[i] = Step(i, walk[q[i].ancest])
  <2> SUFFICES ASSUME NEW i \in 2 .. Len(q) PROVE walk[i] = Step(i, walk[q[i].ancest])
    OBVIOUS
  <2>1. walk[i] = f[i] /\ (q[i].ancest # 1 => walk[q[i].ancest] = f[q[i].ancest])
    BY <1>7
  <2> HIDE DEF walk
  <2>2. QED
    BY <1>8, <2>1
<1>10. walk = [i \in 2 .. Len(q) |-> Step(i, walk[q[i].ancest])]
  <2>1. walk = [i \in 2 .. Len(q) |-> walk[i]]
    OBVIOUS
  <2> HIDE DEF walk, Step
  <2>2. QED
    BY <1>9, <2>1
<1> HIDE DEF walk
<1>11. \E w : WalksBack(w, q)
  BY <1>10 DEF WalksBack
<1> DEFINE w == CHOOSE w : WalksBack(w, q)
<1>12. WalksBack(w, q)
  BY <1>11
<1>13. PrintCrossnode(q) = w[Len(q)]
  BY DEF PrintCrossnode, WalksBack
<1>14. QED
  BY <1>12, <1>13

LEMMA FirstRoad ==
  ASSUME NEW e
  PROVE  Append(<<>>, e) = <<e>> /\ Len(<<e>>) = 1
OBVIOUS

\* The path to a record is a walk, and print_crossnode returns its last crossing.
LEMMA TrailsWalk ==
  ASSUME NEW L, Closed(mem, L), NEW a \in L, NEW q, Tree(mem, L, a, q), NEW p, Trails(L, q, p)
  PROVE  \A i \in 2 .. Len(q) : p[i] \in Walks(a, Len(p[i])) /\ p[i] \in Paths(L)
<1> DEFINE N == Len(q)
           G == {i \in 1 .. N : i # 1 => p[i] \in Walks(a, Len(p[i])) /\ p[i] \in Paths(L)}
<1>1. /\ N \in Nat /\ N >= 1
      /\ \A i \in 2 .. N : q[i].ancest \in 1 .. i - 1 /\ q[i].ancest \in 1 .. N
      /\ \A i \in 2 .. N : By(q[i]) \in ToSet(mem[q[q[i].ancest].v].edges)
      /\ q[1].v = a
  BY TreeIs DEF Tree
<1>2. /\ \A i \in 1 .. N : p[i] \in Seq(Way(L)) /\ Len(p[i]) \in Nat
      /\ p[1] = <<>>
      /\ \A i \in 2 .. N : /\ p[i] = Append(p[q[i].ancest], By(q[i]))
                           /\ Len(p[i]) = Len(p[q[i].ancest]) + 1
                           /\ Last(p[i]) = By(q[i]) /\ Len(p[i]) >= 1
  BY TrailIs
<1>3. Walks(a, 1) = OneRoad(a) /\ \A n \in Nat \ {0} : Walks(a, n + 1) = OneMore(Walks(a, n))
  BY WalksAre
<1> HIDE DEF N
<1>4. 1 \in G
  BY <1>1
<1>5. ASSUME NEW i \in 2 .. N, 1 .. i - 1 \subseteq G PROVE i \in G
  <2> DEFINE c == q[i].ancest
             e == By(q[i])
  <2>1. c \in 1 .. i - 1 /\ c \in 1 .. N /\ c \in G /\ e \in ToSet(mem[q[c].v].edges) /\ i \in 1 .. N
    BY <1>1, <1>5
  <2>2. p[i] = Append(p[c], e) /\ Len(p[i]) = Len(p[c]) + 1 /\ p[i] \in Seq(Way(L)) /\ Len(p[i]) >= 1
    BY <1>2, <2>1
  <2>3. p[i] \in Paths(L)
    BY <2>2 DEF Paths
  <2> HIDE DEF c, e
  <2>4. CASE c = 1
    <3>1. p[i] = <<e>> /\ Len(p[i]) = 1
      <4>1. p[i] = Append(<<>>, e)
        BY <1>2, <2>2, <2>4
      <4>2. QED
        BY <4>1, FirstRoad
    <3>2. e \in ToSet(mem[a].edges)
      BY <1>1, <2>1, <2>4
    <3>3. p[i] \in Walks(a, 1)
      BY <1>3, <3>1, <3>2 DEF OneRoad
    <3>4. QED
      BY <2>1, <2>3, <3>1, <3>3
  <2>5. CASE c # 1
    <3>1. p[c] \in Walks(a, Len(p[c])) /\ p[c] \in Paths(L)
      BY <2>1, <2>5
    <3>2. c \in 2 .. N
      BY <1>1, <2>1, <2>5
    <3>3. Last(p[c]).vertex = q[c].v /\ Len(p[c]) \in Nat \ {0}
      <4>1. Last(p[c]) = By(q[c]) /\ Len(p[c]) >= 1 /\ Len(p[c]) \in Nat
        BY <1>2, <2>1, <3>2
      <4>2. QED
        BY <4>1 DEF By
    <3>4. p[i] \in OneMore(Walks(a, Len(p[c])))
      BY <2>1, <2>2, <3>1, <3>3 DEF OneMore
    <3>5. p[i] \in Walks(a, Len(p[c]) + 1)
      BY <1>3, <3>3, <3>4
    <3>6. QED
      BY <2>1, <2>2, <2>3, <3>5
  <2>6. QED
    BY <2>4, <2>5
<1>6. 1 .. N \subseteq G
  <2> HIDE DEF G
  <2>1. QED
    BY <1>1, <1>4, <1>5, EveryPlace
<1>7. \A i \in 2 .. N : i \in 1 .. N /\ i # 1
  BY <1>1
<1>8. \A i \in 2 .. N : p[i] \in Walks(a, Len(p[i])) /\ p[i] \in Paths(L)
  BY <1>6, <1>7
<1>9. QED
  BY <1>8 DEF N

LEMMA TrailsCross ==
  ASSUME NEW L, Closed(mem, L), NEW a \in L, NEW q, Tree(mem, L, a, q), NEW p, Trails(L, q, p),
         NEW walk, WalksBack(walk, q)
  PROVE  \A i \in 2 .. Len(q) : walk[i] = LastCrossing(p[i])
<1> DEFINE N == Len(q)
           G == {i \in 1 .. N : i # 1 => walk[i] = LastCrossing(p[i])}
<1>1. /\ N \in Nat /\ N >= 1
      /\ \A i \in 2 .. N : q[i].ancest \in 1 .. i - 1 /\ q[i].ancest \in 1 .. N
  BY TreeIs
<1>2. /\ p[1] = <<>>
      /\ \A i \in 2 .. N : p[i] = Append(p[q[i].ancest], By(q[i])) /\ Last(p[i]) = By(q[i])
  BY TrailIs
<1>3. \A i \in 2 .. N : p[i] \in Paths(L)
  BY TrailsWalk
<1>4. \A i \in 2 .. N : walk[i] = IF q[i].ancest = 1 THEN Null
                                  ELSE IF q[i].road_id # q[q[i].ancest].road_id THEN q[q[i].ancest].v
                                  ELSE walk[q[i].ancest]
  BY DEF WalksBack
<1> HIDE DEF N
<1>5. 1 \in G
  BY <1>1
<1>6. ASSUME NEW i \in 2 .. N, 1 .. i - 1 \subseteq G PROVE i \in G
  <2> DEFINE c == q[i].ancest
             e == By(q[i])
  <2>1. c \in 1 .. i - 1 /\ c \in 1 .. N /\ c \in G /\ i \in 1 .. N
    BY <1>1, <1>6
  <2>2. p[i] = Append(p[c], e) /\ Last(p[i]) = e /\ p[i] \in Paths(L)
    BY <1>2, <1>3
  <2>3. e \in Way(L) /\ e.road_id = q[i].road_id
    BY <2>2, LastRoad DEF By
  <2>4. walk[i] = IF c = 1 THEN Null ELSE IF q[i].road_id # q[c].road_id THEN q[c].v ELSE walk[c]
    BY <1>4
  <2> HIDE DEF c, e
  <2>5. CASE c = 1
    <3>1. p[i] = <<e>>
      <4>1. p[i] = Append(<<>>, e)
        BY <1>2, <2>2, <2>5
      <4>2. QED
        BY <4>1, FirstRoad
    <3>2. QED
      BY <2>1, <2>4, <2>5, <3>1, LastCrossingOne
  <2>6. CASE c # 1
    <3>1. c \in 2 .. N /\ walk[c] = LastCrossing(p[c])
      BY <1>1, <2>1, <2>6
    <3>2. p[c] \in Paths(L) /\ Last(p[c]).vertex = q[c].v /\ Last(p[c]).road_id = q[c].road_id
      <4>1. p[c] \in Paths(L) /\ Last(p[c]) = By(q[c])
        BY <1>2, <1>3, <3>1
      <4>2. By(q[c]).vertex = q[c].v /\ By(q[c]).road_id = q[c].road_id
        BY DEF By
      <4>3. QED
        BY <4>1, <4>2
    <3>3. LastCrossing(p[i]) = IF e.road_id # Last(p[c]).road_id THEN Last(p[c]).vertex ELSE LastCrossing(p[c])
      BY <2>2, <2>3, <3>2, LastCrossingMore
    <3>4. QED
      BY <2>1, <2>3, <2>4, <2>6, <3>1, <3>2, <3>3
  <2>7. QED
    BY <2>5, <2>6
<1>7. 1 .. N \subseteq G
  <2> HIDE DEF G
  <2>1. QED
    BY <1>1, <1>5, <1>6, EveryPlace
<1>8. \A i \in 2 .. N : i \in 1 .. N /\ i # 1
  BY <1>1
<1>9. \A i \in 2 .. N : walk[i] = LastCrossing(p[i])
  BY <1>7, <1>8
<1>10. QED
  BY <1>9 DEF N

\* Where a walk of n roads ends was found in at most n roads, if all records nearer than n
\* are expanded.
LEMMA WalksFound ==
  ASSUME NEW L, Closed(mem, L), NEW a \in L, NEW q, Tree(mem, L, a, q), NEW p, Trails(L, q, p),
         NEW n \in Nat \ {0}, \A i \in 1 .. Len(q) : Len(p[i]) < n => Expanded(mem, q, i)
  PROVE  \A s \in Walks(a, n) : \E j \in 1 .. Len(q) : q[j].v = Last(s).vertex /\ Len(p[j]) <= n
<1> DEFINE N == Len(q)
           Near(s, k) == s \in Paths(L) /\ \E j \in 1 .. N : q[j].v = Last(s).vertex /\ Len(p[j]) <= k
           G == {k \in 1 .. n : \A s \in Walks(a, k) : Near(s, k)}
<1>1. /\ N \in Nat /\ N >= 1 /\ q[1].v = a
      /\ \A i \in 2 .. N : q[i].ancest \in 1 .. N
  BY TreeIs DEF Tree
<1>2. /\ \A i \in 1 .. N : Len(p[i]) \in Nat
      /\ Len(p[1]) = 0
      /\ \A i \in 2 .. N : Len(p[i]) = Len(p[q[i].ancest]) + 1
  BY TrailIs
<1>3. \A i, j \in 1 .. N : i <= j => Len(p[i]) <= Len(p[j])
  BY TrailsGrow
<1>4. Walks(a, 1) = OneRoad(a) /\ \A k \in Nat \ {0} : Walks(a, k + 1) = OneMore(Walks(a, k))
  BY WalksAre
<1>5. ASSUME NEW k \in Nat, k < n, NEW i \in 1 .. N, Len(p[i]) <= k, NEW e \in ToSet(mem[q[i].v].edges)
      PROVE  \E j \in 1 .. N : q[j].v = e.vertex /\ Len(p[j]) <= k + 1
  <2>1. Expanded(mem, q, i)
    BY <1>2, <1>5
  <2>2. PICK j \in 1 .. N : q[j].v = e.vertex /\ q[j].ancest <= i
    BY <2>1 DEF Expanded
  <2> HIDE DEF N
  <2>3. Len(p[j]) <= k + 1
    <3>1. CASE j = 1
      BY <1>2, <3>1
    <3>2. CASE j # 1
      <4>1. j \in 2 .. N
        BY <1>1, <3>2
      <4>2. q[j].ancest \in 1 .. N /\ Len(p[j]) = Len(p[q[j].ancest]) + 1
        BY <1>1, <1>2, <4>1
      <4>3. Len(p[q[j].ancest]) <= Len(p[i])
        BY <1>3, <2>2, <4>2
      <4>4. Len(p[q[j].ancest]) \in Nat /\ Len(p[i]) \in Nat
        BY <1>2, <4>2
      <4>5. QED
        BY <1>5, <4>2, <4>3, <4>4
    <3>3. QED
      BY <3>1, <3>2
  <2>4. QED
    BY <2>2, <2>3
<1> HIDE DEF N
<1>6. 1 \in G
  <2> SUFFICES ASSUME NEW s \in Walks(a, 1) PROVE Near(s, 1)
    OBVIOUS
  <2>1. PICK e \in ToSet(mem[a].edges) : s = <<e>>
    BY <1>4 DEF OneRoad
  <2>2. s \in Paths(L)
    BY <1>4, RoadsStay
  <2>3. Last(s) = e
    BY <2>1 DEF Last
  <2>4. 1 \in 1 .. N /\ Len(p[1]) <= 0 /\ 0 < n /\ 0 + 1 = 1
    BY <1>1, <1>2
  <2>5. \E j \in 1 .. N : q[j].v = e.vertex /\ Len(p[j]) <= 0 + 1
    BY <1>1, <1>5, <2>4
  <2>6. QED
    BY <2>2, <2>3, <2>4, <2>5
<1>7. ASSUME NEW l \in 2 .. n, 1 .. l - 1 \subseteq G PROVE l \in G
  <2> SUFFICES ASSUME NEW s \in Walks(a, l) PROVE Near(s, l)
    OBVIOUS
  <2> DEFINE k == l - 1
  <2>1. k \in Nat \ {0} /\ k \in Nat /\ k + 1 = l /\ k < n /\ k \in G
    BY <1>7
  <2> HIDE DEF k
  <2>2. s \in OneMore(Walks(a, k))
    BY <1>4, <2>1
  <2>3. PICK t \in Walks(a, k) : s \in {Append(t, e) : e \in ToSet(mem[Last(t).vertex].edges)}
    BY <2>2 DEF OneMore
  <2>4. PICK e \in ToSet(mem[Last(t).vertex].edges) : s = Append(t, e)
    BY <2>3
  <2>5. t \in Paths(L) /\ \E j \in 1 .. N : q[j].v = Last(t).vertex /\ Len(p[j]) <= k
    BY <2>1
  <2>6. PICK i \in 1 .. N : q[i].v = Last(t).vertex /\ Len(p[i]) <= k
    BY <2>5
  <2>7. e \in Way(L)
    BY <2>5, LastRoad, RoadsStay
  <2>8. s \in Paths(L) /\ Last(s) = e
    BY <2>4, <2>5, <2>7, LastRoad
  <2>9. \E j \in 1 .. N : q[j].v = e.vertex /\ Len(p[j]) <= k + 1
    BY <1>5, <2>1, <2>6
  <2>10. QED
    BY <2>1, <2>8, <2>9
<1>8. 1 .. n \subseteq G
  <2> HIDE DEF G
  <2>1. QED
    BY <1>6, <1>7, EveryPlace
<1>9. n \in G
  BY <1>8
<1>10. QED
  BY <1>9 DEF N

\* On a map that no message damaged the search stays among the listed vertices.
LEMMA MapClosed ==
  ASSUME IInv, ~damaged
  PROVE  /\ Closed(mem, Listed) /\ Listed \subseteq DOMAIN mem /\ IsFiniteSet(DOMAIN mem)
         /\ IsFiniteSet(Listed) /\ Cardinality(Listed) <= Len(vertices) /\ Len(vertices) \in Nat
<1>1. mem \in Memory /\ ListOK /\ Sound(mem, Listed) /\ vertices \in Seq(Handle) /\ Len(vertices) \in Nat
  BY DEF IInv, ListOK
<1>2. Listed \subseteq Handle /\ \A h \in Listed : \E k \in 1 .. Len(vertices) : vertices[k] = h
  BY <1>1, Members DEF Listed
<1>3. DOMAIN mem = Handle /\ IsFiniteSet(Handle)
  BY <1>1, GraphAssumption DEF Memory, GraphAssumption
<1>4. IsFiniteSet(Listed) /\ Cardinality(Listed) \in Nat
  BY <1>2, <1>3, FS_Subset, FS_CardinalityType
<1>5. ASSUME NEW h \in Listed PROVE mem[h].edges \in Seq(Way(Listed))
  <2>1. mem[h].edges \in Seq(Edge)
    BY <1>1, <1>2, InMemory, VertexFields DEF ListOK
  <2> DEFINE es == mem[h].edges
  <2>2. \A k \in DOMAIN es : es[k].vertex \in Listed
    BY <1>1 DEF Sound
  <2>3. es \in Seq(Edge)
    BY <2>1
  <2> HIDE DEF es
  <2>4. Len(es) \in Nat /\ DOMAIN es = 1 .. Len(es)
    BY <2>3
  <2>5. \A k \in 1 .. Len(es) : es[k] \in Edge
    BY <2>3
  <2>6. \A e \in Edge : e.vertex \in Listed => e \in Way(Listed)
    BY DEF Edge, Way
  <2>7. \A k \in 1 .. Len(es) : es[k] \in Way(Listed)
    BY <2>2, <2>4, <2>5, <2>6
  <2>8. es = [k \in 1 .. Len(es) |-> es[k]]
    BY <2>3
  <2>9. QED
    BY <2>4, <2>7, <2>8 DEF es
<1>6. Cardinality(Listed) <= Len(vertices)
  <2> DEFINE n == Len(vertices)
             place == [h \in Listed |-> CHOOSE k \in 1 .. n : vertices[k] = h]
  <2>1. \A h \in Listed : place[h] \in 1 .. n /\ vertices[place[h]] = h
    BY <1>2
  <2>2. place \in [Listed -> 1 .. n] /\ \A g, h \in Listed : place[g] = place[h] => g = h
    BY <2>1
  <2> HIDE DEF place, n
  <2>3. n \in Nat
    BY <1>1 DEF n
  <2>4. IsFiniteSet(1 .. n) /\ Cardinality(1 .. n) = IF 1 > n THEN 0 ELSE n - 1 + 1
    BY <2>3, FS_Interval
  <2>5. Cardinality(1 .. n) = n
    BY <2>3, <2>4
  <2>6. ~(Cardinality(1 .. n) < Cardinality(Listed))
    <3> DEFINE B == 1 .. n
    <3>1. /\ place \in [Listed -> B] /\ \A g, h \in Listed : place[g] = place[h] => g = h
          /\ IsFiniteSet(B) /\ IsFiniteSet(Listed)
      BY <1>4, <2>2, <2>4
    <3> HIDE DEF B
    <3>2. ~(Cardinality(B) < Cardinality(Listed))
      BY <3>1, FS_PigeonHole
    <3>3. QED
      BY <3>2 DEF B
  <2>7. QED
    BY <1>4, <2>3, <2>5, <2>6 DEF n
<1>7. QED
  BY <1>1, <1>2, <1>3, <1>4, <1>5, <1>6 DEF Closed

\* The walks of ShortestPathsTo that arrive at the target.
Arriving(a, b, n) == {s \in Walks(a, n) : Last(s).vertex # a /\ mem[Last(s).vertex].idStr = mem[b].idStr}

\* No walk arrives whose end was found before the last record.
LEMMA NoneArrives ==
  ASSUME NEW L, NEW a, NEW b, NEW q, Tree(mem, L, a, q), Unmet(mem, b, q), NEW s,
         NEW j \in 1 .. Len(q), q[j].v = Last(s).vertex, j # Len(q) \/ ~Reached(mem, q, b)
  PROVE  Last(s).vertex = a \/ mem[Last(s).vertex].idStr # mem[b].idStr
<1>1. Len(q) \in Nat /\ q[1].v = a
  BY TreeIs DEF Tree
<1>2. CASE j = 1
  BY <1>1, <1>2
<1>3. CASE j # 1 /\ j # Len(q)
  <2>1. j \in 2 .. Len(q) - 1
    BY <1>1, <1>3
  <2>2. QED
    BY <2>1 DEF Unmet
<1>4. CASE j # 1 /\ j = Len(q)
  <2>1. Len(q) > 1
    BY <1>1, <1>4
  <2>2. QED
    BY <1>4, <2>1, ReachedIs
<1>5. QED
  BY <1>2, <1>3, <1>4

\* When the search ends without the target, no walk arrives.
LEMMA Unreached ==
  ASSUME IInv, ~damaged, NEW a \in Listed, NEW b \in Listed, ~Reached(mem, Search(mem, a, b), b)
  PROVE  ShortestPathsTo(a, b) = {}
<1> DEFINE q == Search(mem, a, b)
<1>1. Closed(mem, Listed)
  BY MapClosed
<1>2. /\ Tree(mem, Listed, a, q) /\ Unmet(mem, b, q)
      /\ \A i \in 1 .. Len(q) : Expanded(mem, q, i)
  BY MapClosed, SearchIs
<1> HIDE DEF q
<1>3. PICK p : Trails(Listed, q, p)
  BY <1>1, <1>2, TrailsExist
<1>4. ASSUME NEW n \in Nat \ {0} PROVE Arriving(a, b, n) = {}
  <2>1. \A s \in Walks(a, n) : \E j \in 1 .. Len(q) : q[j].v = Last(s).vertex /\ Len(p[j]) <= n
    BY <1>1, <1>2, <1>3, WalksFound
  <2>2. ASSUME NEW s \in Walks(a, n) PROVE Last(s).vertex = a \/ mem[Last(s).vertex].idStr # mem[b].idStr
    <3>1. PICK j \in 1 .. Len(q) : q[j].v = Last(s).vertex
      BY <2>1
    <3>2. QED
      BY <1>2, <3>1, NoneArrives DEF q
  <2>3. QED
    BY <2>2 DEF Arriving
<1>5. \A n \in 1 .. Len(vertices) - 1 : n \in Nat \ {0}
  BY MapClosed
<1>6. {n \in 1 .. Len(vertices) - 1 : Arriving(a, b, n) # {}} = {}
  BY <1>4, <1>5
<1>7. QED
  BY <1>6 DEF ShortestPathsTo, Arriving

\* When it finds the target, no shorter walk arrives, and the path to the last record is one
\* of the walks of its length that do.
LEMMA ReachedShortest ==
  ASSUME IInv, ~damaged, NEW a \in Listed, NEW b \in Listed, Reached(mem, Search(mem, a, b), b)
  PROVE  \E s \in ShortestPathsTo(a, b) : CrossVertex(mem, a, b) = LastCrossing(s)
<1> DEFINE q == Search(mem, a, b)
           N == Len(q)
<1>1. Closed(mem, Listed) /\ IsFiniteSet(Listed)
  BY MapClosed
<1>2. /\ Tree(mem, Listed, a, q) /\ Unmet(mem, b, q)
      /\ \A i \in 1 .. N : i < q[N].ancest => Expanded(mem, q, i)
  BY MapClosed, SearchIs
<1>3. CrossVertex(mem, a, b) = PrintCrossnode(q)
  BY DEF CrossVertex
<1>4. Reached(mem, q, b)
  OBVIOUS
<1> HIDE DEF q
<1>5. N > 1 /\ mem[q[N].v].idStr = mem[b].idStr
  BY <1>2, <1>4, ReachedIs
<1>6. PICK p : Trails(Listed, q, p)
  BY <1>1, <1>2, TrailsExist
<1>7. PICK walk : WalksBack(walk, q) /\ PrintCrossnode(q) = walk[N]
  BY <1>2, <1>5, PrintCrossnodeIs
<1>8. /\ N \in Nat /\ N \in 2 .. N /\ N \in 1 .. N /\ 1 \in 1 .. N /\ q[1].v = a
      /\ q[N].ancest \in 1 .. N - 1 /\ q[N].ancest \in 1 .. N
  <2>1. N \in Nat /\ q[1].v = a
    BY <1>2, TreeIs DEF Tree
  <2>2. N \in 2 .. N /\ N \in 1 .. N /\ 1 \in 1 .. N
    BY <1>5, <2>1
  <2>3. QED
    BY <1>2, <2>1, <2>2, TreeIs
<1> HIDE DEF N
<1> DEFINE D == Len(p[N])
<1>9. p[N] \in Walks(a, D) /\ p[N] \in Paths(Listed)
  BY <1>1, <1>2, <1>6, <1>8, TrailsWalk DEF N
<1>10. walk[N] = LastCrossing(p[N])
  BY <1>1, <1>2, <1>6, <1>7, <1>8, TrailsCross DEF N
<1>11. /\ Last(p[N]) = By(q[N]) /\ D >= 1 /\ D \in Nat
       /\ D = Len(p[q[N].ancest]) + 1
       /\ \A i \in 1 .. N : Len(p[i]) \in Nat
  BY <1>2, <1>6, <1>8, TrailIs DEF N
<1>12. D <= N - 1 /\ \A i, j \in 1 .. N : i <= j => Len(p[i]) <= Len(p[j])
  BY <1>2, <1>6, <1>8, TrailsGrow DEF N
<1>13. N <= Len(vertices) /\ Len(vertices) \in Nat
  <2>1. N <= Cardinality(Listed) /\ Cardinality(Listed) <= Len(vertices) /\ Cardinality(Listed) \in Nat
    BY <1>1, <1>2, TreeBounded, MapClosed, FS_CardinalityType DEF N
  <2>2. QED
    BY <1>8, <2>1, MapClosed
<1>14. p[N] \in Arriving(a, b, D)
  <2>1. Last(p[N]).vertex = q[N].v
    BY <1>11 DEF By
  <2>2. q[N].v # a
    BY <1>2, <1>5, <1>8 DEF Tree, N
  <2>3. QED
    BY <1>5, <1>9, <2>1, <2>2 DEF Arriving
<1>15. ASSUME NEW n \in Nat \ {0}, n < D PROVE Arriving(a, b, n) = {}
  <2>1. ASSUME NEW i \in 1 .. N, Len(p[i]) < n PROVE Expanded(mem, q, i)
    <3>1. Len(p[i]) < Len(p[q[N].ancest])
      BY <1>8, <1>11, <1>15, <2>1
    <3>2. ~(q[N].ancest <= i)
      BY <1>8, <1>11, <1>12, <3>1
    <3>3. i < q[N].ancest
      BY <1>8, <3>2
    <3>4. QED
      BY <1>2, <3>3
  <2>2. \A s \in Walks(a, n) : \E j \in 1 .. N : q[j].v = Last(s).vertex /\ Len(p[j]) <= n
    BY <1>1, <1>2, <1>6, <2>1, WalksFound DEF N
  <2>3. ASSUME NEW s \in Walks(a, n) PROVE Last(s).vertex = a \/ mem[Last(s).vertex].idStr # mem[b].idStr
    <3>1. PICK j \in 1 .. N : q[j].v = Last(s).vertex /\ Len(p[j]) <= n
      BY <2>2
    <3>2. j # N
      BY <1>11, <1>15, <3>1
    <3>3. QED
      BY <1>2, <3>1, <3>2, NoneArrives DEF N
  <2>4. QED
    BY <2>3 DEF Arriving
<1> DEFINE lengths == {n \in 1 .. Len(vertices) - 1 : Arriving(a, b, n) # {}}
<1> HIDE DEF D
<1>16. D \in lengths
  BY <1>8, <1>11, <1>12, <1>13, <1>14
<1>17. \A n \in lengths : D <= n /\ n \in Nat
  <2> SUFFICES ASSUME NEW n \in lengths PROVE D <= n /\ n \in Nat
    OBVIOUS
  <2>1. n \in Nat \ {0} /\ Arriving(a, b, n) # {}
    BY <1>13
  <2>2. ~(n < D)
    BY <1>15, <2>1
  <2>3. QED
    BY <1>11, <2>1, <2>2
<1>18. ShortestPathsTo(a, b) = IF lengths = {} THEN {} ELSE Arriving(a, b, Min(lengths))
  BY DEF ShortestPathsTo, Arriving
<1> HIDE DEF lengths
<1>19. Min(lengths) = D
  <2>1. \E x \in lengths : \A y \in lengths : x <= y
    BY <1>16, <1>17
  <2>2. Min(lengths) \in lengths /\ \A y \in lengths : Min(lengths) <= y
    BY <2>1 DEF Min
  <2> DEFINE k == Min(lengths)
  <2>3. k \in Nat /\ D <= k /\ k <= D
    BY <1>16, <1>17, <2>2
  <2> HIDE DEF k, D
  <2>4. k = D
    BY <1>11, <2>3
  <2>5. QED
    BY <2>4 DEF k
<1>20. p[N] \in ShortestPathsTo(a, b)
  BY <1>14, <1>16, <1>18, <1>19
<1>21. QED
  BY <1>3, <1>7, <1>10, <1>20

\* On a map that no message damaged, whatever messages built it, cross_vertex finds the last
\* crossing of a shortest path to the target if there is a path, and else none.
THEOREM CrossesRight == Spec => []CrossVertexCorrect
<1>1. IInv => CrossVertexCorrect
  <2> SUFFICES ASSUME IInv, ~damaged, NEW a \in Listed, NEW b \in Listed
               PROVE  IF ShortestPathsTo(a, b) = {} THEN CrossVertex(mem, a, b) = Null
                      ELSE \E s \in ShortestPathsTo(a, b) : CrossVertex(mem, a, b) = LastCrossing(s)
    BY DEF CrossVertexCorrect
  <2>1. CASE Reached(mem, Search(mem, a, b), b)
    BY <2>1, ReachedShortest
  <2>2. CASE ~Reached(mem, Search(mem, a, b), b)
    <3>1. CrossVertex(mem, a, b) = Null
      BY <2>2 DEF CrossVertex
    <3>2. QED
      BY <2>2, <3>1, Unreached
  <2>3. QED
    BY <2>1, <2>2
<1>2. QED
  BY <1>1, Invariant, PTL
==============================================================================
