---------------------------- MODULE CBListGraph ----------------------------
(***************************************************************************)
(* CBListGraph: for every vertex a chain of chunks of fixed capacity.  The *)
(* chunks are allocated from one arena that never moves or frees them; a   *)
(* chunk is an index into it, 0 is nullptr.  Ids count from 1.             *)
(***************************************************************************)
EXTENDS Naturals, SequencesExt, FiniteSets

CONSTANTS Vertex,       \* what VertexType ranges over
          EdgeCalls,    \* the calls <<u, v, weight>> made to addEdge
          VertexCalls,  \* the vertices passed to addVertex
          Sources,      \* the RawGraphs a graph may be constructed from
          Capacity,     \* ChunkSize, the entries of a chunk
          MaxEdges      \* bound on the calls of addEdge

ASSUME CBListCallsAssumption == /\ EdgeCalls \subseteq Vertex \X Vertex \X Nat
                                /\ VertexCalls \subseteq Vertex
ASSUME CapacityAssumption == Capacity \in Nat /\ Capacity >= 1

VARIABLES
  isDirected,    \* fixed by the constructor
  num_edges,     \* counts the calls of addEdge
  heads,         \* id -> first and last chunk
  vertex_to_id,  \* vertex -> id
  id_to_vertex,  \* id -> vertex
  arena          \* the chunks allocated so far

vars == <<isDirected, num_edges, heads, vertex_to_id, id_to_vertex, arena>>

None == 0

\* addVertex and insertDirectedEdge act on these fields together.
Storage == [heads |-> heads, vertex_to_id |-> vertex_to_id,
            id_to_vertex |-> id_to_vertex, arena |-> arena]

Adopt(s) ==
  /\ heads' = s.heads
  /\ vertex_to_id' = s.vertex_to_id
  /\ id_to_vertex' = s.id_to_vertex
  /\ arena' = s.arena

WithVertex(s, x) ==
  IF x \in DOMAIN s.vertex_to_id THEN s
  ELSE LET new_id == Len(s.id_to_vertex) + 1
       IN  [s EXCEPT !.vertex_to_id = [y \in DOMAIN @ \cup {x} |->
                                         IF y = x THEN new_id ELSE @[y]],
                     !.id_to_vertex = Append(@, x),
                     !.heads = Append(@, [first |-> None, last |-> None])]

\* Mutants: a chunk is left one entry early; the new chunk becomes the last
\* one without being linked.
FullEarly(s, last) == last = None \/ Len(s.arena[last].entries) + 1 >= Capacity
WithUnlinkedChunk(s, u_id) ==
  LET chunk == Len(s.arena) + 1
      first == s.heads[u_id].first
  IN  [s EXCEPT !.arena = Append(@, [entries |-> << >>, next |-> None]),
                !.heads[u_id] = [first |-> IF first = None THEN chunk ELSE first,
                                 last |-> chunk]]

NeedsChunk(s, last) == last = None \/ Len(s.arena[last].entries) >= Capacity

\* A new chunk at the end of the chain of u_id.
WithChunk(s, u_id) ==
  LET chunk == Len(s.arena) + 1
      head == s.heads[u_id]
      grown == Append(s.arena, [entries |-> << >>, next |-> None])
  IN  [s EXCEPT !.arena = IF head.first = None THEN grown
                          ELSE [grown EXCEPT ![head.last].next = chunk],
                !.heads[u_id] = [first |-> IF head.first = None THEN chunk
                                           ELSE head.first,
                                 last |-> chunk]]

InsertDirectedEdge(s, u_id, v_id, w) ==
  LET ready == IF NeedsChunk(s, s.heads[u_id].last) THEN WithChunk(s, u_id) ELSE s
  IN  [ready EXCEPT !.arena[ready.heads[u_id].last].entries =
                       Append(@, [dst |-> v_id, weight |-> w])]

\* Mutant: a loop of an undirected graph is entered as two directions.
WithLoopTwice(directed, s, u, v, w) ==
  LET known == WithVertex(WithVertex(s, u), v)
      u_id == known.vertex_to_id[u]
      v_id == known.vertex_to_id[v]
      there == InsertDirectedEdge(known, u_id, v_id, w)
  IN  IF directed THEN there ELSE InsertDirectedEdge(there, v_id, u_id, w)

WithEdge(directed, s, u, v, w) ==
  LET known == WithVertex(WithVertex(s, u), v)
      u_id == known.vertex_to_id[u]
      v_id == known.vertex_to_id[v]
      there == InsertDirectedEdge(known, u_id, v_id, w)
  IN  IF directed \/ u_id = v_id THEN there
      ELSE InsertDirectedEdge(there, v_id, u_id, w)

EmptyStorage == [heads |-> << >>, vertex_to_id |-> << >>,
                 id_to_vertex |-> << >>, arena |-> << >>]

\* The vertices in the order of their ids, then every entry as a directed edge.
FromRaw(raw) ==
  LET add(s, e) == WithEdge(TRUE, s, raw.reverseIdMap[e.src],
                            raw.reverseIdMap[e.dst], e.weight)
  IN  FoldLeft(add, FoldLeft(WithVertex, EmptyStorage, raw.reverseIdMap), raw.edgeList)

Initially(s) ==
  /\ heads = s.heads
  /\ vertex_to_id = s.vertex_to_id
  /\ id_to_vertex = s.id_to_vertex
  /\ arena = s.arena

InitEmpty ==
  /\ isDirected \in BOOLEAN
  /\ num_edges = 0
  /\ Initially(EmptyStorage)

InitFromRaw(raw) ==
  /\ isDirected = TRUE
  /\ num_edges = Len(raw.edgeList)
  /\ Initially(FromRaw(raw))

Init == InitEmpty \/ \E raw \in Sources : InitFromRaw(raw)

AddVertex(x) ==
  /\ Adopt(WithVertex(Storage, x))
  /\ UNCHANGED <<isDirected, num_edges>>

AddEdge(u, v, w) ==
  /\ num_edges < MaxEdges
  /\ Adopt(WithEdge(isDirected, Storage, u, v, w))
  /\ num_edges' = num_edges + 1
  /\ UNCHANGED isDirected

Next ==
  \/ \E x \in VertexCalls : AddVertex(x)
  \/ \E c \in EdgeCalls : AddEdge(c[1], c[2], c[3])

Spec == Init /\ [][Next]_vars

-----------------------------------------------------------------------------
(* Queries.                                                                *)

\* The chunks of a vertex, from first on.
ChunksOf(id) ==
  LET chain[steps \in 0 .. Len(arena), c \in 0 .. Len(arena)] ==
        IF steps = 0 \/ c = None THEN << >>
        ELSE <<c>> \o chain[steps - 1, arena[c].next]
  IN  chain[Len(arena), heads[id].first]

\* What forEachNeighbor reports.
EdgesOf(x) ==
  LET chunks == ChunksOf(vertex_to_id[x])
      entries == FlattenSeq([k \in DOMAIN chunks |-> arena[chunks[k]].entries])
  IN  [k \in DOMAIN entries |-> [dst |-> id_to_vertex[entries[k].dst],
                                 weight |-> entries[k].weight]]

NumEdges == num_edges

-----------------------------------------------------------------------------
(* Properties.                                                             *)

\* Every chunk of the arena is on the chain of one vertex, once; on a chain
\* all chunks but the last are full, none is empty, and `last' is where it
\* ends.
ChainsAreFilled ==
  /\ \A id \in DOMAIN heads :
       LET chunks == ChunksOf(id)
       IN  /\ heads[id].last = IF chunks = << >> THEN None ELSE Last(chunks)
           /\ \A k \in DOMAIN chunks :
                /\ Len(arena[chunks[k]].entries) \in 1 .. Capacity
                /\ k < Len(chunks) => Len(arena[chunks[k]].entries) = Capacity
  /\ \A c \in DOMAIN arena :
       Cardinality(UNION {{<<id, k>> : k \in {i \in DOMAIN ChunksOf(id) :
                                                ChunksOf(id)[i] = c}} :
                            id \in DOMAIN heads}) = 1

Reference == INSTANCE NaiveGraph
               WITH adjList <- [x \in DOMAIN vertex_to_id |-> EdgesOf(x)]

\* The chains hold for every vertex the list that NaiveGraph keeps, in the
\* same order, after any calls, constructed from the same RawGraph or empty.
ImplementsNaiveGraph == Reference!Spec

\* The counter of calls agrees with the entries that NaiveGraph counts, the
\* ones that came from a RawGraph included; of the loops of an undirected graph,
\* which have one entry, the reference counts every other one only.
NumEdgesAsReference ==
  \/ NumEdges = Reference!NumEdges
  \/ /\ ~isDirected
     /\ \E x \in DOMAIN vertex_to_id : \E k \in DOMAIN EdgesOf(x) : EdgesOf(x)[k].dst = x
=============================================================================
