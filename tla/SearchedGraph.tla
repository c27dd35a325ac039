--------------------------- MODULE SearchedGraph ---------------------------
(***************************************************************************)
(* A graph as the searches of BaseGraph see it, through hasVertex and      *)
(* forEachNeighbor of any storage structure: a function from the vertices  *)
(* to the list of edges [dst, weight] that forEachNeighbor reports for     *)
(* each, in its order.  The list-keeping structures report parallel edges  *)
(* one by one, so a neighbour may be in a list more than once.             *)
(***************************************************************************)
EXTENDS Integers, Sequences, FiniteSets

CONSTANTS Vertex,  \* what VertexType ranges over
          Graphs,  \* the graphs that are searched
          Starts   \* where searches start; may be no vertex of the graph

Edge == [dst : Vertex, weight : Int]

ASSUME GraphsAssumption ==
  \A g \in Graphs :
     /\ DOMAIN g \subseteq Vertex
     /\ IsFiniteSet(DOMAIN g)
     /\ \A v \in DOMAIN g : /\ g[v] \in Seq(Edge)
                            /\ \A i \in DOMAIN g[v] : g[v][i].dst \in DOMAIN g

ASSUME StartsAssumption == Starts \subseteq Vertex

Neighbours(g, v) == {g[v][i].dst : i \in DOMAIN g[v]}

\* A set of vertices that no edge leaves.
Closed(g, S) == \A v \in S : Neighbours(g, v) \subseteq S

\* The least closed set with s in it; empty when s is no vertex.
Reachable(g, s) ==
  IF s \in DOMAIN g
    THEN {v \in DOMAIN g : \A S \in SUBSET DOMAIN g :
            s \in S /\ Closed(g, S) => v \in S}
    ELSE {}

Elements(list) == {list[i] : i \in DOMAIN list}

\* No vertex is in the list twice.
OnceEach(list) == \A i, j \in DOMAIN list : list[i] = list[j] => i = j
=============================================================================
