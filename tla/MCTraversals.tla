--------------------------- MODULE MCTraversals ----------------------------
(* Graphs on the vertices 1 .. 4 with at most two neighbours of each, loops  *)
(* included, or a longer list with a parallel edge; searches from vertex 1,  *)
(* and from vertex 0, which is in no graph.  The order of a list matters to  *)
(* dfs only: bfs gets lists in ascending order.                              *)
EXTENDS Traversals

MCVertex == 0 .. 4
MCStarts == {0, 1}

To(v) == [dst |-> v, weight |-> 1]
ListsOf(pairs) == {<< >>} \cup {<<To(v)>> : v \in 1 .. 4}
                    \cup {<<To(e[1]), To(e[2])>> : e \in pairs}
                    \cup {<<To(2), To(3), To(4), To(2)>>}
AscendingLists == [1 .. 4 -> ListsOf({p \in (1 .. 4) \X (1 .. 4) : p[1] < p[2]})]
ListsInAnyOrder == [1 .. 4 -> ListsOf({p \in (1 .. 4) \X (1 .. 4) : p[1] # p[2]})]
=============================================================================
