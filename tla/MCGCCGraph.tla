----------------------------- MODULE MCGCCGraph -----------------------------
(* A hub whose neighbours -- itself among them -- take it through two chunks *)
(* of two entries, promotion at the fifth neighbour and leaf splits after    *)
(* it.  The hub, and a target registered before its edge is added, make ids  *)
(* arrive out of order at chunks and leaves.  Another vertex has an edge of  *)
(* its own to the hub: a second vertex on the chain of a directed graph, the *)
(* hub's sixth neighbour in an undirected one.  The loop at the hub is added *)
(* with two weights, in place of chunks and of leaves.                       *)
EXTENDS GCCGraph, TLC

CONSTANTS hub, other, t1, t2, t3, t4

Targets == {t1, t2, t3, t4}
MCVertex == {hub, other} \cup Targets
MCWeight == {1, 2}
MCEdgeCalls == {<<hub, t, 1>> : t \in Targets}
                 \cup {<<hub, hub, 1>>, <<hub, hub, 2>>, <<other, hub, 1>>}
MCVertexCalls == {t1}
TargetSymmetry == Permutations(Targets \ {t1})
=============================================================================
