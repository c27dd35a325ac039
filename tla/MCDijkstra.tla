----------------------------- MODULE MCDijkstra -----------------------------
(* Graphs on three vertices, searched from vertex 1, and from vertex 0,      *)
(* which is in none.  The first two have up to two edges of any weight to    *)
(* different vertices or, with two weights, to the same; the third has one   *)
(* at most.  Sums above MaxWeight occur, negative edges too.                 *)
EXTENDS Dijkstra

CONSTANT Weights

MCVertex == 0 .. 3
MCStarts == {0, 1}

Edges == [dst : 1 .. 3, weight : Weights]
NegativeEdges == [dst : 1 .. 3, weight : {-1}]
One == {<< >>} \cup {<<e>> : e \in Edges \cup NegativeEdges}
Two == {<<e[1], e[2]>> : e \in {p \in Edges \X Edges : p[1].dst < p[2].dst}}
Parallel == {<<e[1], e[2]>> : e \in {p \in Edges \X Edges :
                                       /\ p[1].dst = p[2].dst
                                       /\ p[1].weight > p[2].weight}}
MCGraphs == {g \in [1 .. 3 -> One \cup Two \cup Parallel] : Len(g[3]) <= 1}
=============================================================================
