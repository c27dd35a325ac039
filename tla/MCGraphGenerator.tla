-------------------------- MODULE MCGraphGenerator --------------------------
(* Every function at one vertex and at a few: strict up to one edge more    *)
(* than there are pairs, rmat below and at a power of two, grids of one row  *)
(* and of several.                                                           *)
EXTENDS GraphGenerator

Asked(generator, vertices, count) ==
  [generator |-> generator, num_vertices |-> vertices, num_edges |-> count,
   width |-> 0, height |-> 0]

Grid(w, h) == [generator |-> "grid", num_vertices |-> w * h, num_edges |-> 0,
               width |-> w, height |-> h]

MCCalls ==
  {Asked("uniform", k, 3) : k \in 1 .. 3}
    \cup {Asked("strict", 1, 1), Asked("strict", 2, 2), Asked("strict", 2, 3),
          Asked("strict", 3, 6), Asked("strict", 3, 7)}
    \cup {Asked("rmat", 1, 2), Asked("rmat", 2, 2), Asked("rmat", 3, 2), Asked("rmat", 5, 1)}
    \cup {Grid(1, 1), Grid(1, 4), Grid(4, 1), Grid(2, 2), Grid(3, 4)}
    \cup {Asked("chain", k, 0) : k \in 1 .. 5}
=============================================================================
