--------------------------- MODULE GraphGenerator ---------------------------
(***************************************************************************)
(* GraphGenerator: the five functions that make the edge lists the tests   *)
(* and benchmarks build graphs from.  An edge is <<u, v>>, its weight left  *)
(* out.  What the random engine returns is a choice; a draw that the code   *)
(* rejects changes nothing, so that a step is a draw it keeps.              *)
(***************************************************************************)
EXTENDS Integers, SequencesExt

CONSTANT Calls  \* the calls made: the function and its arguments

Drawn == {"uniform", "strict", "rmat"}
Generators == Drawn \cup {"grid", "chain"}

\* num_vertices - 1 and log2(num_vertices) have no meaning for no vertices;
\* of a grid, num_vertices is what its caller takes from width and height.
ASSUME CallsAssumption ==
  /\ Calls \subseteq [generator : Generators, num_vertices : Nat \ {0},
                      num_edges : Nat, width : Nat, height : Nat]
  /\ \A c \in Calls : c.generator = "grid" => c.num_vertices = c.width * c.height

VARIABLES
  call,     \* the call that runs
  pc,       \* "draw", "redraw", "link" or "done"
  edges,    \* the edges so far
  u, v,     \* the edge being drawn
  bit,      \* rmat: how many bits of it are drawn
  x, y,     \* grid: the cell
  indices,  \* chain: the shuffled vertices
  i         \* chain: the index, counted from 1

vars == <<call, pc, edges, u, v, bit, x, y, indices, i>>

n == call.num_vertices
Vertices == 0 .. n - 1

Init ==
  /\ call \in Calls
  /\ pc = "draw"
  /\ edges = << >>
  /\ u = 0 /\ v = 0 /\ bit = 0
  /\ x = 0 /\ y = 0
  /\ indices = << >> /\ i = 1

\* The loop of a function that was asked for a number of edges.
Running(generator) == call.generator = generator /\ Len(edges) < call.num_edges

ReturnDrawn ==
  /\ call.generator \in Drawn
  /\ Len(edges) >= call.num_edges
  /\ pc # "done"
  /\ pc' = "done"
  /\ UNCHANGED <<call, edges, u, v, bit, x, y, indices, i>>

-----------------------------------------------------------------------------
(* generateErdosRenyi: v is drawn again while it is u.                     *)

\* Mutant: a single vertex is not provided for.
RedrawsAnyLoop(s, t) == s = t

Redraws(s, t) == s = t /\ n > 1

DrawUniform(s, t) ==
  /\ Running("uniform")
  /\ pc = "draw"
  /\ IF Redraws(s, t)
       THEN pc' = "redraw" /\ u' = s /\ UNCHANGED edges
       ELSE edges' = Append(edges, <<s, t>>) /\ UNCHANGED <<pc, u>>
  /\ UNCHANGED <<call, v, bit, x, y, indices, i>>

RedrawUniform(t) ==
  /\ pc = "redraw"
  /\ ~Redraws(u, t)
  /\ edges' = Append(edges, <<u, t>>)
  /\ pc' = "draw"
  /\ UNCHANGED <<call, u, v, bit, x, y, indices, i>>

(* generateErdosRenyiStrictGaussian: loops and pairs it has seen are drawn *)
(* anew; `seen' holds the edges.                                           *)
DrawStrict(s, t) ==
  /\ Running("strict")
  /\ s # t
  /\ <<s, t>> \notin ToSet(edges)
  /\ edges' = Append(edges, <<s, t>>)
  /\ UNCHANGED <<call, pc, u, v, bit, x, y, indices, i>>

-----------------------------------------------------------------------------
(* generateRMAT: u and v get a bit each from the quadrant drawn, the most   *)
(* significant first.                                                       *)

Scale == CHOOSE s \in 0 .. n : 2 ^ s >= n /\ \A t \in 0 .. s - 1 : 2 ^ t < n

DrawBit(du, dv) ==
  /\ Running("rmat")
  /\ bit < Scale
  /\ u' = 2 * u + du
  /\ v' = 2 * v + dv
  /\ bit' = bit + 1
  /\ UNCHANGED <<call, pc, edges, x, y, indices, i>>

\* u & mask is u, which has no more than scale bits.
Wrapped(s) == IF s >= n THEN s % n ELSE s

\* Mutant: the vertex after the last one is not the first.
PastLast(s, t) == <<s, IF s = t /\ n > 1 THEN t + 1 ELSE t>>

NoLoop(s, t) == <<s, IF s = t /\ n > 1 THEN (t + 1) % n ELSE t>>

AddRMAT ==
  /\ Running("rmat")
  /\ bit = Scale
  /\ edges' = Append(edges, NoLoop(Wrapped(u), Wrapped(v)))
  /\ u' = 0 /\ v' = 0 /\ bit' = 0
  /\ UNCHANGED <<call, pc, x, y, indices, i>>

-----------------------------------------------------------------------------
(* generateGrid2D: cell by cell, to the right and down, both directions.   *)

Both(s, t) == << <<s, t>>, <<t, s>> >>

\* Mutant: the last cell of a row is joined to the first of the next.
ToRightOfAll == Both(y * call.width + x, y * call.width + (x + 1))

ToRight ==
  IF x < call.width - 1 THEN Both(y * call.width + x, y * call.width + (x + 1))
  ELSE << >>

Downward ==
  IF y < call.height - 1 THEN Both(y * call.width + x, (y + 1) * call.width + x)
  ELSE << >>

JoinCell ==
  /\ call.generator = "grid"
  /\ x < call.width /\ y < call.height
  /\ edges' = edges \o ToRight \o Downward
  /\ IF x + 1 < call.width THEN x' = x + 1 /\ y' = y ELSE x' = 0 /\ y' = y + 1
  /\ UNCHANGED <<call, pc, u, v, bit, indices, i>>

ReturnGrid ==
  /\ call.generator = "grid"
  /\ ~(x < call.width /\ y < call.height)
  /\ pc # "done"
  /\ pc' = "done"
  /\ UNCHANGED <<call, edges, u, v, bit, x, y, indices, i>>

-----------------------------------------------------------------------------
(* generatePointerChasingChain: every vertex to the next in a random order.*)

Shuffle ==
  /\ call.generator = "chain"
  /\ pc = "draw"
  /\ indices' \in {p \in [1 .. n -> Vertices] : IsInjective(p)}
  /\ pc' = "link"
  /\ UNCHANGED <<call, edges, u, v, bit, x, y, i>>

Link ==
  /\ pc = "link"
  /\ i < n
  /\ edges' = Append(edges, <<indices[i], indices[i + 1]>>)
  /\ i' = i + 1
  /\ UNCHANGED <<call, pc, u, v, bit, x, y, indices>>

\* Mutant: the cycle is closed at the last vertex linked to.
ClosedAtLast == <<indices[n], indices[IF n = 1 THEN 1 ELSE n - 1]>>

Closing == <<indices[n], indices[1]>>

Close ==
  /\ pc = "link"
  /\ i = n
  /\ edges' = Append(edges, Closing)
  /\ pc' = "done"
  /\ UNCHANGED <<call, u, v, bit, x, y, indices, i>>

-----------------------------------------------------------------------------
Next ==
  \/ ReturnDrawn
  \/ \E s, t \in Vertices : DrawUniform(s, t)
  \/ \E t \in Vertices : RedrawUniform(t)
  \/ \E s, t \in Vertices : DrawStrict(s, t)
  \/ \E du, dv \in {0, 1} : DrawBit(du, dv)
  \/ AddRMAT
  \/ JoinCell
  \/ ReturnGrid
  \/ Shuffle
  \/ Link
  \/ Close

Spec == Init /\ [][Next]_vars

\* The functions run on, and the random engine, whose draws are spread over
\* all values, does not return what is rejected for ever.
FairSpec == Spec /\ WF_vars(Next)

-----------------------------------------------------------------------------
(* Properties.                                                             *)

\* Every edge joins vertices of the graph asked for; a loop comes only out of a
\* graph of one vertex, and never of the strict generator or the grid; the
\* strict generator repeats no edge; and no generator exceeds the number of
\* edges it was asked for.
EdgesAreLegal ==
  /\ \A k \in DOMAIN edges :
       /\ edges[k] \in Vertices \X Vertices
       /\ edges[k][1] = edges[k][2] => n = 1 /\ call.generator \notin {"strict", "grid"}
  /\ call.generator = "strict" => \A j, k \in DOMAIN edges : edges[j] = edges[k] => j = k
  /\ call.generator \in Drawn => Len(edges) <= call.num_edges

\* The chain is one cycle through all vertices, never several shorter ones:
\* one edge leaves every vertex, and no part of the vertices is closed.
ChainIsOneCycle ==
  pc = "done" /\ call.generator = "chain" =>
    /\ \A s \in Vertices : Cardinality({k \in DOMAIN edges : edges[k][1] = s}) = 1
    /\ \A S \in (SUBSET Vertices) \ {{}} :
         (\A k \in DOMAIN edges : edges[k][1] \in S => edges[k][2] \in S) => S = Vertices

\* The grid joins exactly the cells at distance one, in both directions, once.
GridIsMesh ==
  LET distance(a, b) == IF a > b THEN a - b ELSE b - a
      apart(s, t) == distance(s % call.width, t % call.width)
                       + distance(s \div call.width, t \div call.width)
  IN  pc = "done" /\ call.generator = "grid" =>
        /\ ToSet(edges) = {e \in Vertices \X Vertices : apart(e[1], e[2]) = 1}
        /\ IsInjective(edges)

\* Every generator returns, but that the strict one does if and only if there
\* are as many pairs of vertices as it was asked for.
TooMany == call.generator = "strict" /\ call.num_edges > n * (n - 1)
Returns == /\ <>(pc = "done" \/ TooMany)
           /\ [](TooMany => pc # "done")
=============================================================================
