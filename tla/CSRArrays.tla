----------------------------- MODULE CSRArrays -----------------------------
(***************************************************************************)
(* The compressed arrays of the CSR graphs and how they are built from a   *)
(* list of directed edges [src, dst, weight].  Ids count from 1; offsets   *)
(* is a function on 0 .. n, and the neighbours of vertex i are the cells   *)
(* offsets[i-1] + 1 .. offsets[i], a cell [dst, weight] standing for one   *)
(* position of columnIndices and values.                                   *)
(***************************************************************************)
EXTENDS Naturals, SequencesExt

Arrays(offsets, cells) == [offsets |-> offsets, cells |-> cells]
NoArrays == Arrays(<< >>, << >>)

Row(csr, i) == SubSeq(csr.cells, csr.offsets[i - 1] + 1, csr.offsets[i])

\* The edges counted per source, and the counts summed up.
CountOffsets(n, edges) ==
  LET offsets[i \in 0 .. n] ==
        IF i = 0 THEN 0
        ELSE offsets[i - 1] + Cardinality({k \in DOMAIN edges : edges[k].src = i})
  IN  offsets

\* One pass over the edges; the cursor of a vertex starts at its offset and
\* advances with every edge written, so that edge k goes behind the earlier
\* edges of its source.
Slot(offsets, edges, k) ==
  offsets[edges[k].src - 1] + Cardinality({j \in 1 .. k : edges[j].src = edges[k].src})

ScatterEdges(n, edges) ==
  LET offsets == CountOffsets(n, edges)
      written(idx) == edges[CHOOSE k \in DOMAIN edges : Slot(offsets, edges, k) = idx]
  IN  Arrays(offsets,
             [idx \in DOMAIN edges |->
                [dst |-> written(idx).dst, weight |-> written(idx).weight]])

\* std::sort on pairs (id, weight), then std::unique on the id.
\* Mutants: the weights are not compared, or compared the wrong way round.
CellLessById(a, b) == a.dst < b.dst
CellLessHeavyFirst(a, b) == a.dst < b.dst \/ (a.dst = b.dst /\ a.weight > b.weight)

CellLess(a, b) == a.dst < b.dst \/ (a.dst = b.dst /\ a.weight < b.weight)

\* The place of cell k: behind the cells less than it.  Of cells neither of
\* which is less, which pairs are only if they are equal, the order does not
\* matter.
SortedPlace(row, k) ==
  Cardinality({j \in DOMAIN row : \/ CellLess(row[j], row[k])
                                  \/ j <= k /\ ~CellLess(row[k], row[j])})

SortedRow(row) ==
  LET at == [k \in DOMAIN row |-> SortedPlace(row, k)]
  IN  [place \in DOMAIN row |-> row[CHOOSE k \in DOMAIN row : at[k] = place]]

\* Mutant: repetitions are kept.
AllCells(row) == row

FirstPerDst(row) ==
  LET kept[k \in 0 .. Len(row)] ==
        IF k = 0 THEN << >>
        ELSE LET before == kept[k - 1]
             IN  IF before # << >> /\ Last(before).dst = row[k].dst THEN before
                 ELSE Append(before, row[k])
  IN  kept[Len(row)]

SortedUniqueRow(row) == FirstPerDst(SortedRow(row))

\* The rows one after the other, each sorted and without repeated ids.
BuildCSR(n, edges) ==
  LET scattered == ScatterEdges(n, edges)
      built[i \in 0 .. n] ==
        IF i = 0 THEN Arrays(<<0>>, << >>)
        ELSE LET before == built[i - 1]
                 cells == before.cells \o SortedUniqueRow(Row(scattered, i))
             IN  Arrays(Append(before.offsets, Len(cells)), cells)
      rows == built[n]
  IN  Arrays([i \in 0 .. n |-> rows.offsets[i + 1]], rows.cells)

\* std::lower_bound by halving on a row: the number of cells before d.
LowerBoundInRow(row, d) ==
  LET search[count \in 0 .. Len(row)] ==
        [first \in 0 .. Len(row) - count |->
           IF count = 0 THEN first
           ELSE LET half == count \div 2
                IN  IF row[first + half + 1].dst < d
                      THEN search[count - half - 1][first + half + 1]
                      ELSE search[half][first]]
  IN  search[Len(row)][0]

\* std::binary_search on columnIndices between two offsets.
BinarySearch(row, d) ==
  LET pos == LowerBoundInRow(row, d)
  IN  pos < Len(row) /\ row[pos + 1].dst = d

-----------------------------------------------------------------------------
(* What a build promises.                                                  *)

\* The arrays fit n vertices: the offsets start at 0, never fall, and end at
\* the number of cells; each row is ascending, so without repetitions.
WellFormedArrays(n, csr) ==
  /\ DOMAIN csr.offsets = 0 .. n
  /\ csr.offsets[0] = 0
  /\ \A i \in 1 .. n : csr.offsets[i - 1] <= csr.offsets[i]
  /\ csr.offsets[n] = Len(csr.cells)
  /\ \A i \in 1 .. n : \A j, k \in DOMAIN Row(csr, i) :
        j < k => Row(csr, i)[j].dst < Row(csr, i)[k].dst

\* The edges that arrays on n vertices hold.
EdgesOf(n, csr) ==
  UNION {{[src |-> i, dst |-> c.dst, weight |-> c.weight] :
            c \in ToSet(Row(csr, i))} : i \in 1 .. n}

\* Of each pair of ids the edge with the least weight.
LeastEdges(edges) ==
  {e \in edges : \A f \in edges :
     f.src = e.src /\ f.dst = e.dst => e.weight <= f.weight}
=============================================================================
