----------------------------- MODULE LeafChain -----------------------------
(***************************************************************************)
(* What the B+ tree of one vertex of GCCGraph promises, without the tree:  *)
(* a chain of leaves, of which the one Route names takes the next entry,   *)
(* the count of entries, and `level', which grows with every leaf split.   *)
(* The leaves are what forEachNeighbor and traverseEntireGraph walk.       *)
(***************************************************************************)
EXTENDS GCCNodes

CONSTANTS PutCalls   \* the pairs <<neighbour id, weight>> ever inserted

VARIABLES leaves, size, level

\* promoteToBPlusTree starts from one empty leaf.
Init ==
  /\ leaves = << << >> >>
  /\ size = 0
  /\ level = 1

\* The edge is new: bplusInsert.
Insert(k, w) ==
  LET r == Route(leaves, k)
  IN  /\ k \notin AllKeys(leaves)
      /\ leaves' = InsertIntoLeaf(leaves, r, [dst |-> k, weight |-> w])
      /\ size' = size + 1
      /\ level' = IF Splits(leaves[r]) THEN level + 1 ELSE level

\* The edge exists: tryUpdateExisting overwrites its weight.
Update(k, w) ==
  /\ k \in AllKeys(leaves)
  /\ leaves' = [n \in DOMAIN leaves |->
                  [i \in DOMAIN leaves[n] |->
                     IF leaves[n][i].dst = k THEN [dst |-> k, weight |-> w]
                     ELSE leaves[n][i]]]
  /\ UNCHANGED <<size, level>>

Next == \E c \in PutCalls : Insert(c[1], c[2]) \/ Update(c[1], c[2])

Spec == Init /\ [][Next]_<<leaves, size, level>>

\* Leaves hold fewer keys than BPlusTreeOrder, none is empty once there are
\* two, and the keys ascend along the whole chain.
LeavesOrdered ==
  /\ AscendingChain(leaves)
  /\ \A n \in DOMAIN leaves :
        /\ Len(leaves[n]) < BPlusTreeOrder
        /\ Len(leaves) > 1 => leaves[n] # << >>

\* A key that is stored anywhere is stored in the one leaf that Route names:
\* a lookup that inspects this leaf only misses nothing.
RouteFindsKeys ==
  \A k \in AllKeys(leaves) : k \in Keys(leaves[Route(leaves, k)])

\* Every split is counted, every insertion adds one key.
CountsMatch ==
  /\ level = Len(leaves)
  /\ size = Cardinality(AllKeys(leaves))
=============================================================================
