------------------------------ MODULE GCCNodes ------------------------------
(***************************************************************************)
(* The node arrays of GCCGraph.  A SmallChunk and a leaf BPlusNode both    *)
(* hold parallel arrays of neighbour ids and weights in ascending order of *)
(* id; here such an array is a sequence of entries [dst, weight].  The     *)
(* nodes of one vertex, linked by their `next' fields, are a sequence of   *)
(* arrays: the chunks in the order they were allocated, or the leaves of   *)
(* the B+ tree from left to right.                                         *)
(*                                                                         *)
(* The inner nodes of the tree do not appear here: a descent from the root *)
(* reaches the leaf that Route names.  That it does is what module         *)
(* BPlusTree checks, where the inner nodes are modelled.                   *)
(*                                                                         *)
(* A definition headed `Mutant:' here and in the other modules is the      *)
(* definition after it with a plausible mistake in it.  Nothing refers to  *)
(* it; put in place of the right one it must break a property, which shows *)
(* that the property can tell.                                             *)
(***************************************************************************)
EXTENDS Naturals, Sequences, FiniteSets

CONSTANTS SmallChunkCapacity,   \* entries a SmallChunk has room for
          BPlusTreeOrder        \* a leaf that reaches this many keys splits

\* The two static_asserts of the class template.
ASSUME SmallChunkCapacityAssumption ==
          SmallChunkCapacity \in Nat /\ SmallChunkCapacity >= 1
ASSUME BPlusTreeOrderAssumption ==
          BPlusTreeOrder \in Nat /\ BPlusTreeOrder >= 3

RangeOf(s) == {s[i] : i \in DOMAIN s}

\* The neighbour ids in a node, and in all the nodes of a vertex.
Keys(node) == {node[i].dst : i \in DOMAIN node}
AllKeys(nodes) == UNION {Keys(nodes[n]) : n \in DOMAIN nodes}
AllEntries(nodes) == UNION {RangeOf(nodes[n]) : n \in DOMAIN nodes}

\* Mutant: a chunk counts as full one entry too early.
FullEarly(chunk) == Len(chunk) + 1 >= SmallChunkCapacity

Full(chunk) == Len(chunk) = SmallChunkCapacity

\* How many leading entries are smaller than d: where the scan of
\* insertSorted stops, and std::lower_bound on an ascending array.
LowerBound(node, d) ==
  CHOOSE p \in 0 .. Len(node) :
     /\ \A i \in 1 .. p : node[i].dst < d
     /\ p < Len(node) => node[p + 1].dst >= d

\* The array after the entries from the insertion point on moved up one slot.
InsertSorted(node, e) ==
  LET pos == LowerBound(node, e.dst)
  IN  [i \in 1 .. Len(node) + 1 |->
         IF i <= pos THEN node[i]
         ELSE IF i = pos + 1 THEN e
         ELSE node[i - 1]]

\* Mutant: the end of the search is taken to be inclusive.
FindBelowLast(node, d) ==
  LET search[lo \in 0 .. Len(node)] ==
        [hi \in 0 .. Len(node) |->
           IF lo >= hi THEN 0
           ELSE LET mid == lo + ((hi - lo) \div 2)
                    key == node[mid + 1].dst
                IN  IF key = d THEN mid + 1
                    ELSE IF key < d THEN search[mid + 1][hi]
                    ELSE search[lo][mid]]
  IN  IF node = << >> THEN 0 ELSE search[0][Len(node) - 1]

\* The binary search of SmallChunk::find and of findEdgeWeight in a leaf:
\* the slot that holds d, or 0.
Find(node, d) ==
  LET search[lo \in 0 .. Len(node)] ==
        [hi \in 0 .. Len(node) |->
           IF lo >= hi THEN 0
           ELSE LET mid == lo + ((hi - lo) \div 2)
                    key == node[mid + 1].dst
                IN  IF key = d THEN mid + 1
                    ELSE IF key < d THEN search[mid + 1][hi]
                    ELSE search[lo][mid]]
  IN  search[0][Len(node)]

\* The leaf a descent with upper_bound ends in: no separator to its left is
\* greater than d, the one to its right is.  The separator between two leaves
\* is the first key of the right one (promotedKey = right->keys[0]).
Route(leaves, d) ==
  CHOOSE i \in 1 .. Len(leaves) :
     /\ i > 1 => leaves[i][1].dst <= d
     /\ i < Len(leaves) => d < leaves[i + 1][1].dst

\* Mutant: the comparison with the order is off by one.
SplitsLate(leaf) == Len(leaf) >= BPlusTreeOrder

\* bplusInsertLeaf: put e in leaf i; a leaf that reaches BPlusTreeOrder keys
\* keeps the lower half, and a new leaf to its right takes the others.
Splits(leaf) == Len(leaf) + 1 >= BPlusTreeOrder

\* Mutants: the middle entry goes to both halves, or to none.
LeftHalfWithMiddle(node) == SubSeq(node, 1, (Len(node) \div 2) + 1)
RightHalfWithoutMiddle(node) == SubSeq(node, (Len(node) \div 2) + 2, Len(node))

LeftHalf(node) == SubSeq(node, 1, Len(node) \div 2)
RightHalf(node) == SubSeq(node, (Len(node) \div 2) + 1, Len(node))

InsertIntoLeaf(leaves, i, e) ==
  LET grown == InsertSorted(leaves[i], e)
  IN  IF ~Splits(leaves[i])
        THEN [leaves EXCEPT ![i] = grown]
        ELSE [j \in 1 .. Len(leaves) + 1 |->
                IF j < i THEN leaves[j]
                ELSE IF j = i THEN LeftHalf(grown)
                ELSE IF j = i + 1 THEN RightHalf(grown)
                ELSE leaves[j - 1]]

\* Properties of node arrays that the invariants are built from.
Ascending(node) ==
  \A i, j \in DOMAIN node : i < j => node[i].dst < node[j].dst

\* Every key of a leaf is smaller than every key of the leaves to its right.
AscendingChain(leaves) ==
  /\ \A n \in DOMAIN leaves : Ascending(leaves[n])
  /\ \A m, n \in DOMAIN leaves : m < n =>
        \A i \in DOMAIN leaves[m], j \in DOMAIN leaves[n] :
           leaves[m][i].dst < leaves[n][j].dst
=============================================================================
