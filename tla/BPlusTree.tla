----------------------------- MODULE BPlusTree -----------------------------
(***************************************************************************)
(* The B+ tree of one promoted vertex of GCCGraph: tryUpdateExisting,      *)
(* bplusInsert, bplusInsertLeaf and bplusInsertInternal on a heap of       *)
(* nodes, one step per turn of their loops.  The machine starts inside     *)
(* promoteToBPlusTree, which inserts its items in ascending order; after   *)
(* them every call is an insertDirectedEdge for this vertex.               *)
(*                                                                         *)
(* A node is an index into `heap', 0 is nullptr.  The keys and vals of a   *)
(* leaf are its entries; an inner node has keys and children.              *)
(***************************************************************************)
EXTENDS GCCNodes, SequencesExt

CONSTANTS PutCalls,   \* the pairs <<neighbour id, weight>> ever inserted
          Promotions  \* the sets of entries a promotion may start from

ASSUME PutCallsAssumption == PutCalls \subseteq Nat \X Nat
ASSUME PromotionsAssumption ==
  \A items \in Promotions :
     /\ items \subseteq [dst : Nat, weight : Nat]
     /\ \A e, f \in items : e.dst = f.dst => e = f

VARIABLES
  heap,         \* the nodes allocated so far; none is ever deleted
  queryPointer, \* the root
  traversalPointer, \* the first leaf
  size, level,  \* of the VertexEntry
  bulk,         \* items promoteToBPlusTree has not inserted yet
  pc,           \* what the running call does next
  entry,        \* the entry it puts
  node,         \* where its descent or its way back up is
  split         \* the SplitResult being propagated

vars == <<heap, queryPointer, traversalPointer, size, level, bulk, pc, entry,
          node, split>>

None == 0

\* Mutant: a new leaf is not linked to the leaf after it.
UnlinkedLeaf(entries, next, parent) ==
  [isLeaf |-> TRUE, entries |-> entries, keys |-> << >>, children |-> << >>,
   next |-> None, parent |-> parent]

Leaf(entries, next, parent) ==
  [isLeaf |-> TRUE, entries |-> entries, keys |-> << >>, children |-> << >>,
   next |-> next, parent |-> parent]
Inner(keys, children, parent) ==
  [isLeaf |-> FALSE, entries |-> << >>, keys |-> keys, children |-> children,
   next |-> None, parent |-> parent]

NoSplit == [promotedKey |-> 0, rightSibling |-> None]

Init ==
  /\ heap = <<Leaf(<< >>, None, None)>>
  /\ queryPointer = 1
  /\ traversalPointer = 1
  /\ size = 0
  /\ level = 1
  /\ bulk \in Promotions
  /\ pc = "idle"
  /\ entry = [dst |-> 0, weight |-> 0]
  /\ node = None
  /\ split = NoSplit

\* The next turn of promoteToBPlusTree's loop.
NextItem ==
  /\ pc = "idle"
  /\ \E e \in bulk :
       /\ \A f \in bulk : e.dst <= f.dst
       /\ bulk' = bulk \ {e}
       /\ entry' = e
  /\ pc' = "insert"
  /\ node' = queryPointer
  /\ UNCHANGED <<heap, queryPointer, traversalPointer, size, level, split>>

\* insertDirectedEdge on the promoted vertex.
Call(k, w) ==
  /\ pc = "idle"
  /\ bulk = {}
  /\ entry' = [dst |-> k, weight |-> w]
  /\ pc' = "update"
  /\ node' = queryPointer
  /\ UNCHANGED <<heap, queryPointer, traversalPointer, size, level, bulk, split>>

\* Mutant: std::lower_bound.
StrictLowerBound(keys, k) == Cardinality({i \in DOMAIN keys : keys[i] < k})

\* std::upper_bound: how many keys are not greater than k.
UpperBound(keys, k) == Cardinality({i \in DOMAIN keys : keys[i] <= k})

\* Mutants: the child before the right one; the loop does not advance at the
\* first child.
ChildBefore(n, k) ==
  LET pos == UpperBound(heap[n].keys, k)
  IN  heap[n].children[IF pos = 0 THEN 1 ELSE pos]
StuckAtFirstChild(n, k) ==
  LET pos == UpperBound(heap[n].keys, k)
  IN  IF pos = 0 THEN n ELSE heap[n].children[pos + 1]

ChildFor(n, k) == heap[n].children[UpperBound(heap[n].keys, k) + 1]

\* The loops `while (!node->isLeaf)' of tryUpdateExisting and bplusInsert.
Descend ==
  /\ pc \in {"update", "insert"}
  /\ ~heap[node].isLeaf
  /\ node' = ChildFor(node, entry.dst)
  /\ UNCHANGED <<heap, queryPointer, traversalPointer, size, level, bulk, pc,
                 entry, split>>

UpdateInLeaf ==
  /\ pc = "update"
  /\ heap[node].isLeaf
  /\ \E i \in DOMAIN heap[node].entries :
       /\ heap[node].entries[i].dst = entry.dst
       /\ \A j \in 1 .. i - 1 : heap[node].entries[j].dst # entry.dst
       /\ heap' = [heap EXCEPT ![node].entries[i] = entry]
  /\ pc' = "idle"
  /\ UNCHANGED <<queryPointer, traversalPointer, size, level, bulk, entry,
                 node, split>>

\* tryUpdateExisting returned false: bplusInsert descends from the root again.
NotInLeaf ==
  /\ pc = "update"
  /\ heap[node].isLeaf
  /\ entry.dst \notin Keys(heap[node].entries)
  /\ pc' = "insert"
  /\ node' = queryPointer
  /\ UNCHANGED <<heap, queryPointer, traversalPointer, size, level, bulk,
                 entry, split>>

\* A node is split as soon as its arrays are full.
Overflows(n) == n >= BPlusTreeOrder

\* bplusInsertLeaf without, and with, a split.
InsertInLeaf ==
  LET leaf == heap[node]
      grown == InsertSorted(leaf.entries, entry)
      right == Len(heap) + 1
  IN  /\ pc = "insert"
      /\ leaf.isLeaf
      /\ size' = size + 1
      /\ IF ~Overflows(Len(grown))
           THEN /\ heap' = [heap EXCEPT ![node].entries = grown]
                /\ pc' = "idle"
                /\ UNCHANGED <<level, split>>
           ELSE /\ heap' = Append([heap EXCEPT
                                     ![node].entries = LeftHalf(grown),
                                     ![node].next = right],
                                  Leaf(RightHalf(grown), leaf.next, leaf.parent))
                /\ split' = [promotedKey |-> RightHalf(grown)[1].dst,
                             rightSibling |-> right]
                /\ level' = level + 1
                /\ pc' = "propagate"
      /\ UNCHANGED <<queryPointer, traversalPointer, bulk, entry, node>>

\* bplusInsert: the node that split was the root, a new root joins the two.
GrowRoot ==
  LET root == Len(heap) + 1
  IN  /\ pc = "propagate"
      /\ heap[node].parent = None
      /\ heap' = Append([heap EXCEPT ![node].parent = root,
                                     ![split.rightSibling].parent = root],
                        Inner(<<split.promotedKey>>,
                              <<node, split.rightSibling>>, None))
      /\ queryPointer' = root
      /\ pc' = "idle"
      /\ split' = NoSplit
      /\ UNCHANGED <<traversalPointer, size, level, bulk, entry, node>>

\* Mutant: the promoted key stays in the right half, as it does in a leaf.
UpperKeysWithPromoted(keys) == SubSeq(keys, (Len(keys) \div 2) + 1, Len(keys))

\* The keys and children that move to the right half; the key before them is
\* promoted.
UpperKeys(keys) == SubSeq(keys, (Len(keys) \div 2) + 2, Len(keys))
UpperChildren(keys, children) ==
  SubSeq(children, (Len(keys) \div 2) + 2, Len(children))

\* Mutant: the children that move keep their old parent.
LeaveParents(nodes, moved, parent) == nodes

SetParents(nodes, moved, parent) ==
  [n \in DOMAIN nodes |->
     IF n \in ToSet(moved) THEN [nodes[n] EXCEPT !.parent = parent] ELSE nodes[n]]

\* bplusInsertInternal on the parent of the node that split.
InsertInParent ==
  LET parent == heap[node].parent
      pos == UpperBound(heap[parent].keys, split.promotedKey)
      keys == InsertAt(heap[parent].keys, pos + 1, split.promotedKey)
      children == InsertAt(heap[parent].children, pos + 2, split.rightSibling)
      linked == [heap EXCEPT ![parent].keys = keys,
                             ![parent].children = children,
                             ![split.rightSibling].parent = parent]
      mid == Len(keys) \div 2
      right == Len(heap) + 1
      moved == UpperChildren(keys, children)
      halved == [linked EXCEPT ![parent].keys = SubSeq(keys, 1, mid),
                               ![parent].children = SubSeq(children, 1, mid + 1)]
  IN  /\ pc = "propagate"
      /\ parent # None
      /\ node' = parent
      /\ IF ~Overflows(Len(keys))
           THEN /\ heap' = linked
                /\ pc' = "idle"
                /\ split' = NoSplit
           ELSE /\ heap' = Append(SetParents(halved, moved, right),
                                  Inner(UpperKeys(keys), moved, heap[parent].parent))
                /\ split' = [promotedKey |-> keys[mid + 1],
                             rightSibling |-> right]
                /\ UNCHANGED pc
      /\ UNCHANGED <<queryPointer, traversalPointer, size, level, bulk, entry>>

Step ==
  \/ NextItem
  \/ Descend
  \/ UpdateInLeaf
  \/ NotInLeaf
  \/ InsertInLeaf
  \/ GrowRoot
  \/ InsertInParent

Next == Step \/ \E c \in PutCalls : Call(c[1], c[2])

Spec == Init /\ [][Next]_vars

\* The program is sequential: a call that was made runs on until it returns.
FairSpec == Spec /\ WF_vars(Step)

-----------------------------------------------------------------------------
(* The tree as a reader of it sees it.                                     *)

\* The nodes at each depth, from left to right, reached through children.
Layer[d \in 0 .. Len(heap)] ==
  IF d = 0 THEN <<queryPointer>>
  ELSE FlattenSeq([i \in DOMAIN Layer[d - 1] |-> heap[Layer[d - 1][i]].children])

Depth == CHOOSE d \in 0 .. Len(heap) :
           heap[Layer[d][1]].isLeaf /\ \A e \in 0 .. d - 1 : ~heap[Layer[e][1]].isLeaf

\* The leaves linked by next, from traversalPointer on.
NextChain ==
  LET at[k \in 0 .. Len(heap)] ==
        IF k = 0 THEN traversalPointer
        ELSE IF at[k - 1] = None THEN None
        ELSE heap[at[k - 1]].next
      steps == {k \in DOMAIN at : at[k] # None}
  IN  [k \in 1 .. Cardinality(steps) |-> at[k - 1]]

ChainEntries == [i \in DOMAIN NextChain |-> heap[NextChain[i]].entries]

\* Where the descent for k from the root ends.
DescentEnd(k) ==
  LET down[n \in DOMAIN heap] == IF heap[n].isLeaf THEN n ELSE down[ChildFor(n, k)]
  IN  down[queryPointer]

-----------------------------------------------------------------------------
(* Properties.                                                             *)

\* Every node has room for one more key and child, which bplusInsertLeaf and
\* bplusInsertInternal write into the fixed arrays before they look whether the
\* node must split.  Between calls every leaf is at the same depth, every inner
\* node has one child more than keys and at least one key, and no leaf but a
\* single one is empty.
Balanced ==
  /\ \A n \in DOMAIN heap :
       /\ Len(heap[n].entries) < BPlusTreeOrder
       /\ Len(heap[n].keys) < BPlusTreeOrder
       /\ Len(heap[n].children) <= BPlusTreeOrder
  /\ pc = "idle" =>
       /\ \A i \in DOMAIN Layer[Depth] : heap[Layer[Depth][i]].isLeaf
       /\ \A e \in 0 .. Depth - 1 : \A i \in DOMAIN Layer[e] :
            LET n == heap[Layer[e][i]]
            IN  /\ ~n.isLeaf
                /\ n.keys # << >>
                /\ Len(n.children) = Len(n.keys) + 1
       /\ \A i \in DOMAIN Layer[Depth] :
            Depth > 0 => heap[Layer[Depth][i]].entries # << >>

\* Between calls every allocated node hangs in the tree exactly once, which is
\* what lets the destructor free all of them by following children, and the
\* parent links along which a split is propagated are the inverse of the
\* child links.
ParentsAndChildrenAgree ==
  pc = "idle" =>
    /\ heap[queryPointer].parent = None
    /\ \A n \in DOMAIN heap : n # queryPointer =>
         LET p == heap[n].parent
         IN  /\ p # None
             /\ Cardinality({i \in DOMAIN heap[p].children :
                               heap[p].children[i] = n}) = 1
    /\ \A p \in DOMAIN heap : \A i \in DOMAIN heap[p].children :
         heap[heap[p].children[i]].parent = p
    /\ UNION {ToSet(Layer[d]) : d \in 0 .. Depth} = DOMAIN heap

\* Between calls the leaves linked by next, which the iterations walk, are the
\* leaves the descents reach, in the same order.
ChainIsFrontier == pc = "idle" => NextChain = Layer[Depth]

\* Between calls the descent for any key, stored or not, ends in the leaf
\* whose keys surround it: no stored key is ever missed, and no key is ever
\* inserted twice or out of order.
DescentFollowsRoute ==
  pc = "idle" => \A c \in PutCalls :
    DescentEnd(c[1]) = NextChain[Route(ChainEntries, c[1])]

\* The tree is a chain of leaves with an index on top of it: every call puts
\* its entry in the leaf it belongs in, and counts one level per leaf split.
Chain == INSTANCE LeafChain WITH leaves <- ChainEntries,
           PutCalls <- PutCalls \cup {<<e.dst, e.weight>> : e \in UNION Promotions}
ImplementsLeafChain == Chain!Spec

\* After every step, splits on their way up included, the keys ascend within
\* the leaves and along their chain, and no leaf is too full or, unless it is
\* the only one, empty: what forEachNeighbor walks is sorted.
LeavesOrdered == Chain!LeavesOrdered

\* After every step each stored key is in the one leaf that may hold it, so
\* that what was stored before a split is still found after it.
RouteFindsKeys == Chain!RouteFindsKeys

\* VertexEntry.size counts the keys and VertexEntry.level the leaves, through
\* leaf splits and updates, although inner splits and new roots count nothing.
CountsMatch == Chain!CountsMatch

\* Every call returns: descents end, the propagation of a split comes to a
\* parent with room or to the root, and the loop of promoteToBPlusTree inserts
\* all its items.
EveryCallReturns ==
  /\ pc # "idle" ~> pc = "idle"
  /\ <>(bulk = {} /\ pc = "idle")
=============================================================================
