-------------------------- MODULE BPlusTree_proofs --------------------------
(***************************************************************************)
(* The invariants of BPlusTree for trees of any order and any calls, and   *)
(* that the machine implements LeafChain.                                  *)
(*                                                                         *)
(* IInv gives every node of the heap a height and the bounds lo and hi of  *)
(* the keys below it, and names the chain of the leaves.  While a split is *)
(* on its way up, the right node hangs nowhere yet: the bounds that its    *)
(* parent would know of its left neighbour are those of SeenHi.  Each      *)
(* action has a lemma on the tree it leaves (LeafSplit, Linked, InnerSplit *)
(* and RootGrown are what the assignments of the action make of the heap)  *)
(* and a lemma, ...IInv, that takes the invariant over the step.           *)
(***************************************************************************)
EXTENDS BPlusTree, GCCNodes_proofs

Node == [isLeaf : BOOLEAN, entries : Seq(Cell(Nat)), keys : Seq(Nat),
         children : Seq(Nat), next : Nat, parent : Nat]

\* d is under the bound b, where 0 is no bound.
Below(d, b) == b = 0 \/ d < b

Within(d, lo, hi, n) == lo[n] <= d /\ Below(d, hi[n])

\* The upper bound that the parent of n knows: while n, as left, is split, that
\* of the node to its right, which the parent does not have yet.
SeenHi(hi, left, right, n) == IF n = left THEN hi[right] ELSE hi[n]

EntriesOf(nodes, chain) == [p \in 1 .. Len(chain) |-> nodes[chain[p]].entries]

BoundsOK(nodes, lo, hi, height) ==
  /\ nodes \in Seq(Node)
  /\ lo \in [DOMAIN nodes -> Nat]
  /\ hi \in [DOMAIN nodes -> Nat]
  /\ height \in [DOMAIN nodes -> Nat]
  /\ \A n \in DOMAIN nodes :
       /\ Below(lo[n], hi[n])
       /\ height[n] < Len(nodes)
       /\ nodes[n].isLeaf <=> height[n] = 0

LeafOK(nodes, lo, hi, chain, p) ==
  /\ nodes[chain[p]].isLeaf
  /\ nodes[chain[p]].next = IF p = Len(chain) THEN None ELSE chain[p + 1]
  /\ hi[chain[p]] = IF p = Len(chain) THEN 0 ELSE lo[chain[p + 1]]
  /\ lo[chain[p]] = IF p = 1 THEN 0 ELSE nodes[chain[p]].entries[1].dst

LinksOK(nodes, first, lo, hi, chain) ==
  /\ chain \in Seq(DOMAIN nodes)
  /\ Len(chain) >= 1
  /\ chain[1] = first
  /\ \A p \in 1 .. Len(chain) : LeafOK(nodes, lo, hi, chain, p)
  /\ \A p, q \in 1 .. Len(chain) : chain[p] = chain[q] => p = q

LeavesOK(nodes, chain) ==
  \A n \in DOMAIN nodes : nodes[n].isLeaf =>
     /\ nodes[n].keys = << >>
     /\ nodes[n].children = << >>
     /\ \E p \in 1 .. Len(chain) : chain[p] = n

KeysOK(keys, low, high) ==
  /\ Len(keys) >= 1
  /\ \A i \in 1 .. Len(keys) : low < keys[i] /\ Below(keys[i], high)
  /\ \A i, j \in 1 .. Len(keys) : i < j => keys[i] < keys[j]

ChildOK(nodes, lo, hi, height, left, right, n, i) ==
  LET keys == nodes[n].keys
      child == nodes[n].children[i]
  IN  /\ child \in DOMAIN nodes
      /\ nodes[child].parent = n
      /\ height[child] + 1 = height[n]
      /\ lo[child] = IF i = 1 THEN lo[n] ELSE keys[i - 1]
      /\ SeenHi(hi, left, right, child) =
            IF i = Len(keys) + 1 THEN hi[n] ELSE keys[i]

InnerOK(nodes, lo, hi, height, left, right) ==
  \A n \in DOMAIN nodes : ~nodes[n].isLeaf =>
     /\ nodes[n].entries = << >>
     /\ KeysOK(nodes[n].keys, lo[n], hi[n])
     /\ Len(nodes[n].children) = Len(nodes[n].keys) + 1
     /\ \A i \in 1 .. Len(nodes[n].keys) + 1 :
          ChildOK(nodes, lo, hi, height, left, right, n, i)

ParentsOK(nodes, root, lo, hi, left, right) ==
  /\ root \in DOMAIN nodes
  /\ nodes[root].parent = None
  /\ lo[root] = 0
  /\ SeenHi(hi, left, right, root) = 0
  /\ \A n \in DOMAIN nodes : n # root /\ n # right =>
       /\ nodes[n].parent \in DOMAIN nodes
       /\ ~nodes[nodes[n].parent].isLeaf
       /\ \E i \in 1 .. Len(nodes[nodes[n].parent].children) :
            nodes[nodes[n].parent].children[i] = n

SplitOK(nodes, root, key, lo, hi, height, left, right) ==
  right # None =>
    /\ left \in DOMAIN nodes
    /\ right \in DOMAIN nodes
    /\ left # right
    /\ right # root
    /\ height[left] = height[right]
    /\ nodes[left].parent = nodes[right].parent
    /\ key = lo[right]
    /\ key = hi[left]
    /\ lo[left] < key

Shape(nodes, root, first, key, left, right, lo, hi, height, chain) ==
  /\ BoundsOK(nodes, lo, hi, height)
  /\ LinksOK(nodes, first, lo, hi, chain)
  /\ WellFormedChain(Nat, EntriesOf(nodes, chain))
  /\ LeavesOK(nodes, chain)
  /\ InnerOK(nodes, lo, hi, height, left, right)
  /\ ParentsOK(nodes, root, lo, hi, left, right)
  /\ SplitOK(nodes, root, key, lo, hi, height, left, right)

-----------------------------------------------------------------------------
(* Keys and bounds.                                                        *)

LEMMA NodeFields ==
  ASSUME NEW nodes \in Seq(Node)
  PROVE  /\ Len(nodes) \in Nat
         /\ DOMAIN nodes = 1 .. Len(nodes)
         /\ \A n \in DOMAIN nodes :
              /\ nodes[n] \in Node
              /\ nodes[n].entries \in Seq(Cell(Nat))
              /\ nodes[n].keys \in Seq(Nat)
              /\ nodes[n].children \in Seq(Nat)
              /\ nodes[n].next \in Nat
              /\ nodes[n].parent \in Nat
<1>1. Len(nodes) \in Nat /\ DOMAIN nodes = 1 .. Len(nodes)
  BY LenProperties
<1>2. \A n \in DOMAIN nodes : nodes[n] \in Node
  BY <1>1, ElementOfSeq
<1> QED BY <1>1, <1>2 DEF Node

LEMMA UpperBoundProperties ==
  ASSUME NEW keys \in Seq(Nat), NEW d \in Nat,
         \A i, j \in 1 .. Len(keys) : i < j => keys[i] < keys[j]
  PROVE  /\ UpperBound(keys, d) \in 0 .. Len(keys)
         /\ \A i \in 1 .. UpperBound(keys, d) : keys[i] <= d
         /\ \A i \in UpperBound(keys, d) + 1 .. Len(keys) : d < keys[i]
<1> DEFINE Ends == {p \in 0 .. Len(keys) : p < Len(keys) => d < keys[p + 1]}
<1>1. /\ Len(keys) \in Nat /\ DOMAIN keys = 1 .. Len(keys)
      /\ \A i \in 1 .. Len(keys) : keys[i] \in Nat
  BY LenProperties, ElementOfSeq
<1>2. Len(keys) \in Ends /\ Ends \in SUBSET Nat
  BY <1>1
<1>3. PICK m \in Ends : \A k \in Ends : m <= k
  <2> HIDE DEF Ends
  <2> QED BY <1>2, LeastElement
<1>4. m \in 0 .. Len(keys) /\ (m < Len(keys) => d < keys[m + 1])
  OBVIOUS
<1>5. \A i \in m + 1 .. Len(keys) : d < keys[i]
  <2> SUFFICES ASSUME NEW i \in m + 1 .. Len(keys) PROVE d < keys[i]
    OBVIOUS
  <2>1. i = m + 1 \/ m + 1 < i
    BY <1>1, <1>4
  <2> QED BY <1>1, <1>4, <2>1
<1>6. \A i \in 1 .. m : keys[i] <= d
  <2> SUFFICES ASSUME NEW i \in 1 .. m PROVE keys[i] <= d
    OBVIOUS
  <2>1. i - 1 \in 0 .. Len(keys) /\ ~(m <= i - 1) /\ i - 1 < Len(keys)
    BY <1>1, <1>4
  <2>2. i - 1 \notin Ends
    <3> HIDE DEF Ends
    <3> QED BY <1>3, <2>1
  <2>3. ~(d < keys[(i - 1) + 1])
    BY <2>1, <2>2
  <2>4. (i - 1) + 1 = i /\ i \in 1 .. Len(keys)
    BY <1>1, <1>4
  <2> QED BY <1>1, <2>3, <2>4
<1>7. {i \in DOMAIN keys : keys[i] <= d} = 1 .. m
  BY <1>1, <1>4, <1>5, <1>6
<1>8. UpperBound(keys, d) = m
  <2>1. Cardinality(1 .. m) = m
    BY <1>4, FS_Interval
  <2> QED BY <1>7, <2>1 DEF UpperBound
<1> QED BY <1>4, <1>5, <1>6, <1>8

\* One step of a descent keeps within the bounds of the node it comes to.
LEMMA DescentStep ==
  ASSUME NEW nodes, NEW lo, NEW hi, NEW height, BoundsOK(nodes, lo, hi, height),
         NEW n \in DOMAIN nodes, ~nodes[n].isLeaf,
         InnerOK(nodes, lo, hi, height, None, None),
         NEW d \in Nat, Within(d, lo, hi, n),
         NEW c, c = nodes[n].children[UpperBound(nodes[n].keys, d) + 1]
  PROVE  /\ c \in DOMAIN nodes
         /\ Within(d, lo, hi, c)
         /\ height[c] + 1 = height[n]
<1> DEFINE keys == nodes[n].keys
           p == UpperBound(keys, d)
<1>1. /\ nodes \in Seq(Node) /\ DOMAIN nodes = 1 .. Len(nodes) /\ Len(nodes) \in Nat
      /\ keys \in Seq(Nat) /\ Len(keys) \in Nat
  BY NodeFields, LenProperties DEF BoundsOK
<1>2. /\ KeysOK(keys, lo[n], hi[n])
      /\ \A i \in 1 .. Len(keys) + 1 : ChildOK(nodes, lo, hi, height, None, None, n, i)
  BY DEF InnerOK
<1>3. /\ p \in 0 .. Len(keys)
      /\ \A i \in 1 .. p : keys[i] <= d
      /\ \A i \in p + 1 .. Len(keys) : d < keys[i]
  <2> HIDE DEF keys
  <2> QED BY <1>1, <1>2, UpperBoundProperties DEF KeysOK
<1> HIDE DEF p
<1>4. /\ c \in DOMAIN nodes
      /\ height[c] + 1 = height[n]
      /\ lo[c] = IF p = 0 THEN lo[n] ELSE keys[p]
      /\ SeenHi(hi, None, None, c) = IF p = Len(keys) THEN hi[n] ELSE keys[p + 1]
  <2>1. p + 1 \in 1 .. Len(keys) + 1 /\ c = nodes[n].children[p + 1]
    BY <1>1, <1>3 DEF p
  <2> QED BY <1>1, <1>2, <1>3, <2>1 DEF ChildOK
<1>5. SeenHi(hi, None, None, c) = hi[c]
  BY <1>1, <1>4 DEF SeenHi, None
<1>6. /\ p # 0 => keys[p] <= d
      /\ p # Len(keys) => d < keys[p + 1]
  BY <1>1, <1>3
<1> QED BY <1>4, <1>5, <1>6 DEF Within, Below

-----------------------------------------------------------------------------
(* Leaves.                                                                 *)

LEMMA EntriesOfChain ==
  ASSUME NEW nodes, NEW chain, Len(chain) \in Nat
  PROVE  /\ Len(EntriesOf(nodes, chain)) = Len(chain)
         /\ DOMAIN EntriesOf(nodes, chain) = 1 .. Len(chain)
         /\ \A p \in 1 .. Len(chain) : EntriesOf(nodes, chain)[p] = nodes[chain[p]].entries
BY DEF EntriesOf

\* The first keys of the leaves ascend.
LEMMA FirstKeysAscend ==
  ASSUME NEW list, WellFormedChain(Nat, list),
         NEW p \in 1 .. Len(list), NEW q \in 1 .. Len(list), p < q
  PROVE  /\ list[p][1].dst \in Nat /\ list[q][1].dst \in Nat
         /\ list[p][1].dst < list[q][1].dst
<1>1. /\ Len(list) \in Nat
      /\ \A n \in 1 .. Len(list) : /\ list[n][1].dst \in Keys(list[n])
                                   /\ Keys(list[n]) \subseteq Nat
  BY ChainProperties
<1>2. \A k \in Keys(list[p]), l \in Keys(list[q]) : k < l
  BY ChainByKeys DEF WellFormedChain
<1> QED BY <1>1, <1>2

\* The bounds of a leaf are those of the route.
LEMMA LeafOfRoute ==
  ASSUME NEW nodes, NEW first, NEW lo, NEW hi, NEW chain,
         LinksOK(nodes, first, lo, hi, chain),
         WellFormedChain(Nat, EntriesOf(nodes, chain)),
         NEW d \in Nat, NEW p \in 1 .. Len(chain), Within(d, lo, hi, chain[p])
  PROVE  p = Route(EntriesOf(nodes, chain), d)
<1> DEFINE list == EntriesOf(nodes, chain)
           r == Route(list, d)
<1>1. /\ Len(chain) \in Nat
      /\ Len(list) = Len(chain)
      /\ \A q \in 1 .. Len(chain) : list[q] = nodes[chain[q]].entries
      /\ \A q \in 1 .. Len(chain) :
           /\ hi[chain[q]] = IF q = Len(chain) THEN 0 ELSE lo[chain[q + 1]]
           /\ lo[chain[q]] = IF q = 1 THEN 0 ELSE nodes[chain[q]].entries[1].dst
  BY EntriesOfChain, LenProperties DEF LinksOK, LeafOK
<1>2. /\ r \in 1 .. Len(list)
      /\ r > 1 => list[r][1].dst <= d
      /\ r < Len(list) => d < list[r + 1][1].dst
  BY RouteProperties
<1>3. \A m, n \in 1 .. Len(list) : m < n =>
         /\ list[m][1].dst \in Nat /\ list[n][1].dst \in Nat
         /\ list[m][1].dst < list[n][1].dst
  BY FirstKeysAscend
<1>4. ASSUME p < r PROVE FALSE
  <2>1. p + 1 \in 1 .. Len(list) /\ p < p + 1 /\ (p + 1 = r \/ p + 1 < r)
    BY <1>1, <1>2, <1>4
  <2>2. hi[chain[p]] = list[p + 1][1].dst
    BY <1>1, <1>2, <1>4, <2>1
  <2>3. list[p + 1][1].dst \in Nat /\ 0 < list[p + 1][1].dst
    BY <1>1, <1>3, <2>1
  <2>4. list[p + 1][1].dst <= list[r][1].dst /\ list[r][1].dst \in Nat
    BY <1>2, <1>3, <2>1, <2>3
  <2> HIDE DEF list, r
  <2> QED BY <1>2, <1>4, <2>2, <2>3, <2>4 DEF Within, Below
<1>5. ASSUME r < p PROVE FALSE
  <2>1. r + 1 \in 1 .. Len(list) /\ r < r + 1 /\ (r + 1 = p \/ r + 1 < p) /\ p # 1
    BY <1>1, <1>2, <1>5
  <2>2. lo[chain[p]] = list[p][1].dst
    BY <1>1, <2>1
  <2>3. list[r + 1][1].dst \in Nat /\ list[p][1].dst \in Nat
    BY <1>1, <1>2, <1>3, <1>5, <2>1
  <2>4. list[r + 1][1].dst <= list[p][1].dst
    BY <1>1, <1>3, <2>1, <2>3
  <2> HIDE DEF list, r
  <2> QED BY <1>1, <1>2, <1>5, <2>2, <2>3, <2>4 DEF Within
<1> HIDE DEF r
<1> QED BY <1>1, <1>2, <1>4, <1>5 DEF r

LEMMA FunctionIsSeq ==
  ASSUME NEW S, NEW n \in Nat, NEW f \in [1 .. n -> S]
  PROVE  f \in Seq(S) /\ Len(f) = n
OBVIOUS

\* Other entries in a leaf.
Refilled(nodes, n, es) == [nodes EXCEPT ![n].entries = es]

\* The nodes in after are those in nodes, but for the entries of n.
EntriesDiffer(nodes, after, n) ==
  /\ after \in Seq(Node)
  /\ Len(after) = Len(nodes)
  /\ DOMAIN after = DOMAIN nodes
  /\ \A m \in DOMAIN nodes :
       /\ m # n => after[m].entries = nodes[m].entries
       /\ after[m].isLeaf = nodes[m].isLeaf
       /\ after[m].keys = nodes[m].keys
       /\ after[m].children = nodes[m].children
       /\ after[m].next = nodes[m].next
       /\ after[m].parent = nodes[m].parent

LEMMA RefilledProperties ==
  ASSUME NEW nodes \in Seq(Node), NEW n \in DOMAIN nodes, NEW es \in Seq(Cell(Nat))
  PROVE  /\ EntriesDiffer(nodes, Refilled(nodes, n, es), n)
         /\ Refilled(nodes, n, es)[n].entries = es
<1> DEFINE after == Refilled(nodes, n, es)
<1>1. /\ Len(nodes) \in Nat /\ DOMAIN nodes = 1 .. Len(nodes)
      /\ \A m \in DOMAIN nodes : nodes[m] \in Node
  BY NodeFields
<1>2. DOMAIN after = DOMAIN nodes /\ after = [m \in 1 .. Len(nodes) |-> after[m]]
  BY <1>1 DEF Refilled
<1>3. ASSUME NEW m \in DOMAIN nodes
      PROVE  /\ after[m] \in Node
             /\ after[m].entries = IF m = n THEN es ELSE nodes[m].entries
             /\ after[m].isLeaf = nodes[m].isLeaf
             /\ after[m].keys = nodes[m].keys
             /\ after[m].children = nodes[m].children
             /\ after[m].next = nodes[m].next
             /\ after[m].parent = nodes[m].parent
  <2>1. nodes[m] \in Node
    BY <1>1
  <2>2. after[m] = IF m = n THEN [nodes[m] EXCEPT !.entries = es] ELSE nodes[m]
    BY DEF Refilled
  <2> QED BY <2>1, <2>2 DEF Node
<1> HIDE DEF after
<1>4. after \in Seq(Node) /\ Len(after) = Len(nodes)
  <2>1. after \in [1 .. Len(nodes) -> Node]
    BY <1>1, <1>2, <1>3, Zenon
  <2> QED BY <1>1, <2>1, FunctionIsSeq
<1>5. EntriesDiffer(nodes, after, n) /\ after[n].entries = es
  BY <1>1, <1>2, <1>3, <1>4 DEF EntriesDiffer
<1> QED BY <1>5 DEF after

\* The p-th leaf, n, gets the entries es, among which the least key is as before
\* unless the leaf is the first; list is what the leaves hold then.
LeafRefilled(nodes, lo, chain, after, p, n, es, list) ==
  /\ p \in 1 .. Len(chain)
  /\ n = chain[p]
  /\ es \in Seq(Cell(Nat))
  /\ after = Refilled(nodes, n, es)
  /\ p > 1 => es[1].dst = nodes[n].entries[1].dst
  /\ list = [EntriesOf(nodes, chain) EXCEPT ![p] = es]
  /\ WellFormedChain(Nat, list)

LEMMA LeafReplaced ==
  ASSUME NEW nodes, NEW root, NEW first, NEW key, NEW lo, NEW hi, NEW height, NEW chain,
         Shape(nodes, root, first, key, None, None, lo, hi, height, chain),
         NEW after, NEW p, NEW n, NEW es, NEW list,
         LeafRefilled(nodes, lo, chain, after, p, n, es, list)
  PROVE  /\ Shape(after, root, first, key, None, None, lo, hi, height, chain)
         /\ EntriesOf(after, chain) = list
<1>0. /\ p \in 1 .. Len(chain) /\ n = chain[p] /\ es \in Seq(Cell(Nat))
      /\ after = Refilled(nodes, n, es)
      /\ p > 1 => es[1].dst = nodes[n].entries[1].dst
      /\ list = [EntriesOf(nodes, chain) EXCEPT ![p] = es]
      /\ WellFormedChain(Nat, list)
  BY DEF LeafRefilled
<1>1. /\ nodes \in Seq(Node)
      /\ Len(chain) \in Nat
      /\ \A q \in 1 .. Len(chain) : chain[q] \in DOMAIN nodes
      /\ n \in DOMAIN nodes
      /\ \A q \in 1 .. Len(chain) : chain[q] = n => q = p
      /\ nodes[n].isLeaf
  BY <1>0, LenProperties, ElementOfSeq DEF Shape, BoundsOK, LinksOK, LeafOK
<1>2. EntriesDiffer(nodes, after, n) /\ after[n].entries = es
  BY <1>0, <1>1, RefilledProperties
<1>3. EntriesOf(after, chain) = list
  <2>1. \A q \in 1 .. Len(chain) :
           after[chain[q]].entries = IF q = p THEN es ELSE nodes[chain[q]].entries
    BY <1>0, <1>1, <1>2 DEF EntriesDiffer
  <2> QED BY <1>0, <2>1 DEF EntriesOf
<1>4. BoundsOK(after, lo, hi, height)
  BY <1>2 DEF Shape, BoundsOK, EntriesDiffer
<1>5. LinksOK(after, first, lo, hi, chain)
  <2>1. LinksOK(nodes, first, lo, hi, chain)
    BY DEF Shape
  <2>2. DOMAIN after = DOMAIN nodes
    BY <1>2 DEF EntriesDiffer
  <2>3. ASSUME NEW q \in 1 .. Len(chain)
        PROVE  /\ q # 1 => after[chain[q]].entries[1].dst = nodes[chain[q]].entries[1].dst
               /\ after[chain[q]].isLeaf = nodes[chain[q]].isLeaf
               /\ after[chain[q]].next = nodes[chain[q]].next
    <3>1. /\ chain[q] \in DOMAIN nodes
          /\ chain[q] # n => after[chain[q]].entries = nodes[chain[q]].entries
          /\ after[chain[q]].isLeaf = nodes[chain[q]].isLeaf
          /\ after[chain[q]].next = nodes[chain[q]].next
      BY <1>1, <1>2 DEF EntriesDiffer
    <3>2. chain[q] = n => q = p
      BY <1>1
    <3> QED BY <1>0, <1>1, <1>2, <3>1, <3>2
  <2>4. \A q \in 1 .. Len(chain) : LeafOK(after, lo, hi, chain, q)
    <3> SUFFICES ASSUME NEW q \in 1 .. Len(chain) PROVE LeafOK(after, lo, hi, chain, q)
      OBVIOUS
    <3>1. LeafOK(nodes, lo, hi, chain, q)
      BY <2>1 DEF LinksOK
    <3> QED BY <2>3, <3>1 DEF LeafOK
  <2> QED BY <2>1, <2>2, <2>4 DEF LinksOK
<1>6. LeavesOK(after, chain)
  BY <1>2 DEF Shape, LeavesOK, EntriesDiffer
<1>7. InnerOK(after, lo, hi, height, None, None)
  <2>1. InnerOK(nodes, lo, hi, height, None, None)
    BY DEF Shape
  <2>2. /\ DOMAIN after = DOMAIN nodes
        /\ \A m \in DOMAIN nodes :
             /\ m # n => after[m].entries = nodes[m].entries
             /\ after[m].isLeaf = nodes[m].isLeaf
             /\ after[m].keys = nodes[m].keys
             /\ after[m].children = nodes[m].children
             /\ after[m].parent = nodes[m].parent
    BY <1>2 DEF EntriesDiffer
  <2>3. ASSUME NEW m \in DOMAIN nodes, NEW i,
               ChildOK(nodes, lo, hi, height, None, None, m, i)
        PROVE  ChildOK(after, lo, hi, height, None, None, m, i)
    BY <2>2, <2>3 DEF ChildOK
  <2>4. ASSUME NEW m \in DOMAIN nodes, ~after[m].isLeaf
        PROVE  /\ after[m].entries = << >>
               /\ KeysOK(after[m].keys, lo[m], hi[m])
               /\ Len(after[m].children) = Len(after[m].keys) + 1
               /\ \A i \in 1 .. Len(after[m].keys) + 1 :
                    ChildOK(after, lo, hi, height, None, None, m, i)
    <3>1. ~nodes[m].isLeaf /\ m # n
      BY <1>1, <2>2, <2>4
    <3>2. /\ after[m].entries = nodes[m].entries
          /\ after[m].keys = nodes[m].keys
          /\ after[m].children = nodes[m].children
      BY <2>2, <3>1
    <3> QED BY <2>1, <2>3, <3>1, <3>2 DEF InnerOK
  <2> QED BY <2>2, <2>4 DEF InnerOK
<1>8. ParentsOK(after, root, lo, hi, None, None)
  <2>1. ParentsOK(nodes, root, lo, hi, None, None)
    BY DEF Shape
  <2>2. /\ DOMAIN after = DOMAIN nodes
        /\ \A m \in DOMAIN nodes :
             /\ after[m].isLeaf = nodes[m].isLeaf
             /\ after[m].children = nodes[m].children
             /\ after[m].parent = nodes[m].parent
    BY <1>2 DEF EntriesDiffer
  <2> QED BY <2>1, <2>2 DEF ParentsOK
<1>9. SplitOK(after, root, key, lo, hi, height, None, None)
  BY DEF SplitOK
<1> QED BY <1>0, <1>3, <1>4, <1>5, <1>6, <1>7, <1>8, <1>9 DEF Shape

-----------------------------------------------------------------------------
(* Insertion into a leaf.                                                  *)

\* A key that is not the least does not become the first.
LEMMA InsertKeepsFirst ==
  ASSUME NEW W, NEW list \in Seq(Cell(W)), NEW e \in Cell(W), Len(list) >= 1,
         list[1].dst < e.dst
  PROVE  InsertSorted(list, e)[1] = list[1]
<1>1. Len(list) \in Nat /\ e.dst \in Nat /\ list[1].dst \in Nat
  BY CellProperties
<1>2. /\ LowerBound(list, e.dst) \in 0 .. Len(list)
      /\ LowerBound(list, e.dst) < Len(list) =>
            list[LowerBound(list, e.dst) + 1].dst >= e.dst
  BY <1>1, LowerBoundProperties
<1>3. LowerBound(list, e.dst) # 0
  BY <1>1, <1>2
<1> QED BY <1>1, <1>2, <1>3 DEF InsertSorted

\* bplusInsertLeaf in a leaf with room.
LEMMA InsertNoSplit ==
  ASSUME NEW nodes, NEW root, NEW first, NEW key, NEW lo, NEW hi, NEW height, NEW chain,
         Shape(nodes, root, first, key, None, None, lo, hi, height, chain),
         NEW p \in 1 .. Len(chain), NEW n, n = chain[p],
         NEW e \in Cell(Nat), Within(e.dst, lo, hi, n),
         NEW list, list = EntriesOf(nodes, chain),
         e.dst \notin AllKeys(list), ~Splits(nodes[n].entries),
         NEW after, after = Refilled(nodes, n, InsertSorted(nodes[n].entries, e))
  PROVE  /\ p = Route(list, e.dst)
         /\ Shape(after, root, first, key, None, None, lo, hi, height, chain)
         /\ EntriesOf(after, chain) = InsertIntoLeaf(list, p, e)
<1> DEFINE es == InsertSorted(nodes[n].entries, e)
<1>1. /\ LinksOK(nodes, first, lo, hi, chain)
      /\ WellFormedChain(Nat, list)
      /\ Len(chain) \in Nat /\ Len(list) = Len(chain)
      /\ list[p] = nodes[n].entries
      /\ e.dst \in Nat
  BY EntriesOfChain, LenProperties, CellProperties DEF Shape, LinksOK
<1>2. p = Route(list, e.dst)
  BY <1>1, LeafOfRoute
<1>3. list[p] \in Seq(Cell(Nat)) /\ (Len(list) > 1 => Len(list[p]) >= 1)
      /\ Keys(list[p]) \subseteq AllKeys(list)
      /\ DOMAIN list = 1 .. Len(list)
  <2>1. DOMAIN list = 1 .. Len(list) /\ list[p] \in Seq(Cell(Nat))
    BY <1>1, ChainProperties
  <2>2. Len(list) > 1 => list[p] # << >>
    BY <1>1 DEF WellFormedChain
  <2> QED BY <1>1, <2>1, <2>2, EmptySeq DEF AllKeys
<1>4. es \in Seq(Cell(Nat))
  BY <1>1, <1>3, InsertSortedProperties
<1>5. p > 1 => es[1].dst = nodes[n].entries[1].dst
  <2> SUFFICES ASSUME p > 1 PROVE es[1].dst = nodes[n].entries[1].dst
    OBVIOUS
  <2>1. lo[n] = list[p][1].dst /\ lo[n] <= e.dst
    BY <1>1 DEF LinksOK, LeafOK, Within
  <2>2. Len(list[p]) >= 1 /\ Len(list[p]) \in Nat /\ DOMAIN list[p] = 1 .. Len(list[p])
    BY <1>1, <1>3, LenProperties
  <2>3. list[p][1].dst \in Keys(list[p]) /\ list[p][1].dst \in Nat
    BY <1>3, <2>2, CellProperties DEF Keys
  <2>4. list[p][1].dst < e.dst
    BY <1>1, <1>3, <2>1, <2>3
  <2> QED BY <1>1, <1>3, <2>2, <2>4, InsertKeepsFirst
<1>6. InsertIntoLeaf(list, p, e) = [list EXCEPT ![p] = es]
  BY <1>1 DEF InsertIntoLeaf
<1>7. WellFormedChain(Nat, InsertIntoLeaf(list, p, e))
  BY <1>1, <1>2, InsertWithoutSplit
<1>8. after = Refilled(nodes, n, es)
  OBVIOUS
<1> HIDE DEF es
<1>9. PICK grown : grown = InsertIntoLeaf(list, p, e)
  OBVIOUS
<1>10. LeafRefilled(nodes, lo, chain, after, p, n, es, grown)
  BY <1>4, <1>5, <1>6, <1>7, <1>8, <1>9 DEF LeafRefilled
<1>11. /\ Shape(after, root, first, key, None, None, lo, hi, height, chain)
       /\ EntriesOf(after, chain) = grown
  BY <1>10, LeafReplaced
<1> QED BY <1>2, <1>9, <1>11

-----------------------------------------------------------------------------
(* A leaf that splits.                                                     *)

LeafSplit(nodes, n, low, high) ==
  Append([nodes EXCEPT ![n].entries = low, ![n].next = Len(nodes) + 1],
         Leaf(high, nodes[n].next, nodes[n].parent))

\* What is at each place then.
OldAfterLeafSplit(nodes, after, n, right, low, k) ==
  /\ after[k].entries = IF k = n THEN low ELSE nodes[k].entries
  /\ after[k].next = IF k = n THEN right ELSE nodes[k].next
  /\ after[k].isLeaf = nodes[k].isLeaf
  /\ after[k].keys = nodes[k].keys
  /\ after[k].children = nodes[k].children
  /\ after[k].parent = nodes[k].parent
NewAfterLeafSplit(nodes, after, n, right, high) ==
  /\ after[right].isLeaf
  /\ after[right].entries = high
  /\ after[right].keys = << >>
  /\ after[right].children = << >>
  /\ after[right].next = nodes[n].next
  /\ after[right].parent = nodes[n].parent
IsLeafSplit(nodes, after, n, right, low, high) ==
  /\ after \in Seq(Node)
  /\ Len(after) = right
  /\ DOMAIN after = 1 .. right
  /\ \A k \in DOMAIN nodes : OldAfterLeafSplit(nodes, after, n, right, low, k)
  /\ NewAfterLeafSplit(nodes, after, n, right, high)

LEMMA LeafSplitNodes ==
  ASSUME NEW nodes \in Seq(Node), NEW n \in DOMAIN nodes,
         NEW low \in Seq(Cell(Nat)), NEW high \in Seq(Cell(Nat)),
         NEW right, right = Len(nodes) + 1
  PROVE  IsLeafSplit(nodes, LeafSplit(nodes, n, low, high), n, right, low, high)
<1> DEFINE old == [nodes EXCEPT ![n].entries = low, ![n].next = right]
           new == Leaf(high, nodes[n].next, nodes[n].parent)
           after == LeafSplit(nodes, n, low, high)
<1>1. /\ Len(nodes) \in Nat /\ DOMAIN nodes = 1 .. Len(nodes) /\ right \in Nat
      /\ \A k \in DOMAIN nodes : nodes[k] \in Node
      /\ nodes[n].next \in Nat /\ nodes[n].parent \in Nat
  BY NodeFields
<1>2. DOMAIN old = 1 .. Len(nodes)
  BY <1>1
<1>3. ASSUME NEW k \in DOMAIN nodes
      PROVE  /\ old[k] \in Node
             /\ old[k].entries = IF k = n THEN low ELSE nodes[k].entries
             /\ old[k].next = IF k = n THEN right ELSE nodes[k].next
             /\ old[k].isLeaf = nodes[k].isLeaf
             /\ old[k].keys = nodes[k].keys
             /\ old[k].children = nodes[k].children
             /\ old[k].parent = nodes[k].parent
  <2>1. nodes[k] \in Node
    BY <1>1
  <2>2. old[k] = IF k = n THEN [nodes[k] EXCEPT !.entries = low, !.next = right]
                 ELSE nodes[k]
    BY <1>1
  <2> HIDE DEF old
  <2> QED BY <1>1, <2>1, <2>2 DEF Node
<1>4. new \in Node
  BY <1>1, EmptySeq DEF Node, Leaf
<1>5. /\ new.isLeaf
      /\ new.entries = high
      /\ new.keys = << >>
      /\ new.children = << >>
      /\ new.next = nodes[n].next
      /\ new.parent = nodes[n].parent
  BY DEF Leaf
<1>6. after = Append(old, new)
  BY DEF LeafSplit
<1> HIDE DEF old, new, after
<1>7. old \in Seq(Node) /\ Len(old) = Len(nodes)
  <2>1. old = [k \in 1 .. Len(nodes) |-> old[k]]
    BY <1>2, <1>3, <1>1 DEF old
  <2>2. old \in [1 .. Len(nodes) -> Node]
    BY <1>1, <1>2, <1>3, <2>1, Zenon
  <2> QED BY <1>1, <2>2, FunctionIsSeq
<1>8. /\ after \in Seq(Node)
      /\ Len(after) = right
      /\ DOMAIN after = 1 .. right
      /\ \A k \in DOMAIN nodes : after[k] = old[k]
      /\ after[right] = new
  BY <1>1, <1>4, <1>6, <1>7, AppendProperties, LenProperties
<1>9. \A k \in DOMAIN nodes : OldAfterLeafSplit(nodes, after, n, right, low, k)
  BY <1>3, <1>8 DEF OldAfterLeafSplit
<1>10. NewAfterLeafSplit(nodes, after, n, right, high)
  BY <1>5, <1>8 DEF NewAfterLeafSplit
<1> QED BY <1>8, <1>9, <1>10 DEF IsLeafSplit, after

\* The bounds, heights and leaves once the node n has given its keys from key m
\* on to the new node right.
SplitLo(lo, right, m) == [k \in 1 .. right |-> IF k = right THEN m ELSE lo[k]]
SplitHi(hi, n, right, m) ==
  [k \in 1 .. right |-> IF k = right THEN hi[n] ELSE IF k = n THEN m ELSE hi[k]]
SplitHeight(height, n, right) ==
  [k \in 1 .. right |-> IF k = right THEN height[n] ELSE height[k]]
SplitChain(chain, p, right) ==
  [q \in 1 .. Len(chain) + 1 |->
     IF q <= p THEN chain[q] ELSE IF q = p + 1 THEN right ELSE chain[q - 1]]

\* In after, the new node right is a leaf if n is one.
KindsKept(nodes, after, n, right) ==
  /\ after \in Seq(Node)
  /\ Len(after) = right
  /\ \A k \in DOMAIN nodes : after[k].isLeaf = nodes[k].isLeaf
  /\ after[right].isLeaf = nodes[n].isLeaf

LEMMA SplitBounds ==
  ASSUME NEW nodes, NEW lo, NEW hi, NEW height, BoundsOK(nodes, lo, hi, height),
         NEW n \in DOMAIN nodes, NEW right, right = Len(nodes) + 1,
         NEW m \in Nat, lo[n] < m, Below(m, hi[n]),
         NEW after, KindsKept(nodes, after, n, right)
  PROVE  BoundsOK(after, SplitLo(lo, right, m), SplitHi(hi, n, right, m),
                  SplitHeight(height, n, right))
<1>0. /\ after \in Seq(Node) /\ Len(after) = right
      /\ \A k \in DOMAIN nodes : after[k].isLeaf = nodes[k].isLeaf
      /\ after[right].isLeaf = nodes[n].isLeaf
  BY DEF KindsKept
<1> USE <1>0
<1>1. /\ nodes \in Seq(Node) /\ Len(nodes) \in Nat /\ DOMAIN nodes = 1 .. Len(nodes)
      /\ DOMAIN after = 1 .. right /\ right \in Nat
      /\ 1 .. right = DOMAIN nodes \cup {right}
      /\ right \notin DOMAIN nodes
  BY NodeFields DEF BoundsOK
<1>2. /\ lo \in [DOMAIN nodes -> Nat] /\ hi \in [DOMAIN nodes -> Nat]
      /\ height \in [DOMAIN nodes -> Nat]
      /\ \A k \in DOMAIN nodes :
           /\ Below(lo[k], hi[k])
           /\ height[k] < Len(nodes)
           /\ nodes[k].isLeaf <=> height[k] = 0
  BY DEF BoundsOK
<1> DEFINE lo2 == SplitLo(lo, right, m)
           hi2 == SplitHi(hi, n, right, m)
           height2 == SplitHeight(height, n, right)
<1>5. /\ \A k \in DOMAIN nodes : /\ lo2[k] = lo[k]
                                 /\ hi2[k] = IF k = n THEN m ELSE hi[k]
                                 /\ height2[k] = height[k]
      /\ lo2[right] = m /\ hi2[right] = hi[n] /\ height2[right] = height[n]
  BY <1>1 DEF SplitLo, SplitHi, SplitHeight
<1> HIDE DEF lo2, hi2, height2
<1>3. ASSUME NEW k \in 1 .. right
      PROVE  /\ lo2[k] \in Nat /\ hi2[k] \in Nat /\ height2[k] \in Nat
             /\ Below(lo2[k], hi2[k])
             /\ height2[k] < Len(after)
             /\ after[k].isLeaf <=> height2[k] = 0
  <2>0. /\ lo[n] \in Nat /\ hi[n] \in Nat /\ height[n] \in Nat
        /\ Len(after) = Len(nodes) + 1 /\ Len(nodes) \in Nat
    BY <1>1, <1>2
  <2>1. CASE k = right
    <3>1. height[n] < Len(nodes) /\ (nodes[n].isLeaf <=> height[n] = 0)
      BY <1>2
    <3> QED BY <1>5, <2>0, <2>1, <3>1
  <2>2. CASE k \in DOMAIN nodes
    <3>1. /\ lo[k] \in Nat /\ hi[k] \in Nat /\ height[k] \in Nat
          /\ Below(lo[k], hi[k])
          /\ height[k] < Len(nodes) /\ (nodes[k].isLeaf <=> height[k] = 0)
      BY <1>2, <2>2
    <3>2. /\ lo2[k] = lo[k]
          /\ hi2[k] = IF k = n THEN m ELSE hi[k]
          /\ height2[k] = height[k]
          /\ after[k].isLeaf = nodes[k].isLeaf
      BY <1>5, <2>2
    <3>3. Below(lo2[k], hi2[k])
      BY <2>0, <3>1, <3>2 DEF Below
    <3> QED BY <2>0, <3>1, <3>2, <3>3
  <2> QED BY <1>1, <2>1, <2>2
<1>4. /\ SplitLo(lo, right, m) \in [1 .. right -> Nat]
      /\ SplitHi(hi, n, right, m) \in [1 .. right -> Nat]
      /\ SplitHeight(height, n, right) \in [1 .. right -> Nat]
  BY <1>3 DEF lo2, hi2, height2, SplitLo, SplitHi, SplitHeight
<1> QED BY <1>1, <1>3, <1>4 DEF BoundsOK, lo2, hi2, height2

\* The p-th leaf, n, keeps low and gives high, from key m on, to right.
LeafSplits(nodes, chain, p, n, right, m, after, low, high) ==
  /\ p \in 1 .. Len(chain)
  /\ n = chain[p]
  /\ right = Len(nodes) + 1
  /\ m = high[1].dst
  /\ p > 1 => low[1].dst = nodes[n].entries[1].dst
  /\ IsLeafSplit(nodes, after, n, right, low, high)

\* The leaves after a split: what they hold, and how they are linked.
LEMMA SplitLinks ==
  ASSUME NEW nodes \in Seq(Node), NEW first, NEW lo, NEW hi, NEW chain,
         LinksOK(nodes, first, lo, hi, chain), LeavesOK(nodes, chain),
         NEW p, NEW n, NEW right, NEW m, NEW after, NEW low, NEW high,
         LeafSplits(nodes, chain, p, n, right, m, after, low, high)
  PROVE  /\ LinksOK(after, first, SplitLo(lo, right, m), SplitHi(hi, n, right, m),
                    SplitChain(chain, p, right))
         /\ LeavesOK(after, SplitChain(chain, p, right))
         /\ EntriesOf(after, SplitChain(chain, p, right)) =
              [q \in 1 .. Len(chain) + 1 |->
                 IF q < p THEN EntriesOf(nodes, chain)[q]
                 ELSE IF q = p THEN low
                 ELSE IF q = p + 1 THEN high
                 ELSE EntriesOf(nodes, chain)[q - 1]]
<1> DEFINE links == SplitChain(chain, p, right)
<1>0. /\ p \in 1 .. Len(chain)
      /\ n = chain[p]
      /\ right = Len(nodes) + 1
      /\ m = high[1].dst
      /\ p > 1 => low[1].dst = nodes[n].entries[1].dst
      /\ IsLeafSplit(nodes, after, n, right, low, high)
  BY DEF LeafSplits
<1> USE <1>0
<1>1. /\ Len(chain) \in Nat
      /\ \A q \in 1 .. Len(chain) : chain[q] \in DOMAIN nodes
      /\ chain[1] = first
      /\ \A q \in 1 .. Len(chain) : LeafOK(nodes, lo, hi, chain, q)
      /\ \A q, s \in 1 .. Len(chain) : chain[q] = chain[s] => q = s
      /\ n \in DOMAIN nodes
      /\ nodes[n].isLeaf
  BY LenProperties, ElementOfSeq DEF LinksOK, LeafOK
<1>2. /\ Len(nodes) \in Nat /\ DOMAIN nodes = 1 .. Len(nodes) /\ right \in Nat
      /\ right \notin DOMAIN nodes
  BY NodeFields
<1>3. IsLeafSplit(nodes, after, n, right, low, high)
  BY <1>0
<1>10. \A q \in 1 .. Len(chain) : EntriesOf(nodes, chain)[q] = nodes[chain[q]].entries
  BY <1>1, EntriesOfChain
<1>4. /\ Len(links) = Len(chain) + 1
      /\ \A q \in 1 .. Len(chain) + 1 :
           links[q] = IF q <= p THEN chain[q] ELSE IF q = p + 1 THEN right ELSE chain[q - 1]
  BY <1>1 DEF SplitChain
<1>5. links \in Seq(1 .. right)
  <2>1. ASSUME NEW q \in 1 .. Len(chain) + 1 PROVE links[q] \in 1 .. right
    <3>1. q <= p \/ q = p + 1 \/ (q > p + 1 /\ q - 1 \in 1 .. Len(chain))
      BY <1>1
    <3> QED BY <1>1, <1>2, <1>4, <3>1
  <2>2. links = [q \in 1 .. Len(chain) + 1 |-> links[q]]
    BY DEF SplitChain
  <2> HIDE DEF links
  <2>3. links \in [1 .. Len(chain) + 1 -> 1 .. right]
    BY <2>1, <2>2, Zenon
  <2>4. Len(chain) + 1 \in Nat
    BY <1>1
  <2> QED BY <2>3, <2>4, FunctionIsSeq
<1> HIDE DEF links
<1>6. \A q, s \in 1 .. Len(chain) + 1 : links[q] = links[s] => q = s
  <2> DEFINE origin(t) == IF t <= p THEN t ELSE t - 1
  <2>1. ASSUME NEW t \in 1 .. Len(chain) + 1
        PROVE  /\ t = p + 1 => links[t] = right
               /\ t # p + 1 => /\ origin(t) \in 1 .. Len(chain)
                              /\ links[t] = chain[origin(t)]
                              /\ links[t] # right
    <3>1. t # p + 1 => origin(t) \in 1 .. Len(chain)
      BY <1>1, SMTT(40)
    <3>2. links[t] = IF t = p + 1 THEN right ELSE chain[origin(t)]
      BY <1>4
    <3>3. t # p + 1 => chain[origin(t)] \in DOMAIN nodes
      BY <1>1, <3>1
    <3> QED BY <1>2, <3>1, <3>2, <3>3
  <2>2. ASSUME NEW q \in 1 .. Len(chain) + 1, NEW s \in 1 .. Len(chain) + 1,
               links[q] = links[s], q # p + 1, s # p + 1
        PROVE  q = s
    <3>1. origin(q) = origin(s)
      <4> HIDE DEF origin
      <4>1. /\ origin(q) \in 1 .. Len(chain) /\ origin(s) \in 1 .. Len(chain)
            /\ chain[origin(q)] = chain[origin(s)]
        BY <2>1, <2>2
      <4> QED BY <1>1, <4>1
    <3> QED BY <2>2, <3>1
  <2> QED BY <2>1, <2>2
<1>7. EntriesOf(after, links) =
              [q \in 1 .. Len(chain) + 1 |->
                 IF q < p THEN EntriesOf(nodes, chain)[q]
                 ELSE IF q = p THEN low
                 ELSE IF q = p + 1 THEN high
                 ELSE EntriesOf(nodes, chain)[q - 1]]
  <2>1. ASSUME NEW q \in 1 .. Len(chain) + 1
        PROVE  after[links[q]].entries =
                 IF q < p THEN EntriesOf(nodes, chain)[q]
                 ELSE IF q = p THEN low
                 ELSE IF q = p + 1 THEN high
                 ELSE EntriesOf(nodes, chain)[q - 1]
    <3>1. CASE q < p
      <4>1. q \in 1 .. Len(chain) /\ q # p
        BY <1>1, <3>1
      <4>2. chain[q] # n /\ chain[q] \in DOMAIN nodes /\ links[q] = chain[q]
        BY <1>1, <1>4, <3>1, <4>1
      <4>3. after[chain[q]].entries = nodes[chain[q]].entries
        BY <1>3, <4>2 DEF IsLeafSplit, OldAfterLeafSplit
      <4> QED BY <1>10, <3>1, <4>1, <4>2, <4>3
    <3>2. CASE q = p
      <4>1. links[q] = n /\ n \in DOMAIN nodes
        BY <1>1, <1>4, <3>2
      <4>2. after[n].entries = low
        BY <1>3, <4>1 DEF IsLeafSplit, OldAfterLeafSplit
      <4> QED BY <3>2, <4>1, <4>2
    <3>3. CASE q = p + 1
      <4>1. links[q] = right
        BY <1>4, <3>3
      <4>2. after[right].entries = high
        BY <1>3 DEF IsLeafSplit, NewAfterLeafSplit
      <4> QED BY <3>3, <4>1, <4>2
    <3>4. CASE q > p + 1
      <4>1. q - 1 \in 1 .. Len(chain) /\ q - 1 # p
        BY <1>1, <3>4
      <4>2. chain[q - 1] # n /\ chain[q - 1] \in DOMAIN nodes
        BY <1>1, <4>1
      <4>3. links[q] = chain[q - 1]
        BY <1>4, <3>4
      <4>4. after[chain[q - 1]].entries = nodes[chain[q - 1]].entries
        BY <1>3, <4>2 DEF IsLeafSplit, OldAfterLeafSplit
      <4>5. after[links[q]].entries = EntriesOf(nodes, chain)[q - 1]
        BY <1>10, <4>1, <4>3, <4>4
      <4> QED BY <3>4, <4>5
    <3> QED BY <1>1, <3>1, <3>2, <3>3, <3>4
  <2> QED BY <1>4, <2>1, Zenon DEF EntriesOf
<1>8. LeavesOK(after, links)
  <2> SUFFICES ASSUME NEW k \in 1 .. right, after[k].isLeaf
               PROVE  /\ after[k].keys = << >>
                      /\ after[k].children = << >>
                      /\ \E q \in 1 .. Len(links) : links[q] = k
    BY <1>3 DEF LeavesOK, IsLeafSplit
  <2>1. CASE k = right
    <3>1. p + 1 \in 1 .. Len(links) /\ links[p + 1] = right
      BY <1>1, <1>4
    <3> QED BY <1>3, <2>1, <3>1 DEF IsLeafSplit, NewAfterLeafSplit
  <2>2. CASE k \in DOMAIN nodes
    <3>1. /\ nodes[k].isLeaf
          /\ after[k].keys = nodes[k].keys
          /\ after[k].children = nodes[k].children
      BY <1>3, <2>2 DEF IsLeafSplit, OldAfterLeafSplit
    <3>2. nodes[k].keys = << >> /\ nodes[k].children = << >>
      BY <2>2, <3>1 DEF LeavesOK
    <3>3. PICK q \in 1 .. Len(chain) : chain[q] = k
      BY <2>2, <3>1 DEF LeavesOK
    <3>4. \E s \in 1 .. Len(links) : links[s] = k
      <4>1. CASE q <= p
        <5>1. q \in 1 .. Len(links) /\ q \in 1 .. Len(chain) + 1
          BY <1>1, <1>4
        <5>2. links[q] = chain[q]
          BY <1>4, <4>1, <5>1
        <5> QED BY <3>3, <5>1, <5>2
      <4>2. CASE q > p
        <5>1. q + 1 \in 1 .. Len(links) /\ q + 1 > p + 1 /\ (q + 1) - 1 = q
          BY <1>1, <1>4, <4>2
        <5>2. links[q + 1] = chain[q]
          BY <1>1, <1>4, <5>1
        <5> QED BY <3>3, <5>1, <5>2
      <4> QED BY <1>1, <4>1, <4>2
    <3> QED BY <3>1, <3>2, <3>4
  <2> QED BY <1>2, <2>1, <2>2
<1>9. LinksOK(after, first, SplitLo(lo, right, m), SplitHi(hi, n, right, m), links)
  <2> DEFINE lo2 == SplitLo(lo, right, m)
             hi2 == SplitHi(hi, n, right, m)
  <2>1. /\ \A k \in DOMAIN nodes : lo2[k] = lo[k]
        /\ \A k \in DOMAIN nodes : hi2[k] = IF k = n THEN m ELSE hi[k]
        /\ lo2[right] = m
        /\ hi2[right] = hi[n]
    BY <1>2 DEF SplitLo, SplitHi
  <2> HIDE DEF lo2, hi2
  <2>2. ASSUME NEW q \in 1 .. Len(chain) + 1 PROVE LeafOK(after, lo2, hi2, links, q)
    <3>0. /\ Len(chain) \in Nat /\ p \in Nat /\ Len(links) = Len(chain) + 1
          /\ 1 <= p /\ p <= Len(chain)
      BY <1>1, <1>4
    <3>1. CASE q < p
      <4>1. /\ q \in 1 .. Len(chain) /\ q + 1 \in 1 .. Len(chain) /\ q # p
            /\ q # Len(chain) /\ q # Len(links)
        BY <3>0, <3>1
      <4>2. links[q] = chain[q] /\ links[q + 1] = chain[q + 1]
        BY <3>0, <1>4, <3>1
      <4>3. chain[q] # n /\ chain[q] \in DOMAIN nodes /\ chain[q + 1] \in DOMAIN nodes
        BY <1>1, <4>1
      <4>4. LeafOK(nodes, lo, hi, chain, q)
        BY <1>1, <4>1
      <4>5. /\ after[chain[q]].isLeaf = nodes[chain[q]].isLeaf
            /\ after[chain[q]].next = nodes[chain[q]].next
            /\ after[chain[q]].entries = nodes[chain[q]].entries
            /\ lo2[chain[q]] = lo[chain[q]]
            /\ lo2[chain[q + 1]] = lo[chain[q + 1]]
            /\ hi2[chain[q]] = hi[chain[q]]
        BY <1>3, <2>1, <4>3 DEF IsLeafSplit, OldAfterLeafSplit
      <4> QED BY <4>1, <4>2, <4>4, <4>5 DEF LeafOK
    <3>2. CASE q = p
      <4>1. links[q] = n /\ links[q + 1] = right
        BY <3>0, <1>4, <3>2
      <4>2. LeafOK(nodes, lo, hi, chain, p) /\ n \in DOMAIN nodes
        BY <1>1
      <4>3. q # Len(links) /\ (q = 1 \/ p > 1)
        BY <3>0, <3>2
      <4>4. /\ after[n].isLeaf = nodes[n].isLeaf
            /\ after[n].next = right
            /\ after[n].entries = low
            /\ lo2[n] = lo[n]
            /\ lo2[right] = m
            /\ hi2[n] = m
        BY <1>3, <2>1, <4>2 DEF IsLeafSplit, OldAfterLeafSplit
      <4> QED BY <3>0, <3>2, <4>1, <4>2, <4>3, <4>4 DEF LeafOK
    <3>3. CASE q = p + 1
      <4>1. /\ links[q] = right
            /\ q = Len(links) <=> p = Len(chain)
            /\ q # 1
        BY <3>0, <1>4, <3>3
      <4>2. p # Len(chain) => links[q + 1] = chain[p + 1] /\ chain[p + 1] \in DOMAIN nodes
        <5> SUFFICES ASSUME p # Len(chain)
                     PROVE  links[q + 1] = chain[p + 1] /\ chain[p + 1] \in DOMAIN nodes
          OBVIOUS
        <5>1. /\ p + 1 \in 1 .. Len(chain) /\ q + 1 \in 1 .. Len(chain) + 1
              /\ ~(q + 1 <= p) /\ q + 1 # p + 1 /\ (q + 1) - 1 = p + 1
          BY <3>0, <3>3
        <5>2. links[q + 1] = chain[(q + 1) - 1]
          BY <1>4, <5>1
        <5> QED BY <1>1, <5>1, <5>2
      <4>3. LeafOK(nodes, lo, hi, chain, p)
        BY <1>1
      <4>4. /\ after[right].isLeaf
            /\ after[right].next = nodes[n].next
            /\ after[right].entries = high
            /\ lo2[right] = m
            /\ hi2[right] = hi[n]
            /\ p # Len(chain) => lo2[chain[p + 1]] = lo[chain[p + 1]]
        BY <1>3, <2>1, <4>2 DEF IsLeafSplit, NewAfterLeafSplit
      <4> QED BY <4>1, <4>2, <4>3, <4>4 DEF LeafOK
    <3>4. CASE q > p + 1
      <4>1. /\ q - 1 \in 1 .. Len(chain) /\ q - 1 # p /\ q # 1 /\ q - 1 # 1
            /\ (q - 1) + 1 = q
            /\ q = Len(links) <=> q - 1 = Len(chain)
            /\ ~(q <= p) /\ q # p + 1
        BY <3>0, <3>4
      <4>2. links[q] = chain[q - 1]
        BY <1>4, <4>1
      <4>3. q - 1 # Len(chain) => links[q + 1] = chain[q] /\ chain[q] \in DOMAIN nodes
        <5> SUFFICES ASSUME q - 1 # Len(chain)
                     PROVE  links[q + 1] = chain[q] /\ chain[q] \in DOMAIN nodes
          OBVIOUS
        <5>1. /\ q \in 1 .. Len(chain) /\ q + 1 \in 1 .. Len(chain) + 1
              /\ ~(q + 1 <= p) /\ q + 1 # p + 1 /\ (q + 1) - 1 = q
          <6>1. q \in Nat /\ 1 <= q /\ q <= Len(chain) + 1 /\ q - 1 < Len(chain)
            <7>1. q \in Nat /\ 1 <= q /\ q <= Len(chain) + 1
              BY <3>0
            <7>2. \A x, y \in Nat : x <= y /\ x # y => x < y
              OBVIOUS
            <7>3. q - 1 \in Nat /\ Len(chain) \in Nat /\ q - 1 <= Len(chain)
              BY <3>0, <7>1
            <7> QED BY <7>1, <7>2, <7>3, Zenon
          <6>2. q \in 1 .. Len(chain) /\ q + 1 \in 1 .. Len(chain) + 1
            BY <3>0, <6>1
          <6>3. ~(q + 1 <= p) /\ q + 1 # p + 1
            BY <3>0, <3>4, <6>1
          <6> QED BY <6>1, <6>2, <6>3
        <5>2. links[q + 1] = chain[(q + 1) - 1]
          BY <1>4, <5>1
        <5> QED BY <1>1, <5>1, <5>2
      <4>4. chain[q - 1] # n /\ chain[q - 1] \in DOMAIN nodes
        BY <1>1, <4>1
      <4>5. LeafOK(nodes, lo, hi, chain, q - 1)
        BY <1>1, <4>1
      <4>6. /\ after[chain[q - 1]].isLeaf = nodes[chain[q - 1]].isLeaf
            /\ after[chain[q - 1]].next = nodes[chain[q - 1]].next
            /\ after[chain[q - 1]].entries = nodes[chain[q - 1]].entries
            /\ lo2[chain[q - 1]] = lo[chain[q - 1]]
            /\ hi2[chain[q - 1]] = hi[chain[q - 1]]
            /\ q - 1 # Len(chain) => lo2[chain[q]] = lo[chain[q]]
        BY <1>3, <2>1, <4>3, <4>4 DEF IsLeafSplit, OldAfterLeafSplit
      <4> QED BY <4>1, <4>2, <4>3, <4>5, <4>6 DEF LeafOK
    <3> QED BY <3>0, <3>1, <3>2, <3>3, <3>4
  <2>3. links[1] = first /\ Len(links) >= 1 /\ links \in Seq(DOMAIN after)
    <3>1. DOMAIN after = 1 .. right
      BY <1>3 DEF IsLeafSplit
    <3>2. links[1] = first /\ Len(links) >= 1
      BY <1>1, <1>4
    <3> QED BY <1>5, <3>1, <3>2
  <2>4. LinksOK(after, first, lo2, hi2, links)
    BY <1>4, <1>6, <2>2, <2>3 DEF LinksOK
  <2> QED BY <2>4 DEF lo2, hi2
<1> QED BY <1>7, <1>8, <1>9 DEF links

\* The values of the bounds and heights after a split.
LEMMA SplitValues ==
  ASSUME NEW nodes \in Seq(Node), NEW n \in DOMAIN nodes,
         NEW right, right = Len(nodes) + 1,
         NEW lo, NEW hi, NEW height, NEW m
  PROVE  /\ \A k \in DOMAIN nodes :
              /\ SplitLo(lo, right, m)[k] = lo[k]
              /\ SplitHi(hi, n, right, m)[k] = IF k = n THEN m ELSE hi[k]
              /\ SplitHeight(height, n, right)[k] = height[k]
              /\ SeenHi(SplitHi(hi, n, right, m), n, right, k) = hi[k]
              /\ k # right /\ k # None /\ k \in 1 .. right
         /\ SplitLo(lo, right, m)[right] = m
         /\ SplitHi(hi, n, right, m)[right] = hi[n]
         /\ SplitHeight(height, n, right)[right] = height[n]
         /\ right \in Nat /\ right # None /\ 1 .. right = DOMAIN nodes \cup {right}
<1>1. /\ Len(nodes) \in Nat /\ DOMAIN nodes = 1 .. Len(nodes) /\ right \in Nat
      /\ 1 .. right = DOMAIN nodes \cup {right}
      /\ \A k \in DOMAIN nodes : k # right /\ k # None /\ k \in 1 .. right
      /\ right \in 1 .. right /\ right # None
  BY NodeFields DEF None
<1>2. /\ \A k \in DOMAIN nodes :
              /\ SplitLo(lo, right, m)[k] = lo[k]
              /\ SplitHi(hi, n, right, m)[k] = IF k = n THEN m ELSE hi[k]
              /\ SplitHeight(height, n, right)[k] = height[k]
         /\ SplitLo(lo, right, m)[right] = m
         /\ SplitHi(hi, n, right, m)[right] = hi[n]
         /\ SplitHeight(height, n, right)[right] = height[n]
  BY <1>1 DEF SplitLo, SplitHi, SplitHeight
<1>3. \A k \in DOMAIN nodes : SeenHi(SplitHi(hi, n, right, m), n, right, k) = hi[k]
  BY <1>2 DEF SeenHi
<1> QED BY <1>1, <1>2, <1>3

\* The inner nodes do not notice that a leaf splits.
LEMMA LeafSplitTree ==
  ASSUME NEW nodes \in Seq(Node), NEW root, NEW lo, NEW hi, NEW height,
         InnerOK(nodes, lo, hi, height, None, None),
         ParentsOK(nodes, root, lo, hi, None, None),
         NEW n \in DOMAIN nodes, nodes[n].isLeaf,
         NEW right, right = Len(nodes) + 1, NEW m, lo[n] < m,
         NEW after, NEW low, NEW high,
         IsLeafSplit(nodes, after, n, right, low, high)
  PROVE  /\ InnerOK(after, SplitLo(lo, right, m), SplitHi(hi, n, right, m),
                    SplitHeight(height, n, right), n, right)
         /\ ParentsOK(after, root, SplitLo(lo, right, m), SplitHi(hi, n, right, m),
                      n, right)
         /\ SplitOK(after, root, m, SplitLo(lo, right, m), SplitHi(hi, n, right, m),
                    SplitHeight(height, n, right), n, right)
<1> DEFINE lo2 == SplitLo(lo, right, m)
           hi2 == SplitHi(hi, n, right, m)
           height2 == SplitHeight(height, n, right)
<1>1. /\ \A k \in DOMAIN nodes :
              /\ lo2[k] = lo[k]
              /\ hi2[k] = IF k = n THEN m ELSE hi[k]
              /\ height2[k] = height[k]
              /\ SeenHi(hi2, n, right, k) = hi[k]
              /\ SeenHi(hi, None, None, k) = hi[k]
              /\ k # right /\ k # None /\ k \in 1 .. right
      /\ lo2[right] = m
      /\ height2[right] = height[n]
      /\ right # None /\ 1 .. right = DOMAIN nodes \cup {right}
  <2>1. \A k \in DOMAIN nodes :
              /\ lo2[k] = lo[k]
              /\ hi2[k] = IF k = n THEN m ELSE hi[k]
              /\ height2[k] = height[k]
              /\ SeenHi(hi2, n, right, k) = hi[k]
              /\ k # right /\ k # None /\ k \in 1 .. right
    BY SplitValues, SMTT(40)
  <2>2. /\ lo2[right] = m
        /\ hi2[right] = hi[n]
        /\ height2[right] = height[n]
        /\ right \in Nat /\ right # None /\ 1 .. right = DOMAIN nodes \cup {right}
    <3>1. right \in Nat /\ right # None /\ 1 .. right = DOMAIN nodes \cup {right}
      BY NodeFields DEF None
    <3> QED BY <3>1 DEF SplitLo, SplitHi, SplitHeight
  <2> HIDE DEF lo2, hi2, height2
  <2>3. \A k \in DOMAIN nodes : SeenHi(hi, None, None, k) = hi[k]
    BY <2>1 DEF SeenHi
  <2> QED BY <2>1, <2>2, <2>3
<1> HIDE DEF lo2, hi2, height2
<1>2. /\ DOMAIN after = 1 .. right
      /\ after[right].isLeaf
      /\ after[right].parent = nodes[n].parent
      /\ \A k \in DOMAIN nodes :
           /\ k # n => after[k].entries = nodes[k].entries
           /\ after[k].isLeaf = nodes[k].isLeaf
           /\ after[k].keys = nodes[k].keys
           /\ after[k].children = nodes[k].children
           /\ after[k].parent = nodes[k].parent
  BY DEF IsLeafSplit, OldAfterLeafSplit, NewAfterLeafSplit
<1>3. InnerOK(after, lo2, hi2, height2, n, right)
  <2>1. ASSUME NEW k \in DOMAIN nodes, NEW i, ~nodes[k].isLeaf,
               ChildOK(nodes, lo, hi, height, None, None, k, i)
        PROVE  ChildOK(after, lo2, hi2, height2, n, right, k, i)
    <3>1. k # n /\ lo2[k] = lo[k] /\ hi2[k] = hi[k] /\ height2[k] = height[k]
          /\ after[k].keys = nodes[k].keys /\ after[k].children = nodes[k].children
      BY <1>1, <1>2, <2>1
    <3>2. PICK c \in DOMAIN nodes : c = nodes[k].children[i]
      BY <2>1 DEF ChildOK
    <3>3. /\ c \in DOMAIN after
          /\ lo2[c] = lo[c] /\ height2[c] = height[c]
          /\ SeenHi(hi2, n, right, c) = SeenHi(hi, None, None, c)
          /\ after[c].parent = nodes[c].parent
      BY <1>1, <1>2
    <3> QED BY <2>1, <3>1, <3>2, <3>3 DEF ChildOK
  <2>2. ASSUME NEW k \in DOMAIN after, ~after[k].isLeaf
        PROVE  /\ after[k].entries = << >>
               /\ KeysOK(after[k].keys, lo2[k], hi2[k])
               /\ Len(after[k].children) = Len(after[k].keys) + 1
               /\ \A i \in 1 .. Len(after[k].keys) + 1 :
                    ChildOK(after, lo2, hi2, height2, n, right, k, i)
    <3>1. k \in DOMAIN nodes /\ ~nodes[k].isLeaf /\ k # n
      BY <1>1, <1>2, <2>2
    <3>2. /\ after[k].entries = nodes[k].entries
          /\ after[k].keys = nodes[k].keys
          /\ after[k].children = nodes[k].children
          /\ lo2[k] = lo[k] /\ hi2[k] = hi[k]
      BY <1>1, <1>2, <3>1
    <3> QED BY <2>1, <3>1, <3>2 DEF InnerOK
  <2> QED BY <2>2 DEF InnerOK
<1>4. ParentsOK(after, root, lo2, hi2, n, right)
  <2>1. ASSUME NEW k \in DOMAIN after, k # root, k # right
        PROVE  /\ after[k].parent \in DOMAIN after
               /\ ~after[after[k].parent].isLeaf
               /\ \E i \in 1 .. Len(after[after[k].parent].children) :
                    after[after[k].parent].children[i] = k
    <3>1. k \in DOMAIN nodes /\ k # None
      BY <1>1, <1>2, <2>1
    <3>2. /\ nodes[k].parent \in DOMAIN nodes
          /\ ~nodes[nodes[k].parent].isLeaf
          /\ \E i \in 1 .. Len(nodes[nodes[k].parent].children) :
               nodes[nodes[k].parent].children[i] = k
      BY <2>1, <3>1 DEF ParentsOK
    <3>3. PICK P \in DOMAIN nodes : P = nodes[k].parent
      BY <3>2
    <3>4. /\ after[k].parent = P
          /\ after[P].isLeaf = nodes[P].isLeaf
          /\ after[P].children = nodes[P].children
          /\ P \in DOMAIN after
      BY <1>1, <1>2, <3>1, <3>3
    <3> QED BY <3>2, <3>3, <3>4
  <2>2. /\ root \in DOMAIN after /\ after[root].parent = None
        /\ lo2[root] = 0 /\ SeenHi(hi2, n, right, root) = 0
    BY <1>1, <1>2 DEF ParentsOK
  <2> QED BY <2>1, <2>2 DEF ParentsOK
<1>5. SplitOK(after, root, m, lo2, hi2, height2, n, right)
  <2>1. root \in DOMAIN nodes
    BY DEF ParentsOK
  <2> QED BY <1>1, <1>2, <2>1 DEF SplitOK
<1> QED BY <1>3, <1>4, <1>5 DEF lo2, hi2, height2

\* bplusInsertLeaf in a leaf that splits.
LEMMA InsertSplit ==
  ASSUME NEW nodes, NEW root, NEW first, NEW key, NEW lo, NEW hi, NEW height, NEW chain,
         Shape(nodes, root, first, key, None, None, lo, hi, height, chain),
         NEW p \in 1 .. Len(chain), NEW n, n = chain[p],
         NEW e \in Cell(Nat), Within(e.dst, lo, hi, n),
         NEW list, list = EntriesOf(nodes, chain),
         e.dst \notin AllKeys(list), Splits(nodes[n].entries),
         NEW es, es = InsertSorted(nodes[n].entries, e),
         NEW right, right = Len(nodes) + 1,
         NEW after, after = LeafSplit(nodes, n, LeftHalf(es), RightHalf(es)),
         NEW m, m = RightHalf(es)[1].dst
  PROVE  /\ p = Route(list, e.dst)
         /\ Shape(after, root, first, m, n, right, SplitLo(lo, right, m),
                  SplitHi(hi, n, right, m), SplitHeight(height, n, right),
                  SplitChain(chain, p, right))
         /\ EntriesOf(after, SplitChain(chain, p, right)) = InsertIntoLeaf(list, p, e)
         /\ m \in Nat
         /\ LeftHalf(es) \in Seq(Cell(Nat)) /\ RightHalf(es) \in Seq(Cell(Nat))
<1> DEFINE low == LeftHalf(es)
           high == RightHalf(es)
           lo2 == SplitLo(lo, right, m)
           hi2 == SplitHi(hi, n, right, m)
           height2 == SplitHeight(height, n, right)
           links == SplitChain(chain, p, right)
           grown == InsertIntoLeaf(list, p, e)
<1>1. /\ LinksOK(nodes, first, lo, hi, chain)
      /\ BoundsOK(nodes, lo, hi, height)
      /\ InnerOK(nodes, lo, hi, height, None, None)
      /\ ParentsOK(nodes, root, lo, hi, None, None)
      /\ LeavesOK(nodes, chain)
      /\ WellFormedChain(Nat, list)
      /\ Len(chain) \in Nat /\ Len(list) = Len(chain)
      /\ list[p] = nodes[n].entries
      /\ e.dst \in Nat
      /\ nodes \in Seq(Node)
  <2>1. /\ LinksOK(nodes, first, lo, hi, chain)
        /\ BoundsOK(nodes, lo, hi, height)
        /\ InnerOK(nodes, lo, hi, height, None, None)
        /\ ParentsOK(nodes, root, lo, hi, None, None)
        /\ LeavesOK(nodes, chain)
        /\ WellFormedChain(Nat, list)
    BY DEF Shape
  <2>2. Len(chain) \in Nat /\ nodes \in Seq(Node)
    BY <2>1, LenProperties DEF LinksOK, BoundsOK
  <2>3. Len(list) = Len(chain) /\ list[p] = nodes[n].entries
    BY <2>2, EntriesOfChain
  <2>4. e.dst \in Nat
    BY CellProperties
  <2> QED BY <2>1, <2>2, <2>3, <2>4
<1>2. /\ n \in DOMAIN nodes
      /\ nodes[n].isLeaf
      /\ LeafOK(nodes, lo, hi, chain, p)
      /\ DOMAIN chain = 1 .. Len(chain)
  BY <1>1, LenProperties, ElementOfSeq DEF LinksOK, LeafOK
<1>3. p = Route(list, e.dst)
  BY <1>1, LeafOfRoute
<1>4. /\ es \in Seq(Cell(Nat)) /\ Ascending(es)
      /\ Len(es) = Len(list[p]) + 1 /\ Len(list[p]) \in Nat
  <2>1. e.dst \notin Keys(list[p])
    <3>1. DOMAIN list = 1 .. Len(list)
      BY <1>1, ChainProperties
    <3> QED BY <1>1, <3>1 DEF AllKeys
  <2>2. p \in 1 .. Len(list)
    BY <1>1
  <2> QED BY <1>1, <2>1, <2>2, GrownLeaf
<1>5. Len(es) >= 2 /\ Len(es) \in Nat
  BY <1>1, <1>4, BPlusTreeOrderAssumption DEF Splits
<1>6. /\ low \in Seq(Cell(Nat)) /\ high \in Seq(Cell(Nat))
      /\ Len(low) \in 1 .. Len(es) - 1 /\ Len(high) \in 1 .. Len(es) - 1
      /\ low[1] = es[1] /\ high[1] = es[Len(low) + 1]
  <2>1. /\ low \in Seq(Cell(Nat)) /\ high \in Seq(Cell(Nat))
        /\ Len(low) \in 1 .. Len(es) - 1 /\ Len(high) \in 1 .. Len(es) - 1
        /\ \A i \in 1 .. Len(low) : low[i] = es[i]
        /\ \A i \in 1 .. Len(high) : high[i] = es[Len(low) + i]
    BY <1>4, <1>5, HalvesProperties
  <2> HIDE DEF low, high
  <2>2. 1 \in 1 .. Len(low) /\ 1 \in 1 .. Len(high)
    BY <1>5, <2>1
  <2> QED BY <2>1, <2>2
<1> HIDE DEF low, high
<1>7. m \in Nat /\ es[1].dst \in Nat /\ es[1].dst < m
  <2>1. /\ 1 \in DOMAIN es /\ Len(low) + 1 \in DOMAIN es /\ 1 < Len(low) + 1
        /\ es[1].dst \in Nat /\ es[Len(low) + 1].dst \in Nat
    BY <1>4, <1>5, <1>6, CellProperties, LenProperties, SMTT(40)
  <2>2. m = high[1].dst
    BY DEF high
  <2> QED BY <1>4, <1>6, <2>1, <2>2 DEF Ascending
<1>8. p > 1 => low[1].dst = nodes[n].entries[1].dst
  <2> SUFFICES ASSUME p > 1 PROVE low[1].dst = nodes[n].entries[1].dst
    OBVIOUS
  <2>1. /\ Len(list) > 1 /\ p \in 1 .. Len(list) /\ lo[n] = list[p][1].dst /\ lo[n] <= e.dst
    BY <1>1, <1>2 DEF LeafOK, Within
  <2>2. /\ list[p] \in Seq(Cell(Nat)) /\ list[p] # << >> /\ list[p][1].dst \in Keys(list[p])
        /\ Keys(list[p]) \subseteq Nat
    BY <1>1, <2>1, ChainProperties DEF WellFormedChain
  <2>3. Len(list[p]) >= 1
    BY <2>2, EmptySeq
  <2>4. e.dst \notin Keys(list[p])
    <3>1. DOMAIN list = 1 .. Len(list)
      BY <1>1, ChainProperties
    <3> QED BY <2>1, <3>1 DEF AllKeys
  <2>5. list[p][1].dst < e.dst
    BY <1>1, <2>1, <2>2, <2>4
  <2>6. es[1] = list[p][1]
    BY <1>1, <2>2, <2>3, <2>5, InsertKeepsFirst
  <2> QED BY <1>1, <1>6, <2>6
<1>9. lo[n] < m
  <2>1. CASE p = 1
    <3>1. lo[n] = 0
      BY <1>2, <2>1 DEF LeafOK
    <3> QED BY <1>7, <3>1
  <2>2. CASE p > 1
    <3>1. lo[n] = nodes[n].entries[1].dst
      <4>1. p # 1
        BY <1>1, <2>2
      <4> QED BY <1>2, <4>1 DEF LeafOK
    <3> QED BY <1>6, <1>7, <1>8, <2>2, <3>1
  <2> QED BY <2>1, <2>2
<1>10. /\ WellFormedChain(Nat, grown)
       /\ grown = [q \in 1 .. Len(chain) + 1 |->
                     IF q < p THEN list[q]
                     ELSE IF q = p THEN low
                     ELSE IF q = p + 1 THEN high
                     ELSE list[q - 1]]
  <2>1. WellFormedChain(Nat, grown)
    BY <1>1, <1>3, InsertWithSplit
  <2> QED BY <1>1, <2>1 DEF InsertIntoLeaf, low, high
<1> HIDE DEF grown
<1>11. Below(m, hi[n])
  <2>1. CASE p = Len(chain)
    BY <1>2, <2>1 DEF LeafOK, Below
  <2>2. CASE p < Len(chain)
    <3>1. /\ p + 1 \in 1 .. Len(list) /\ p + 1 \in 1 .. Len(grown)
          /\ p + 2 \in 1 .. Len(grown) /\ p + 1 < p + 2
          /\ grown[p + 1] = high /\ grown[p + 2] = list[p + 1]
      <4>1. Len(grown) = Len(chain) + 1
        BY <1>1, <1>10
      <4> QED BY <1>1, <1>10, <2>2, <4>1, SMTT(40)
    <3>2. grown[p + 1][1].dst < grown[p + 2][1].dst
      BY <1>10, <3>1, FirstKeysAscend
    <3>3. hi[n] = list[p + 1][1].dst
      <4>1. LeafOK(nodes, lo, hi, chain, p + 1) /\ p + 1 # 1 /\ p # Len(chain)
        BY <1>1, <2>2, <3>1 DEF LinksOK
      <4>2. list[p + 1] = nodes[chain[p + 1]].entries
        BY <1>1, <3>1, EntriesOfChain
      <4> QED BY <1>2, <4>1, <4>2 DEF LeafOK
    <3>4. m = high[1].dst
      BY DEF high
    <3> QED BY <3>1, <3>2, <3>3, <3>4 DEF Below
  <2> QED BY <1>1, <2>1, <2>2
<1>12. IsLeafSplit(nodes, after, n, right, low, high)
  BY <1>1, <1>2, <1>6, LeafSplitNodes DEF low, high
<1>13. BoundsOK(after, lo2, hi2, height2)
  <2>1. KindsKept(nodes, after, n, right)
    <3>1. after[right].isLeaf
      BY <1>12 DEF IsLeafSplit, NewAfterLeafSplit
    <3>2. after[right].isLeaf = TRUE /\ nodes[n].isLeaf = TRUE
      <4>1. after \in Seq(Node) /\ right \in DOMAIN after
        BY <1>1, <1>12, NodeFields DEF IsLeafSplit
      <4>2. after[right] \in Node /\ nodes[n] \in Node
        BY <1>1, <1>2, <4>1, NodeFields
      <4> QED BY <1>2, <3>1, <4>2 DEF Node
    <3> QED BY <1>12, <3>2 DEF KindsKept, IsLeafSplit, OldAfterLeafSplit
  <2>2. BoundsOK(nodes, lo, hi, height)
    BY <1>1
  <2> QED BY <1>2, <1>7, <1>9, <1>11, <2>1, <2>2, SplitBounds
<1>14. /\ LinksOK(after, first, lo2, hi2, links)
       /\ LeavesOK(after, links)
       /\ EntriesOf(after, links) = grown
  <2>1. LeafSplits(nodes, chain, p, n, right, m, after, low, high)
    BY <1>8, <1>12 DEF LeafSplits, high
  <2>2. /\ LinksOK(after, first, lo2, hi2, links)
        /\ LeavesOK(after, links)
        /\ EntriesOf(after, links) = [q \in 1 .. Len(chain) + 1 |->
                     IF q < p THEN EntriesOf(nodes, chain)[q]
                     ELSE IF q = p THEN low
                     ELSE IF q = p + 1 THEN high
                     ELSE EntriesOf(nodes, chain)[q - 1]]
    BY <1>1, <2>1, SplitLinks
  <2> QED BY <1>10, <2>2, Zenon
<1>15. /\ InnerOK(after, lo2, hi2, height2, n, right)
       /\ ParentsOK(after, root, lo2, hi2, n, right)
       /\ SplitOK(after, root, m, lo2, hi2, height2, n, right)
  BY <1>1, <1>2, <1>9, <1>12, LeafSplitTree
<1> HIDE DEF lo2, hi2, height2, links
<1>16. Shape(after, root, first, m, n, right, lo2, hi2, height2, links)
  BY <1>10, <1>13, <1>14, <1>15 DEF Shape
<1> QED BY <1>3, <1>6, <1>7, <1>14, <1>16 DEF lo2, hi2, height2, links, grown, low, high

-----------------------------------------------------------------------------
(* tryUpdateExisting in the leaf where the key is.                         *)

\* The leaves with the weight of e's key overwritten.
Reweighted(list, e) ==
  [q \in DOMAIN list |->
     [i \in DOMAIN list[q] |-> IF list[q][i].dst = e.dst THEN e ELSE list[q][i]]]

LEMMA UpdateKeepsShape ==
  ASSUME NEW nodes, NEW root, NEW first, NEW key, NEW lo, NEW hi, NEW height, NEW chain,
         Shape(nodes, root, first, key, None, None, lo, hi, height, chain),
         NEW p \in 1 .. Len(chain), NEW n, n = chain[p],
         NEW e \in Cell(Nat), NEW i \in DOMAIN nodes[n].entries,
         nodes[n].entries[i].dst = e.dst,
         NEW list, list = EntriesOf(nodes, chain),
         NEW after, after = Refilled(nodes, n, [nodes[n].entries EXCEPT ![i] = e])
  PROVE  /\ Shape(after, root, first, key, None, None, lo, hi, height, chain)
         /\ EntriesOf(after, chain) = Reweighted(list, e)
         /\ e.dst \in AllKeys(list)
         /\ AllKeys(Reweighted(list, e)) = AllKeys(list)
<1> DEFINE old == nodes[n].entries
           es == [old EXCEPT ![i] = e]
           grown == Reweighted(list, e)
<1>1. /\ WellFormedChain(Nat, list)
      /\ Len(chain) \in Nat /\ Len(list) = Len(chain) /\ DOMAIN list = 1 .. Len(list)
      /\ list[p] = old
      /\ p \in 1 .. Len(list)
  <2>1. WellFormedChain(Nat, list)
    BY DEF Shape
  <2>2. Len(chain) \in Nat
    BY LenProperties DEF Shape, LinksOK
  <2> QED BY <2>1, <2>2, EntriesOfChain, ChainProperties
<1>2. /\ list \in Seq(Seq(Cell(Nat)))
      /\ \A q \in 1 .. Len(list) : list[q] \in Seq(Cell(Nat))
      /\ \A q \in 1 .. Len(list) : Ascending(list[q])
      /\ \A q, s \in 1 .. Len(list) : q < s =>
           \A k \in Keys(list[q]), l \in Keys(list[s]) : k < l
  BY <1>1, ChainProperties, ChainByKeys DEF WellFormedChain
<1>3. ASSUME NEW q \in 1 .. Len(list)
      PROVE  /\ Len(list[q]) \in Nat
             /\ DOMAIN list[q] = 1 .. Len(list[q])
             /\ \A j \in 1 .. Len(list[q]) : list[q][j] \in Cell(Nat) /\ list[q][j].dst \in Nat
  BY <1>2, CellProperties
<1>4. e.dst \in Nat /\ e.dst \in Keys(list[p]) /\ i \in 1 .. Len(list[p])
  BY <1>1, <1>3, CellProperties DEF Keys
<1>5. \A q \in 1 .. Len(list) : \A j \in 1 .. Len(list[q]) :
         list[q][j].dst = e.dst => q = p /\ j = i
  <2> SUFFICES ASSUME NEW q \in 1 .. Len(list), NEW j \in 1 .. Len(list[q]),
                      list[q][j].dst = e.dst
               PROVE  q = p /\ j = i
    OBVIOUS
  <2>1. e.dst \in Keys(list[q])
    BY <1>3 DEF Keys
  <2>2. q = p
    <3>1. q < p => e.dst < e.dst
      BY <1>1, <1>2, <1>4, <2>1
    <3>2. p < q => e.dst < e.dst
      BY <1>1, <1>2, <1>4, <2>1
    <3> QED BY <1>1, <1>4, <3>1, <3>2
  <2>3. Ascending(old) /\ i \in DOMAIN old /\ j \in DOMAIN old /\ old[j].dst = e.dst
    BY <1>1, <1>2, <1>3, <2>2
  <2>4. j = i
    <3>1. j < i => e.dst < e.dst
      BY <2>3 DEF Ascending
    <3>2. i < j => e.dst < e.dst
      BY <2>3 DEF Ascending
    <3>3. i \in Nat /\ j \in Nat
      BY <1>3, <1>4, <2>2
    <3> QED BY <1>4, <3>1, <3>2, <3>3
  <2> QED BY <2>2, <2>4
<1> HIDE DEF grown
<1>6. \A q \in 1 .. Len(list) :
         grown[q] = [j \in 1 .. Len(list[q]) |->
                       IF list[q][j].dst = e.dst THEN e ELSE list[q][j]]
  BY <1>1, <1>3 DEF Reweighted, grown
<1>19. \A q \in 1 .. Len(list) : \A j \in 1 .. Len(list[q]) :
          grown[q][j] = IF list[q][j].dst = e.dst THEN e ELSE list[q][j]
  <2> SUFFICES ASSUME NEW q \in 1 .. Len(list)
               PROVE  \A j \in 1 .. Len(list[q]) :
                        grown[q][j] = IF list[q][j].dst = e.dst THEN e ELSE list[q][j]
    OBVIOUS
  <2>0. grown[q] = [j \in 1 .. Len(list[q]) |->
                      IF list[q][j].dst = e.dst THEN e ELSE list[q][j]]
    BY <1>6, Zenon
  <2> QED BY <2>0, Zenon
<1>7. \A q \in 1 .. Len(list) :
         /\ grown[q] \in Seq(Cell(Nat))
         /\ Len(grown[q]) = Len(list[q])
         /\ \A j \in 1 .. Len(list[q]) : grown[q][j].dst = list[q][j].dst
  <2> SUFFICES ASSUME NEW q \in 1 .. Len(list)
               PROVE  /\ grown[q] \in Seq(Cell(Nat))
                      /\ Len(grown[q]) = Len(list[q])
                      /\ \A j \in 1 .. Len(list[q]) : grown[q][j].dst = list[q][j].dst
    OBVIOUS
  <2>0. grown[q] = [j \in 1 .. Len(list[q]) |->
                      IF list[q][j].dst = e.dst THEN e ELSE list[q][j]]
    BY <1>6, Zenon
  <2>2. grown[q] = [j \in 1 .. Len(list[q]) |-> grown[q][j]]
    BY <2>0, Zenon
  <2>5. \A j \in 1 .. Len(list[q]) :
           grown[q][j] = IF list[q][j].dst = e.dst THEN e ELSE list[q][j]
    BY <1>19, Zenon
  <2>1. \A j \in 1 .. Len(list[q]) :
           /\ grown[q][j] \in Cell(Nat)
           /\ grown[q][j].dst = list[q][j].dst
    BY <1>3, <2>5
  <2>3. grown[q] \in [1 .. Len(list[q]) -> Cell(Nat)]
    BY <2>1, <2>2, Zenon
  <2>4. Len(list[q]) \in Nat
    BY <1>3
  <2> QED BY <2>1, <2>3, <2>4, FunctionIsSeq
<1>8. grown = [q \in 1 .. Len(list) |-> grown[q]]
  BY <1>1 DEF Reweighted, grown
<1>9. grown \in Seq(Seq(Cell(Nat))) /\ Len(grown) = Len(list)
  <2>1. grown \in [1 .. Len(list) -> Seq(Cell(Nat))]
    BY <1>7, <1>8, Zenon
  <2>2. Len(list) \in Nat
    BY <1>1
  <2> QED BY <2>1, <2>2, FunctionIsSeq
<1>10. WellFormedChain(Nat, grown)
  BY <1>1, <1>7, <1>9, SameKeysSameShape, ZenonT(40)
<1>11. AllKeys(grown) = AllKeys(list)
  BY <1>2, <1>7, <1>9, SameKeys, ZenonT(40)
<1>12. es \in Seq(Cell(Nat)) /\ grown[p] = es
  <2>1. es = [j \in 1 .. Len(list[p]) |-> IF j = i THEN e ELSE list[p][j]]
    BY <1>1, <1>3
  <2>2. \A j \in 1 .. Len(list[p]) : list[p][j].dst = e.dst <=> j = i
    BY <1>1, <1>4, <1>5
  <2>3. es \in Seq(Cell(Nat)) /\ Len(es) = Len(list[p])
    <3>1. es \in [1 .. Len(list[p]) -> Cell(Nat)]
      BY <1>1, <1>3, <2>1
    <3>2. Len(list[p]) \in Nat
      BY <1>1, <1>3
    <3> HIDE DEF es
    <3> QED BY <3>1, <3>2, FunctionIsSeq
  <2>4. \A j \in 1 .. Len(list[p]) : es[j] = grown[p][j]
    <3>1. \A j \in 1 .. Len(list[p]) : grown[p][j] = IF j = i THEN e ELSE list[p][j]
      BY <1>1, <1>19, <2>2
    <3>2. \A j \in 1 .. Len(list[p]) : es[j] = IF j = i THEN e ELSE list[p][j]
      BY <2>1
    <3> HIDE DEF es
    <3> QED BY <3>1, <3>2
  <2>5. grown[p] \in Seq(Cell(Nat)) /\ Len(grown[p]) = Len(list[p])
    BY <1>1, <1>7
  <2> HIDE DEF es
  <2>6. grown[p] = es
    BY <2>3, <2>4, <2>5, SeqEqual
  <2> QED BY <2>3, <2>6
<1>13. grown = [list EXCEPT ![p] = es]
  <2>1. ASSUME NEW q \in 1 .. Len(list), q # p PROVE grown[q] = list[q]
    <3>1. \A j \in 1 .. Len(list[q]) : list[q][j].dst # e.dst
      BY <1>5, <2>1
    <3>2. \A j \in 1 .. Len(list[q]) : grown[q][j] = list[q][j]
      BY <1>19, <3>1
    <3>3. /\ grown[q] \in Seq(Cell(Nat)) /\ Len(grown[q]) = Len(list[q])
          /\ list[q] \in Seq(Cell(Nat))
      BY <1>2, <1>7
    <3> QED BY <3>2, <3>3, SeqEqual
  <2> HIDE DEF es
  <2> QED BY <1>1, <1>8, <1>12, <2>1
<1>14. p > 1 => es[1].dst = nodes[n].entries[1].dst
  <2> SUFFICES ASSUME p > 1 PROVE es[1].dst = old[1].dst
    OBVIOUS
  <2>1. 1 \in 1 .. Len(list[p])
    BY <1>3, <1>4, <1>1
  <2> QED BY <1>1, <1>7, <1>12, <2>1
<1>15. after = Refilled(nodes, n, es)
  OBVIOUS
<1> HIDE DEF es
<1>16. LeafRefilled(nodes, lo, chain, after, p, n, es, grown)
  BY <1>10, <1>12, <1>13, <1>14, <1>15 DEF LeafRefilled
<1>17. /\ Shape(after, root, first, key, None, None, lo, hi, height, chain)
       /\ EntriesOf(after, chain) = grown
  BY <1>16, LeafReplaced
<1>18. e.dst \in AllKeys(list)
  BY <1>1, <1>4 DEF AllKeys
<1> QED BY <1>11, <1>17, <1>18 DEF grown

-----------------------------------------------------------------------------
(* A new root.                                                             *)

RootGrown(nodes, left, right, key) ==
  Append([nodes EXCEPT ![left].parent = Len(nodes) + 1,
                       ![right].parent = Len(nodes) + 1],
         Inner(<<key>>, <<left, right>>, None))

OldAfterRootGrown(nodes, after, left, right, top, k) ==
  /\ after[k].isLeaf = nodes[k].isLeaf
  /\ after[k].entries = nodes[k].entries
  /\ after[k].next = nodes[k].next
  /\ after[k].keys = nodes[k].keys
  /\ after[k].children = nodes[k].children
  /\ after[k].parent = IF k \in {left, right} THEN top ELSE nodes[k].parent
NewAfterRootGrown(after, left, right, key, top) ==
  /\ ~after[top].isLeaf
  /\ after[top].entries = << >>
  /\ after[top].keys = <<key>>
  /\ after[top].children = <<left, right>>
  /\ after[top].parent = None
IsRootGrown(nodes, after, left, right, key, top) ==
  /\ after \in Seq(Node)
  /\ Len(after) = top
  /\ DOMAIN after = 1 .. top
  /\ \A k \in DOMAIN nodes : OldAfterRootGrown(nodes, after, left, right, top, k)
  /\ NewAfterRootGrown(after, left, right, key, top)

LEMMA RootGrownNodes ==
  ASSUME NEW nodes \in Seq(Node), NEW left \in DOMAIN nodes, NEW right \in DOMAIN nodes,
         left # right, NEW key \in Nat, NEW top, top = Len(nodes) + 1
  PROVE  IsRootGrown(nodes, RootGrown(nodes, left, right, key), left, right, key, top)
<1> DEFINE old == [nodes EXCEPT ![left].parent = top, ![right].parent = top]
           new == Inner(<<key>>, <<left, right>>, None)
           after == RootGrown(nodes, left, right, key)
<1>1. /\ Len(nodes) \in Nat /\ DOMAIN nodes = 1 .. Len(nodes) /\ top \in Nat
      /\ \A k \in DOMAIN nodes : nodes[k] \in Node
  BY NodeFields
<1>2. DOMAIN old = 1 .. Len(nodes)
  BY <1>1
<1>3. ASSUME NEW k \in DOMAIN nodes
      PROVE  /\ old[k] \in Node
             /\ OldAfterRootGrown(nodes, old, left, right, top, k)
  <2>1. nodes[k] \in Node
    BY <1>1
  <2>2. old[k] = IF k \in {left, right} THEN [nodes[k] EXCEPT !.parent = top]
                 ELSE nodes[k]
    BY <1>1
  <2> HIDE DEF old
  <2> QED BY <1>1, <2>1, <2>2 DEF Node, OldAfterRootGrown
<1>4. new \in Node
  <2>1. left \in Nat /\ right \in Nat
    BY <1>1
  <2>2. <<key>> \in Seq(Nat) /\ <<left, right>> \in Seq(Nat) /\ << >> \in Seq(Cell(Nat))
    BY <2>1, EmptySeq
  <2> QED BY <2>2 DEF Node, Inner, None
<1>5. /\ ~new.isLeaf
      /\ new.entries = << >>
      /\ new.keys = <<key>>
      /\ new.children = <<left, right>>
      /\ new.parent = None
  BY DEF Inner
<1>6. after = Append(old, new)
  BY DEF RootGrown
<1> HIDE DEF old, new, after
<1>7. old \in Seq(Node) /\ Len(old) = Len(nodes)
  <2>1. old = [k \in 1 .. Len(nodes) |-> old[k]]
    BY <1>2, <1>3, <1>1 DEF old
  <2>2. old \in [1 .. Len(nodes) -> Node]
    BY <1>1, <1>2, <1>3, <2>1, Zenon
  <2> QED BY <1>1, <2>2, FunctionIsSeq
<1>8. /\ after \in Seq(Node)
      /\ Len(after) = top
      /\ DOMAIN after = 1 .. top
      /\ \A k \in DOMAIN nodes : after[k] = old[k]
      /\ after[top] = new
  BY <1>1, <1>4, <1>6, <1>7, AppendProperties, LenProperties
<1>9. \A k \in DOMAIN nodes : OldAfterRootGrown(nodes, after, left, right, top, k)
  BY <1>3, <1>8 DEF OldAfterRootGrown
<1>10. NewAfterRootGrown(after, left, right, key, top)
  BY <1>5, <1>8 DEF NewAfterRootGrown
<1> QED BY <1>8, <1>9, <1>10 DEF IsRootGrown, after

\* The new root is unbounded, and higher than the two nodes under it.
GrownBound(bound, top) == [k \in 1 .. top |-> IF k = top THEN 0 ELSE bound[k]]
GrownHeight(height, left, top) ==
  [k \in 1 .. top |-> IF k = top THEN height[left] + 1 ELSE height[k]]

\* bplusInsert when the node that split was the root.
LEMMA GrowRootKeepsShape ==
  ASSUME NEW nodes, NEW root, NEW first, NEW key, NEW left, NEW right,
         NEW lo, NEW hi, NEW height, NEW chain,
         Shape(nodes, root, first, key, left, right, lo, hi, height, chain),
         right # None, nodes[left].parent = None,
         NEW top, top = Len(nodes) + 1,
         NEW after, after = RootGrown(nodes, left, right, key), NEW any
  PROVE  /\ Shape(after, top, first, any, None, None, GrownBound(lo, top),
                  GrownBound(hi, top), GrownHeight(height, left, top), chain)
         /\ EntriesOf(after, chain) = EntriesOf(nodes, chain)
         /\ IsRootGrown(nodes, after, left, right, key, top)
<1> DEFINE lo2 == GrownBound(lo, top)
           hi2 == GrownBound(hi, top)
           height2 == GrownHeight(height, left, top)
<1>1. /\ BoundsOK(nodes, lo, hi, height)
      /\ LinksOK(nodes, first, lo, hi, chain)
      /\ WellFormedChain(Nat, EntriesOf(nodes, chain))
      /\ LeavesOK(nodes, chain)
      /\ InnerOK(nodes, lo, hi, height, left, right)
      /\ ParentsOK(nodes, root, lo, hi, left, right)
      /\ SplitOK(nodes, root, key, lo, hi, height, left, right)
  BY DEF Shape
<1>2. /\ nodes \in Seq(Node) /\ Len(nodes) \in Nat /\ DOMAIN nodes = 1 .. Len(nodes)
      /\ top \in Nat /\ 1 .. top = DOMAIN nodes \cup {top} /\ top \notin DOMAIN nodes
      /\ top # None /\ None \notin DOMAIN nodes
  BY <1>1, NodeFields DEF BoundsOK, None
<1>3. /\ left \in DOMAIN nodes /\ right \in DOMAIN nodes /\ left # right
      /\ height[left] = height[right]
      /\ nodes[right].parent = None
      /\ key = lo[right] /\ key = hi[left] /\ lo[left] < key
  BY <1>1 DEF SplitOK
<1>4. /\ lo \in [DOMAIN nodes -> Nat] /\ hi \in [DOMAIN nodes -> Nat]
      /\ height \in [DOMAIN nodes -> Nat]
      /\ key \in Nat
  BY <1>1, <1>3 DEF BoundsOK
<1>5. left = root /\ lo[left] = 0 /\ hi[right] = 0
  <2>1. left = root
    BY <1>1, <1>2, <1>3 DEF ParentsOK
  <2> QED BY <1>1, <2>1 DEF ParentsOK, SeenHi
<1>6. IsRootGrown(nodes, after, left, right, key, top)
  BY <1>2, <1>3, <1>4, RootGrownNodes
<1>7. /\ \A k \in DOMAIN nodes : lo2[k] = lo[k] /\ hi2[k] = hi[k] /\ height2[k] = height[k]
      /\ lo2[top] = 0 /\ hi2[top] = 0 /\ height2[top] = height[left] + 1
  BY <1>2 DEF GrownBound, GrownHeight
<1>8. /\ after \in Seq(Node) /\ Len(after) = top /\ DOMAIN after = 1 .. top
      /\ \A k \in DOMAIN nodes : OldAfterRootGrown(nodes, after, left, right, top, k)
      /\ NewAfterRootGrown(after, left, right, key, top)
  BY <1>6 DEF IsRootGrown
<1>9. /\ lo2 \in [1 .. top -> Nat] /\ hi2 \in [1 .. top -> Nat]
      /\ height2 \in [1 .. top -> Nat]
  <2>1. \A k \in 1 .. top : lo2[k] \in Nat /\ hi2[k] \in Nat /\ height2[k] \in Nat
    <3> HIDE DEF lo2, hi2, height2
    <3>1. \A k \in DOMAIN nodes : lo[k] \in Nat /\ hi[k] \in Nat /\ height[k] \in Nat
      BY <1>4
    <3>2. height[left] + 1 \in Nat
      BY <1>3, <3>1
    <3> QED BY <1>2, <1>7, <3>1, <3>2
  <2> QED BY <2>1 DEF GrownBound, GrownHeight
<1> HIDE DEF lo2, hi2, height2
<1>10. BoundsOK(after, lo2, hi2, height2)
  <2>1. ASSUME NEW k \in 1 .. top
        PROVE  /\ Below(lo2[k], hi2[k])
               /\ height2[k] < top
               /\ after[k].isLeaf <=> height2[k] = 0
    <3>1. CASE k = top
      <4>1. height[left] \in Nat /\ height[left] < Len(nodes)
        BY <1>1, <1>3, <1>4 DEF BoundsOK
      <4> QED BY <1>2, <1>7, <1>8, <3>1, <4>1 DEF Below, NewAfterRootGrown
    <3>2. CASE k \in DOMAIN nodes
      <4>1. /\ Below(lo[k], hi[k]) /\ height[k] < Len(nodes) /\ height[k] \in Nat
            /\ nodes[k].isLeaf <=> height[k] = 0
        BY <1>1, <1>4, <3>2 DEF BoundsOK
      <4>2. after[k].isLeaf = nodes[k].isLeaf
        BY <1>8, <3>2 DEF OldAfterRootGrown
      <4> QED BY <1>2, <1>7, <3>2, <4>1, <4>2
    <3> QED BY <1>2, <3>1, <3>2
  <2> QED BY <1>8, <1>9, <2>1 DEF BoundsOK
<1>11. /\ Len(chain) \in Nat
       /\ \A q \in 1 .. Len(chain) : chain[q] \in DOMAIN nodes
  BY <1>1, LenProperties, ElementOfSeq DEF LinksOK
<1>12. EntriesOf(after, chain) = EntriesOf(nodes, chain)
  BY <1>8, <1>11 DEF EntriesOf, OldAfterRootGrown
<1>13. LinksOK(after, first, lo2, hi2, chain)
  <2>1. ASSUME NEW q \in 1 .. Len(chain) PROVE LeafOK(after, lo2, hi2, chain, q)
    <3>1. LeafOK(nodes, lo, hi, chain, q)
      BY <1>1 DEF LinksOK
    <3>2. /\ after[chain[q]].isLeaf = nodes[chain[q]].isLeaf
          /\ after[chain[q]].entries = nodes[chain[q]].entries
          /\ after[chain[q]].next = nodes[chain[q]].next
          /\ lo2[chain[q]] = lo[chain[q]] /\ hi2[chain[q]] = hi[chain[q]]
      BY <1>7, <1>8, <1>11 DEF OldAfterRootGrown
    <3>3. q # Len(chain) => lo2[chain[q + 1]] = lo[chain[q + 1]]
      <4> SUFFICES ASSUME q # Len(chain) PROVE lo2[chain[q + 1]] = lo[chain[q + 1]]
        OBVIOUS
      <4>1. q + 1 \in 1 .. Len(chain)
        BY <1>11
      <4> QED BY <1>7, <1>11, <4>1
    <3> QED BY <3>1, <3>2, <3>3 DEF LeafOK
  <2>2. chain \in Seq(DOMAIN after)
    <3>1. DOMAIN nodes \subseteq DOMAIN after /\ chain \in Seq(DOMAIN nodes)
      BY <1>1, <1>2, <1>8 DEF LinksOK
    <3> QED BY <3>1
  <2> QED BY <1>1, <2>1, <2>2 DEF LinksOK
<1>14. LeavesOK(after, chain)
  <2> SUFFICES ASSUME NEW k \in 1 .. top, after[k].isLeaf
               PROVE  /\ after[k].keys = << >>
                      /\ after[k].children = << >>
                      /\ \E q \in 1 .. Len(chain) : chain[q] = k
    BY <1>8 DEF LeavesOK
  <2>1. k \in DOMAIN nodes
    BY <1>2, <1>8 DEF NewAfterRootGrown
  <2>2. /\ after[k].isLeaf = nodes[k].isLeaf
        /\ after[k].keys = nodes[k].keys
        /\ after[k].children = nodes[k].children
    BY <1>8, <2>1 DEF OldAfterRootGrown
  <2> QED BY <1>1, <2>1, <2>2 DEF LeavesOK
<1>15. \A k \in 1 .. top : SeenHi(hi2, None, None, k) = hi2[k]
  BY <1>2 DEF SeenHi, None
<1>16. InnerOK(after, lo2, hi2, height2, None, None)
  <2> SUFFICES ASSUME NEW k \in 1 .. top, ~after[k].isLeaf
               PROVE  /\ after[k].entries = << >>
                      /\ KeysOK(after[k].keys, lo2[k], hi2[k])
                      /\ Len(after[k].children) = Len(after[k].keys) + 1
                      /\ \A i \in 1 .. Len(after[k].keys) + 1 :
                           ChildOK(after, lo2, hi2, height2, None, None, k, i)
    BY <1>8 DEF InnerOK
  <2>1. CASE k = top
    <3>1. /\ after[k].entries = << >>
          /\ after[k].keys = <<key>> /\ Len(<<key>>) = 1 /\ <<key>>[1] = key
          /\ after[k].children = <<left, right>> /\ Len(<<left, right>>) = 2
          /\ <<left, right>>[1] = left /\ <<left, right>>[2] = right
      BY <1>8, <2>1 DEF NewAfterRootGrown
    <3>2. KeysOK(<<key>>, lo2[k], hi2[k])
      BY <1>3, <1>4, <1>5, <1>7, <2>1, <3>1 DEF KeysOK, Below
    <3>3. /\ after[left].parent = top /\ after[right].parent = top
          /\ left \in 1 .. top /\ right \in 1 .. top
      BY <1>2, <1>3, <1>8 DEF OldAfterRootGrown
    <3>4. /\ height2[left] + 1 = height2[top] /\ height2[right] + 1 = height2[top]
          /\ lo2[left] = lo2[top] /\ lo2[right] = key
          /\ hi2[left] = key /\ hi2[right] = hi2[top]
      BY <1>3, <1>5, <1>7
    <3>5. ChildOK(after, lo2, hi2, height2, None, None, k, 1)
      BY <1>8, <1>15, <2>1, <3>1, <3>3, <3>4 DEF ChildOK
    <3>6. ChildOK(after, lo2, hi2, height2, None, None, k, 2)
      BY <1>8, <1>15, <2>1, <3>1, <3>3, <3>4 DEF ChildOK
    <3>7. \A i \in 1 .. Len(after[k].keys) + 1 : i = 1 \/ i = 2
      BY <3>1
    <3> QED BY <3>1, <3>2, <3>5, <3>6, <3>7
  <2>2. CASE k \in DOMAIN nodes
    <3>1. /\ ~nodes[k].isLeaf
          /\ after[k].entries = nodes[k].entries
          /\ after[k].keys = nodes[k].keys
          /\ after[k].children = nodes[k].children
          /\ lo2[k] = lo[k] /\ hi2[k] = hi[k] /\ height2[k] = height[k]
          /\ k # None
      BY <1>2, <1>7, <1>8, <2>2 DEF OldAfterRootGrown
    <3>2. ASSUME NEW i \in 1 .. Len(nodes[k].keys) + 1
          PROVE  ChildOK(after, lo2, hi2, height2, None, None, k, i)
      <4>1. ChildOK(nodes, lo, hi, height, left, right, k, i)
        BY <1>1, <2>2, <3>1 DEF InnerOK
      <4>2. PICK c \in DOMAIN nodes : c = nodes[k].children[i] /\ nodes[c].parent = k
        BY <4>1 DEF ChildOK
      <4>3. c # left /\ c # right
        BY <1>3, <3>1, <4>2
      <4>4. /\ c \in DOMAIN after
            /\ after[c].parent = k
            /\ lo2[c] = lo[c] /\ height2[c] = height[c]
            /\ SeenHi(hi2, None, None, c) = SeenHi(hi, left, right, c)
        <5>1. SeenHi(hi, left, right, c) = hi[c]
          BY <4>3 DEF SeenHi
        <5> QED BY <1>2, <1>7, <1>8, <1>15, <4>2, <4>3, <5>1 DEF OldAfterRootGrown
      <4> QED BY <3>1, <4>1, <4>2, <4>4 DEF ChildOK
    <3> QED BY <1>1, <2>2, <3>1, <3>2 DEF InnerOK
  <2> QED BY <1>2, <2>1, <2>2
<1>17. ParentsOK(after, top, lo2, hi2, None, None)
  <2>1. ASSUME NEW k \in 1 .. top, k # top
        PROVE  /\ after[k].parent \in 1 .. top
               /\ ~after[after[k].parent].isLeaf
               /\ \E i \in 1 .. Len(after[after[k].parent].children) :
                    after[after[k].parent].children[i] = k
    <3>1. k \in DOMAIN nodes
      BY <1>2, <2>1
    <3>2. CASE k \in {left, right}
      <4>1. after[k].parent = top
        BY <1>8, <3>1, <3>2 DEF OldAfterRootGrown
      <4>2. /\ ~after[top].isLeaf
            /\ after[top].children = <<left, right>> /\ Len(<<left, right>>) = 2
            /\ <<left, right>>[1] = left /\ <<left, right>>[2] = right
        BY <1>8 DEF NewAfterRootGrown
      <4>3. \E i \in 1 .. 2 : <<left, right>>[i] = k
        BY <3>2
      <4> QED BY <1>2, <4>1, <4>2, <4>3
    <3>3. CASE k \notin {left, right}
      <4>1. k # root /\ k # right
        BY <1>5, <3>3
      <4>2. /\ nodes[k].parent \in DOMAIN nodes
            /\ ~nodes[nodes[k].parent].isLeaf
            /\ \E i \in 1 .. Len(nodes[nodes[k].parent].children) :
                 nodes[nodes[k].parent].children[i] = k
        BY <1>1, <3>1, <4>1 DEF ParentsOK
      <4>3. PICK P \in DOMAIN nodes : P = nodes[k].parent
        BY <4>2
      <4>4. /\ after[k].parent = P
            /\ after[P].isLeaf = nodes[P].isLeaf
            /\ after[P].children = nodes[P].children
            /\ P \in 1 .. top
        BY <1>2, <1>8, <3>1, <3>3, <4>3 DEF OldAfterRootGrown
      <4> QED BY <4>2, <4>3, <4>4
    <3> QED BY <3>2, <3>3
  <2>2. /\ top \in DOMAIN after /\ after[top].parent = None
        /\ lo2[top] = 0 /\ SeenHi(hi2, None, None, top) = 0
    BY <1>2, <1>7, <1>8, <1>15 DEF NewAfterRootGrown
  <2> QED BY <1>8, <2>1, <2>2 DEF ParentsOK
<1>18. SplitOK(after, top, any, lo2, hi2, height2, None, None)
  BY DEF SplitOK
<1>19. Shape(after, top, first, any, None, None, lo2, hi2, height2, chain)
  BY <1>1, <1>10, <1>12, <1>13, <1>14, <1>16, <1>17, <1>18 DEF Shape
<1> QED BY <1>6, <1>12, <1>19 DEF lo2, hi2, height2

-----------------------------------------------------------------------------
(* A key and a child more in an inner node.                                *)

LEMMA InsertAtProperties ==
  ASSUME NEW S, NEW s \in Seq(S), NEW i \in 1 .. Len(s) + 1, NEW e \in S
  PROVE  /\ InsertAt(s, i, e) \in Seq(S)
         /\ Len(InsertAt(s, i, e)) = Len(s) + 1
         /\ \A j \in 1 .. Len(s) + 1 :
              /\ j < i => InsertAt(s, i, e)[j] = s[j]
              /\ j = i => InsertAt(s, i, e)[j] = e
              /\ j > i => InsertAt(s, i, e)[j] = s[j - 1]
<1> DEFINE front == SubSeq(s, 1, i - 1)
           back == SubSeq(s, i, Len(s))
<1>1. /\ Len(s) \in Nat /\ i \in Nat /\ 1 <= i /\ i <= Len(s) + 1
      /\ \A j \in 1 .. Len(s) : s[j] \in S
  BY LenProperties, ElementOfSeq
<1>2. /\ front \in Seq(S) /\ Len(front) = i - 1
      /\ \A j \in 1 .. i - 1 : front[j] = s[j]
  <2>1. 1 \in Int /\ i - 1 \in Int /\ \A j \in 1 .. i - 1 : s[j] \in S
    BY <1>1
  <2>2. /\ front \in Seq(S)
        /\ Len(front) = IF 1 <= i - 1 THEN (i - 1) - 1 + 1 ELSE 0
        /\ \A j \in 1 .. (i - 1) - 1 + 1 : front[j] = s[1 + j - 1]
    BY <2>1, SubSeqProperties
  <2> HIDE DEF front
  <2> QED BY <1>1, <2>2
<1>3. /\ back \in Seq(S) /\ Len(back) = Len(s) - i + 1
      /\ \A j \in 1 .. Len(s) - i + 1 : back[j] = s[i + j - 1]
  <2>1. i \in Int /\ Len(s) \in Int /\ \A j \in i .. Len(s) : s[j] \in S
    BY <1>1
  <2>2. /\ back \in Seq(S)
        /\ Len(back) = IF i <= Len(s) THEN Len(s) - i + 1 ELSE 0
        /\ \A j \in 1 .. Len(s) - i + 1 : back[j] = s[i + j - 1]
    BY <2>1, SubSeqProperties
  <2> HIDE DEF back
  <2> QED BY <1>1, <2>2
<1>4. PICK one : one = <<e>>
  OBVIOUS
<1>5. one \in Seq(S) /\ Len(one) = 1 /\ one[1] = e
  BY <1>4
<1> HIDE DEF front, back
<1>6. PICK t : t = front \o one
  OBVIOUS
<1>7. InsertAt(s, i, e) = t \o back
  BY <1>4, <1>6 DEF InsertAt, front, back
<1>9. /\ t \in Seq(S)
      /\ Len(t) = i
      /\ \A j \in 1 .. i : t[j] = IF j < i THEN s[j] ELSE e
  <2>1. /\ t \in Seq(S)
        /\ Len(t) = Len(front) + Len(one)
        /\ \A j \in 1 .. Len(front) + Len(one) : t[j] =
             IF j <= Len(front) THEN front[j] ELSE one[j - Len(front)]
    BY <1>2, <1>5, <1>6, ConcatProperties
  <2>2. Len(front) + Len(one) = i
    BY <1>1, <1>2, <1>5
  <2>3. ASSUME NEW j \in 1 .. i PROVE t[j] = IF j < i THEN s[j] ELSE e
    <3>1. t[j] = IF j <= i - 1 THEN front[j] ELSE one[j - (i - 1)]
      BY <1>2, <2>1, <2>2
    <3>2. CASE j < i
      <4>1. j \in 1 .. i - 1 /\ j <= i - 1
        BY <1>1, <3>2
      <4> QED BY <1>2, <3>1, <3>2, <4>1
    <3>3. CASE j = i
      <4>1. ~(j <= i - 1) /\ j - (i - 1) = 1 /\ ~(j < i)
        BY <1>1, <3>3
      <4>2. t[j] = one[1]
        BY <3>1, <4>1
      <4> QED BY <1>5, <4>1, <4>2
    <3> QED BY <1>1, <3>2, <3>3
  <2> QED BY <2>1, <2>2, <2>3
<1>8. /\ t \o back \in Seq(S)
      /\ Len(t \o back) = Len(s) + 1
      /\ \A j \in 1 .. Len(s) + 1 : (t \o back)[j] =
           IF j <= i THEN t[j] ELSE back[j - i]
  <2>1. /\ t \o back \in Seq(S)
        /\ Len(t \o back) = Len(t) + Len(back)
        /\ \A j \in 1 .. Len(t) + Len(back) : (t \o back)[j] =
             IF j <= Len(t) THEN t[j] ELSE back[j - Len(t)]
    BY <1>3, <1>9, ConcatProperties
  <2>2. Len(t) + Len(back) = Len(s) + 1
    BY <1>1, <1>3, <1>9
  <2> QED BY <1>9, <2>1, <2>2
<1>10. ASSUME NEW j \in 1 .. Len(s) + 1
       PROVE  /\ j < i => (t \o back)[j] = s[j]
              /\ j = i => (t \o back)[j] = e
              /\ j > i => (t \o back)[j] = s[j - 1]
  <2>1. (t \o back)[j] = IF j <= i THEN t[j] ELSE back[j - i]
    BY <1>8
  <2>2. CASE j <= i
    <3>1. t[j] = IF j < i THEN s[j] ELSE e
      BY <1>1, <1>9, <2>2
    <3> QED BY <1>1, <2>1, <2>2, <3>1
  <2>3. CASE i < j
    <3>1. j - i \in 1 .. Len(s) - i + 1 /\ i + (j - i) - 1 = j - 1
      BY <1>1, <2>3
    <3>2. back[j - i] = s[j - 1]
      BY <1>3, <3>1
    <3>3. ~(j <= i) /\ ~(j < i) /\ j # i
      BY <1>1, <2>3
    <3>4. (t \o back)[j] = back[j - i]
      BY <2>1, <3>3
    <3>5. (t \o back)[j] = s[j - 1]
      BY <3>2, <3>4
    <3> QED BY <3>3, <3>5
  <2>4. j <= i \/ i < j
    BY <1>1
  <2> QED BY <2>2, <2>3, <2>4
<1> QED BY <1>7, <1>8, <1>10

\* Where the descent goes to the child j.
LEMMA PositionOfChild ==
  ASSUME NEW keys \in Seq(Nat), NEW low, NEW high, KeysOK(keys, low, high),
         NEW j \in 1 .. Len(keys) + 1, NEW d \in Nat,
         j # 1 => keys[j - 1] <= d, j # Len(keys) + 1 => d < keys[j]
  PROVE  UpperBound(keys, d) = j - 1
<1>1. /\ Len(keys) \in Nat
      /\ \A i \in 1 .. Len(keys) : keys[i] \in Nat
      /\ \A a, b \in 1 .. Len(keys) : a < b => keys[a] < keys[b]
  BY LenProperties, ElementOfSeq DEF KeysOK
<1>2. PICK u : u = UpperBound(keys, d)
  OBVIOUS
<1>3. /\ u \in 0 .. Len(keys)
      /\ \A i \in 1 .. u : keys[i] <= d
      /\ \A i \in u + 1 .. Len(keys) : d < keys[i]
  BY <1>1, <1>2, UpperBoundProperties
<1>4. ~(u < j - 1)
  <2> SUFFICES ASSUME u < j - 1 PROVE FALSE
    OBVIOUS
  <2>1. j - 1 \in u + 1 .. Len(keys) /\ j - 1 \in 1 .. Len(keys) /\ j # 1
    BY <1>1, <1>3
  <2> QED BY <1>1, <1>3, <2>1
<1>5. ~(j - 1 < u)
  <2> SUFFICES ASSUME j - 1 < u PROVE FALSE
    OBVIOUS
  <2>1. j \in 1 .. u /\ j \in 1 .. Len(keys) /\ j # Len(keys) + 1
    BY <1>1, <1>3
  <2> QED BY <1>1, <1>3, <2>1
<1> QED BY <1>1, <1>2, <1>3, <1>4, <1>5

LEMMA KeyInserted ==
  ASSUME NEW keys \in Seq(Nat), NEW low \in Nat, NEW high \in Nat, KeysOK(keys, low, high),
         NEW j \in 1 .. Len(keys) + 1, NEW d \in Nat, low < d, Below(d, high),
         j # 1 => keys[j - 1] < d, j # Len(keys) + 1 => d < keys[j],
         NEW more, more = InsertAt(keys, j, d)
  PROVE  KeysOK(more, low, high)
<1>1. /\ Len(keys) \in Nat /\ Len(keys) >= 1
      /\ \A i \in 1 .. Len(keys) : keys[i] \in Nat
      /\ \A i \in 1 .. Len(keys) : low < keys[i] /\ Below(keys[i], high)
      /\ \A a, b \in 1 .. Len(keys) : a < b => keys[a] < keys[b]
  BY LenProperties, ElementOfSeq DEF KeysOK
<1>2. /\ Len(more) = Len(keys) + 1
      /\ \A i \in 1 .. Len(keys) + 1 :
           /\ i < j => more[i] = keys[i]
           /\ i = j => more[i] = d
           /\ i > j => more[i] = keys[i - 1]
  BY InsertAtProperties, SMTT(40)
<1>3. \A a \in 1 .. Len(keys) : /\ a < j => keys[a] < d
                                /\ j <= a => d < keys[a]
  <2> SUFFICES ASSUME NEW a \in 1 .. Len(keys)
               PROVE  (a < j => keys[a] < d) /\ (j <= a => d < keys[a])
    OBVIOUS
  <2>1. ASSUME a < j PROVE keys[a] < d
    <3>1. j - 1 \in 1 .. Len(keys) /\ j # 1 /\ (a = j - 1 \/ a < j - 1)
      BY <1>1, <2>1
    <3>2. keys[a] = keys[j - 1] \/ keys[a] < keys[j - 1]
      BY <1>1, <3>1
    <3>3. keys[a] \in Nat /\ keys[j - 1] \in Nat /\ keys[j - 1] < d
      BY <1>1, <3>1
    <3> QED BY <3>2, <3>3
  <2>2. ASSUME j <= a PROVE d < keys[a]
    <3>1. j \in 1 .. Len(keys) /\ j # Len(keys) + 1 /\ (a = j \/ j < a)
      BY <1>1, <2>2
    <3>2. keys[a] = keys[j] \/ keys[j] < keys[a]
      BY <1>1, <3>1
    <3>3. keys[a] \in Nat /\ keys[j] \in Nat /\ d < keys[j]
      BY <1>1, <3>1
    <3> QED BY <3>2, <3>3, SMTT(40)
  <2> QED BY <2>1, <2>2
<1>4. ASSUME NEW i \in 1 .. Len(keys) + 1
      PROVE  low < more[i] /\ Below(more[i], high)
  <2>1. CASE i < j
    <3>1. i \in 1 .. Len(keys) /\ more[i] = keys[i]
      BY <1>1, <1>2, <2>1
    <3> QED BY <1>1, <3>1
  <2>2. CASE i = j
    BY <1>2, <2>2
  <2>3. CASE j < i
    <3>1. i - 1 \in 1 .. Len(keys) /\ more[i] = keys[i - 1]
      BY <1>1, <1>2, <2>3
    <3> QED BY <1>1, <3>1
  <2> QED BY <2>1, <2>2, <2>3
<1>5. ASSUME NEW a \in 1 .. Len(keys) + 1, NEW b \in 1 .. Len(keys) + 1, a < b
      PROVE  more[a] < more[b]
  <2>1. CASE b < j
    <3>1. a \in 1 .. Len(keys) /\ b \in 1 .. Len(keys) /\ a < j
      BY <1>1, <1>5, <2>1
    <3>2. more[a] = keys[a] /\ more[b] = keys[b]
      BY <1>2, <2>1, <3>1
    <3> QED BY <1>1, <1>5, <3>1, <3>2
  <2>2. CASE b = j
    <3>1. a \in 1 .. Len(keys) /\ a < j
      BY <1>1, <1>5, <2>2
    <3>2. more[a] = keys[a] /\ more[b] = d
      BY <1>2, <2>2, <3>1
    <3> QED BY <1>3, <3>1, <3>2
  <2>3. CASE j < b /\ a < j
    <3>1. a \in 1 .. Len(keys) /\ b - 1 \in 1 .. Len(keys) /\ j <= b - 1
      BY <1>1, <2>3
    <3>2. more[a] = keys[a] /\ more[b] = keys[b - 1]
      BY <1>2, <2>3, <3>1
    <3>3. keys[a] < d /\ d < keys[b - 1] /\ keys[a] \in Nat /\ keys[b - 1] \in Nat
      BY <1>1, <1>3, <2>3, <3>1
    <3> QED BY <3>2, <3>3
  <2>4. CASE j < b /\ a = j
    <3>1. b - 1 \in 1 .. Len(keys) /\ j <= b - 1
      BY <1>1, <2>4
    <3>2. more[a] = d /\ more[b] = keys[b - 1]
      BY <1>2, <2>4, <3>1
    <3> QED BY <1>3, <3>1, <3>2
  <2>5. CASE j < a
    <3>1. a - 1 \in 1 .. Len(keys) /\ b - 1 \in 1 .. Len(keys) /\ a - 1 < b - 1 /\ j < b
      BY <1>1, <1>5, <2>5
    <3>2. more[a] = keys[a - 1] /\ more[b] = keys[b - 1]
      BY <1>2, <2>5, <3>1
    <3> QED BY <1>1, <3>1, <3>2
  <2>6. a \in Nat /\ b \in Nat /\ j \in Nat
    BY <1>1
  <2> QED BY <1>5, <2>1, <2>2, <2>3, <2>4, <2>5, <2>6
<1> QED BY <1>1, <1>2, <1>4, <1>5 DEF KeysOK

\* The lower bounds of the children of an inner node ascend.
LEMMA ChildrenAscend ==
  ASSUME NEW nodes \in Seq(Node), NEW lo \in [DOMAIN nodes -> Nat], NEW hi, NEW height,
         NEW left, NEW right,
         InnerOK(nodes, lo, hi, height, left, right),
         NEW n \in DOMAIN nodes, ~nodes[n].isLeaf,
         NEW i \in 1 .. Len(nodes[n].keys) + 1, NEW j \in 1 .. Len(nodes[n].keys) + 1,
         i < j
  PROVE  lo[nodes[n].children[i]] < lo[nodes[n].children[j]]
<1> DEFINE keys == nodes[n].keys
<1>1. /\ keys \in Seq(Nat) /\ Len(keys) \in Nat /\ lo[n] \in Nat
      /\ \A k \in 1 .. Len(keys) : keys[k] \in Nat
  BY NodeFields, LenProperties, ElementOfSeq
<1>2. /\ KeysOK(keys, lo[n], hi[n])
      /\ ChildOK(nodes, lo, hi, height, left, right, n, i)
      /\ ChildOK(nodes, lo, hi, height, left, right, n, j)
  BY DEF InnerOK
<1> DEFINE Lower(k) == IF k = 1 THEN lo[n] ELSE keys[k - 1]
<1>3. lo[nodes[n].children[i]] = Lower(i) /\ lo[nodes[n].children[j]] = Lower(j)
  BY <1>2 DEF ChildOK
<1>4. j - 1 \in 1 .. Len(keys) /\ j # 1
  BY <1>1
<1>5. CASE i = 1
  BY <1>1, <1>2, <1>3, <1>4, <1>5 DEF KeysOK
<1>6. CASE i # 1
  <2>1. i - 1 \in 1 .. Len(keys) /\ i - 1 < j - 1
    BY <1>1, <1>4, <1>6
  <2> QED BY <1>2, <1>4, <1>6, <2>1, <1>3 DEF KeysOK
<1> QED BY <1>3, <1>5, <1>6

LEMMA ChildrenDiffer ==
  ASSUME NEW nodes \in Seq(Node), NEW lo \in [DOMAIN nodes -> Nat], NEW hi, NEW height,
         NEW left, NEW right,
         InnerOK(nodes, lo, hi, height, left, right),
         NEW n \in DOMAIN nodes, ~nodes[n].isLeaf,
         NEW i \in 1 .. Len(nodes[n].keys) + 1, NEW j \in 1 .. Len(nodes[n].keys) + 1,
         nodes[n].children[i] = nodes[n].children[j]
  PROVE  i = j
<1>1. Len(nodes[n].keys) \in Nat
  BY NodeFields, LenProperties
<1>2. lo[nodes[n].children[i]] \in Nat
  BY DEF InnerOK, ChildOK
<1>3. ~(i < j)
  <2>1. i < j => lo[nodes[n].children[i]] < lo[nodes[n].children[j]]
    BY ChildrenAscend
  <2> QED BY <1>2, <2>1
<1>4. ~(j < i)
  <2>1. j < i => lo[nodes[n].children[j]] < lo[nodes[n].children[i]]
    BY ChildrenAscend
  <2> QED BY <1>2, <2>1
<1> QED BY <1>1, <1>3, <1>4

-----------------------------------------------------------------------------
(* The parent takes the promoted key and the right node.                   *)

Linked(nodes, above, keys, children, right) ==
  [nodes EXCEPT ![above].keys = keys, ![above].children = children,
                ![right].parent = above]

OneLinked(nodes, after, above, keys, children, right, k) ==
  /\ after[k].isLeaf = nodes[k].isLeaf
  /\ after[k].entries = nodes[k].entries
  /\ after[k].next = nodes[k].next
  /\ after[k].keys = IF k = above THEN keys ELSE nodes[k].keys
  /\ after[k].children = IF k = above THEN children ELSE nodes[k].children
  /\ after[k].parent = IF k = right THEN above ELSE nodes[k].parent
IsLinked(nodes, after, above, keys, children, right) ==
  /\ after \in Seq(Node)
  /\ Len(after) = Len(nodes)
  /\ DOMAIN after = DOMAIN nodes
  /\ \A k \in DOMAIN nodes : OneLinked(nodes, after, above, keys, children, right, k)

LEMMA LinkedNodes ==
  ASSUME NEW nodes \in Seq(Node), NEW above \in DOMAIN nodes, NEW right \in DOMAIN nodes,
         above # right, NEW keys \in Seq(Nat), NEW children \in Seq(Nat)
  PROVE  IsLinked(nodes, Linked(nodes, above, keys, children, right), above, keys,
                  children, right)
<1> DEFINE after == Linked(nodes, above, keys, children, right)
<1>1. /\ Len(nodes) \in Nat /\ DOMAIN nodes = 1 .. Len(nodes) /\ above \in Nat
      /\ \A k \in DOMAIN nodes : nodes[k] \in Node
  BY NodeFields
<1>2. DOMAIN after = DOMAIN nodes /\ after = [k \in 1 .. Len(nodes) |-> after[k]]
  BY <1>1 DEF Linked
<1>3. ASSUME NEW k \in DOMAIN nodes
      PROVE  /\ after[k] \in Node
             /\ OneLinked(nodes, after, above, keys, children, right, k)
  <2>1. nodes[k] \in Node
    BY <1>1
  <2>2. after[k] = IF k = above
                     THEN [nodes[k] EXCEPT !.keys = keys, !.children = children]
                   ELSE IF k = right THEN [nodes[k] EXCEPT !.parent = above]
                   ELSE nodes[k]
    BY <1>1 DEF Linked
  <2> HIDE DEF after
  <2>3. CASE k = above
    BY <1>1, <2>1, <2>2, <2>3 DEF Node, OneLinked
  <2>4. CASE k # above /\ k = right
    BY <1>1, <2>1, <2>2, <2>4 DEF Node, OneLinked
  <2>5. CASE k # above /\ k # right
    BY <1>1, <2>1, <2>2, <2>5 DEF Node, OneLinked
  <2> QED BY <2>3, <2>4, <2>5
<1> HIDE DEF after
<1>4. after \in Seq(Node) /\ Len(after) = Len(nodes)
  <2>1. after \in [1 .. Len(nodes) -> Node]
    BY <1>1, <1>2, <1>3, Zenon
  <2> QED BY <1>1, <2>1, FunctionIsSeq
<1>5. IsLinked(nodes, after, above, keys, children, right)
  BY <1>2, <1>3, <1>4 DEF IsLinked
<1> QED BY <1>5 DEF after

\* Where the node that split hangs in its parent.
LEMMA SplitChild ==
  ASSUME NEW nodes, NEW root, NEW first, NEW key, NEW left, NEW right,
         NEW lo, NEW hi, NEW height, NEW chain,
         Shape(nodes, root, first, key, left, right, lo, hi, height, chain),
         right # None, NEW above, above = nodes[left].parent, above # None
  PROVE  /\ above \in DOMAIN nodes /\ ~nodes[above].isLeaf
         /\ left \in DOMAIN nodes /\ right \in DOMAIN nodes
         /\ above # left /\ above # right /\ left # right
         /\ key \in Nat /\ lo[left] < key /\ Below(key, hi[right])
         /\ \E j \in 1 .. Len(nodes[above].keys) + 1 : nodes[above].children[j] = left
<1>1. /\ BoundsOK(nodes, lo, hi, height)
      /\ InnerOK(nodes, lo, hi, height, left, right)
      /\ ParentsOK(nodes, root, lo, hi, left, right)
      /\ SplitOK(nodes, root, key, lo, hi, height, left, right)
  BY DEF Shape
<1>2. /\ left \in DOMAIN nodes /\ right \in DOMAIN nodes /\ left # right
      /\ height[left] = height[right]
      /\ key = lo[right] /\ lo[left] < key
  BY <1>1 DEF SplitOK
<1>3. /\ lo \in [DOMAIN nodes -> Nat]
      /\ height \in [DOMAIN nodes -> Nat]
      /\ Below(lo[right], hi[right])
  BY <1>1, <1>2 DEF BoundsOK
<1>4. left # root
  BY <1>1 DEF ParentsOK
<1>5. /\ above \in DOMAIN nodes /\ ~nodes[above].isLeaf
      /\ \E i \in 1 .. Len(nodes[above].children) : nodes[above].children[i] = left
  BY <1>1, <1>2, <1>4 DEF ParentsOK
<1>6. \E j \in 1 .. Len(nodes[above].keys) + 1 : nodes[above].children[j] = left
  BY <1>1, <1>5 DEF InnerOK
<1>7. height[left] + 1 = height[above]
  BY <1>1, <1>5, <1>6 DEF InnerOK, ChildOK
<1>8. above # left /\ above # right
  BY <1>2, <1>3, <1>5, <1>7
<1> QED BY <1>2, <1>3, <1>5, <1>6, <1>8

\* The keys and children of the parent once it has the key and the node.
Widened(keys, children, more, wider, j, key, right) ==
  /\ more \in Seq(Nat) /\ Len(more) = Len(keys) + 1
  /\ wider \in Seq(Nat) /\ Len(wider) = Len(keys) + 2
  /\ \A i \in 1 .. Len(keys) + 1 :
       /\ i < j => more[i] = keys[i]
       /\ i = j => more[i] = key
       /\ i > j => more[i] = keys[i - 1]
  /\ \A i \in 1 .. Len(keys) + 2 :
       /\ i <= j => wider[i] = children[i]
       /\ i = j + 1 => wider[i] = right
       /\ i > j + 1 => wider[i] = children[i - 1]

\* t is s with e put in at i.
IsInserted(s, i, e, t) ==
  /\ t \in Seq(Nat)
  /\ Len(t) = Len(s) + 1
  /\ \A j \in 1 .. Len(s) + 1 :
       /\ j < i => t[j] = s[j]
       /\ j = i => t[j] = e
       /\ j > i => t[j] = s[j - 1]

LEMMA InsertedAt ==
  ASSUME NEW s \in Seq(Nat), NEW i \in 1 .. Len(s) + 1, NEW e \in Nat
  PROVE  IsInserted(s, i, e, InsertAt(s, i, e))
<1>1. ASSUME NEW S, S = Nat
      PROVE  /\ InsertAt(s, i, e) \in Seq(S)
             /\ Len(InsertAt(s, i, e)) = Len(s) + 1
             /\ \A j \in 1 .. Len(s) + 1 :
                  /\ j < i => InsertAt(s, i, e)[j] = s[j]
                  /\ j = i => InsertAt(s, i, e)[j] = e
                  /\ j > i => InsertAt(s, i, e)[j] = s[j - 1]
  <2>1. s \in Seq(S) /\ e \in S
    BY <1>1
  <2> QED BY <2>1, InsertAtProperties
<1> QED BY <1>1 DEF IsInserted

LEMMA LinkWidens ==
  ASSUME NEW keys \in Seq(Nat), NEW children \in Seq(Nat), Len(children) = Len(keys) + 1,
         NEW j \in 1 .. Len(keys) + 1, NEW key \in Nat, NEW right \in Nat,
         NEW more, more = InsertAt(keys, j, key),
         NEW wider, wider = InsertAt(children, j + 1, right)
  PROVE  Widened(keys, children, more, wider, j, key, right)
<1>1. Len(keys) \in Nat /\ j + 1 \in 1 .. Len(children) + 1 /\ j \in Nat
      /\ Len(children) + 1 = Len(keys) + 2
  BY LenProperties
<1>2. IsInserted(keys, j, key, more)
  BY InsertedAt
<1>3. IsInserted(children, j + 1, right, wider)
  BY <1>1, InsertedAt
<1>4. \A i \in 1 .. Len(keys) + 2 : i <= j => i < j + 1
  BY <1>1
<1> QED BY <1>1, <1>2, <1>3, <1>4 DEF Widened, IsInserted

\* The node that split is the child j of above, and no other child of it.
HangsAt(nodes, lo, hi, height, left, right, above, j, key) ==
  /\ nodes \in Seq(Node)
  /\ above \in DOMAIN nodes
  /\ j \in 1 .. Len(nodes[above].keys) + 1
  /\ \A i \in 1 .. Len(nodes[above].keys) + 1 :
        ChildOK(nodes, lo, hi, height, left, right, above, i)
  /\ \A i \in 1 .. Len(nodes[above].keys) + 1 :
        nodes[above].children[i] = left => i = j
  /\ nodes[above].children[j] = left
  /\ right \in DOMAIN nodes /\ left \in DOMAIN nodes /\ left # right
  /\ above # right /\ height[left] = height[right]
  /\ key = lo[right] /\ key = hi[left]
  /\ \A k \in DOMAIN nodes : hi[k] = SeenHi(hi, None, None, k)

\* The children of the parent once right hangs next to left: each is bounded by
\* the keys beside it.
LEMMA LinkChild ==
  ASSUME NEW nodes, NEW lo, NEW hi, NEW height, NEW left, NEW right,
         NEW above, NEW after, NEW more, NEW wider, NEW j, NEW key,
         HangsAt(nodes, lo, hi, height, left, right, above, j, key),
         Widened(nodes[above].keys, nodes[above].children, more, wider, j, key, right),
         IsLinked(nodes, after, above, more, wider, right),
         NEW i \in 1 .. Len(more) + 1
  PROVE  ChildOK(after, lo, hi, height, None, None, above, i)
<1> DEFINE keys == nodes[above].keys
           children == nodes[above].children
<1>0. /\ nodes \in Seq(Node) /\ above \in DOMAIN nodes
      /\ j \in 1 .. Len(keys) + 1
      /\ \A m \in 1 .. Len(keys) + 1 :
           ChildOK(nodes, lo, hi, height, left, right, above, m)
      /\ \A m \in 1 .. Len(keys) + 1 : children[m] = left => m = j
      /\ children[j] = left
      /\ right \in DOMAIN nodes /\ left \in DOMAIN nodes /\ left # right
      /\ above # right /\ height[left] = height[right]
      /\ key = lo[right] /\ key = hi[left]
      /\ \A k \in DOMAIN nodes : hi[k] = SeenHi(hi, None, None, k)
  BY DEF HangsAt
<1> USE <1>0
<1>1. /\ keys \in Seq(Nat) /\ Len(keys) \in Nat /\ j \in Nat
      /\ Len(more) = Len(keys) + 1
  BY NodeFields, LenProperties DEF Widened
<1>2. /\ DOMAIN after = DOMAIN nodes
      /\ after[above].keys = more /\ after[above].children = wider
      /\ \A k \in DOMAIN nodes :
           after[k].parent = IF k = right THEN above ELSE nodes[k].parent
  BY DEF IsLinked, OneLinked
<1>3. /\ \A a \in 1 .. Len(keys) + 1 :
           /\ a < j => more[a] = keys[a]
           /\ a = j => more[a] = key
           /\ a > j => more[a] = keys[a - 1]
      /\ \A a \in 1 .. Len(keys) + 2 :
           /\ a <= j => wider[a] = children[a]
           /\ a = j + 1 => wider[a] = right
           /\ a > j + 1 => wider[a] = children[a - 1]
  BY DEF Widened
<1>4. i \in 1 .. Len(keys) + 2 /\ i \in Nat
  BY <1>1
<1>11. PICK K \in Nat : K = Len(keys) /\ Len(more) = K + 1
  BY <1>1
<1>12. i \in 1 .. K + 2 /\ j \in 1 .. K + 1
  BY <1>4, <1>11
<1> DEFINE c == wider[i]
<1>5. SUFFICES /\ c \in DOMAIN nodes
               /\ after[c].parent = above
               /\ height[c] + 1 = height[above]
               /\ lo[c] = IF i = 1 THEN lo[above] ELSE more[i - 1]
               /\ hi[c] = IF i = Len(more) + 1 THEN hi[above] ELSE more[i]
  BY <1>2 DEF ChildOK
<1>6. CASE i < j
  <2>1. /\ i \in 1 .. Len(keys) + 1 /\ i \in 1 .. Len(keys) /\ i # j /\ i <= j
        /\ i # Len(keys) + 1 /\ i # Len(more) + 1
        /\ i # 1 => i - 1 \in 1 .. Len(keys) + 1 /\ i - 1 < j
    <3>1. /\ i \in 1 .. K + 1 /\ i \in 1 .. K /\ i # j /\ i <= j
          /\ i # K + 1 /\ i # (K + 1) + 1
      BY <1>6, <1>12
    <3>2. i # 1 => i - 1 \in 1 .. K + 1 /\ i - 1 < j
      BY <1>6, <1>12
    <3> QED BY <1>11, <3>1, <3>2
  <2>2. c = children[i] /\ more[i] = keys[i] /\ (i # 1 => more[i - 1] = keys[i - 1])
    BY <1>3, <1>4, <1>6, <2>1
  <2>3. ChildOK(nodes, lo, hi, height, left, right, above, i) /\ c # left
    BY <2>1, <2>2
  <2> HIDE DEF c
  <2>4. /\ c \in DOMAIN nodes /\ nodes[c].parent = above /\ height[c] + 1 = height[above]
        /\ lo[c] = IF i = 1 THEN lo[above] ELSE keys[i - 1]
        /\ SeenHi(hi, left, right, c) = IF i = Len(keys) + 1 THEN hi[above] ELSE keys[i]
    BY <2>2, <2>3 DEF ChildOK
  <2>5. hi[c] = keys[i]
    BY <2>1, <2>3, <2>4 DEF SeenHi
  <2>6. after[c].parent = above
    BY <1>2, <2>4
  <2> QED BY <2>1, <2>2, <2>4, <2>5, <2>6
<1>7. CASE i = j
  <2>1. /\ i \in 1 .. Len(keys) + 1 /\ i <= j /\ i # Len(more) + 1
        /\ i # 1 => i - 1 \in 1 .. Len(keys) + 1 /\ i - 1 < j
    BY <1>1, <1>4, <1>7, SMTT(40)
  <2>2. c = left /\ more[i] = key /\ (i # 1 => more[i - 1] = keys[i - 1])
    BY <1>3, <1>4, <1>7, <2>1
  <2>3. ChildOK(nodes, lo, hi, height, left, right, above, j)
    BY <1>7, <2>1
  <2> HIDE DEF c
  <2>4. /\ nodes[left].parent = above /\ height[left] + 1 = height[above]
        /\ lo[left] = IF j = 1 THEN lo[above] ELSE keys[j - 1]
    BY <2>3 DEF ChildOK
  <2>5. after[c].parent = above
    BY <1>2, <2>2, <2>4
  <2> QED BY <1>7, <2>1, <2>2, <2>4, <2>5
<1>8. CASE i = j + 1
  <2>1. /\ ~(i <= j) /\ i # 1 /\ i - 1 = j
        /\ i # Len(more) + 1 => i \in 1 .. Len(keys) + 1 /\ i > j
        /\ i = Len(more) + 1 <=> j = Len(keys) + 1
    <3>1. ~(i <= j) /\ i # 1 /\ i - 1 = j
      BY <1>8, <1>12
    <3>2. i # (K + 1) + 1 => i \in 1 .. K + 1 /\ i > j
      BY <1>8, <1>12
    <3>3. i = (K + 1) + 1 <=> j = K + 1
      BY <1>8, <1>12
    <3> QED BY <1>11, <3>1, <3>2, <3>3
  <2>2. c = right /\ more[i - 1] = key /\ (i # Len(more) + 1 => more[i] = keys[j])
    BY <1>3, <1>4, <1>8, <2>1
  <2>3. ChildOK(nodes, lo, hi, height, left, right, above, j)
    OBVIOUS
  <2> HIDE DEF c
  <2>4. /\ height[left] + 1 = height[above]
        /\ SeenHi(hi, left, right, left) = IF j = Len(keys) + 1 THEN hi[above] ELSE keys[j]
    BY <2>3 DEF ChildOK
  <2>5. hi[right] = IF j = Len(keys) + 1 THEN hi[above] ELSE keys[j]
    BY <2>4 DEF SeenHi
  <2>6. after[c].parent = above
    BY <1>2, <2>2
  <2> QED BY <2>1, <2>2, <2>4, <2>5, <2>6
<1>9. CASE i > j + 1
  <2>1. /\ i - 1 \in 1 .. Len(keys) + 1 /\ i - 1 # j /\ i # 1 /\ i - 1 # 1 /\ i - 1 > j
        /\ i # Len(more) + 1 => i \in 1 .. Len(keys) + 1 /\ i > j
        /\ i = Len(more) + 1 <=> i - 1 = Len(keys) + 1
    <3>1. i - 1 \in 1 .. K + 1 /\ i - 1 # j /\ i # 1 /\ i - 1 # 1 /\ i - 1 > j
      BY <1>9, <1>12
    <3>2. i # (K + 1) + 1 => i \in 1 .. K + 1 /\ i > j
      BY <1>9, <1>12
    <3>3. i = (K + 1) + 1 <=> i - 1 = K + 1
      BY <1>9, <1>12
    <3> QED BY <1>11, <3>1, <3>2, <3>3
  <2>2. c = children[i - 1] /\ more[i - 1] = keys[(i - 1) - 1]
        /\ (i # Len(more) + 1 => more[i] = keys[i - 1])
    BY <1>3, <1>4, <1>9, <2>1
  <2>3. ChildOK(nodes, lo, hi, height, left, right, above, i - 1) /\ c # left
    BY <2>1, <2>2
  <2> HIDE DEF c
  <2>4. /\ c \in DOMAIN nodes /\ nodes[c].parent = above /\ height[c] + 1 = height[above]
        /\ lo[c] = IF i - 1 = 1 THEN lo[above] ELSE keys[(i - 1) - 1]
        /\ SeenHi(hi, left, right, c) =
             IF i - 1 = Len(keys) + 1 THEN hi[above] ELSE keys[i - 1]
    BY <2>2, <2>3 DEF ChildOK
  <2>5. hi[c] = IF i - 1 = Len(keys) + 1 THEN hi[above] ELSE keys[i - 1]
    BY <2>3, <2>4 DEF SeenHi
  <2>6. after[c].parent = above
    BY <1>2, <2>4
  <2> QED BY <2>1, <2>2, <2>4, <2>5, <2>6
<1>10. i < j \/ i = j \/ i = j + 1 \/ i > j + 1
  BY <1>1, <1>4
<1> QED BY <1>6, <1>7, <1>8, <1>9, <1>10

\* The same nodes are leaves.
SameLeaves(nodes, after) ==
  /\ after \in Seq(Node)
  /\ Len(after) = Len(nodes)
  /\ DOMAIN after = DOMAIN nodes
  /\ \A k \in DOMAIN nodes : after[k].isLeaf = nodes[k].isLeaf

LEMMA BoundsKept ==
  ASSUME NEW nodes, NEW after, NEW lo, NEW hi, NEW height,
         BoundsOK(nodes, lo, hi, height), SameLeaves(nodes, after)
  PROVE  BoundsOK(after, lo, hi, height)
<1>0. /\ after \in Seq(Node)
      /\ Len(after) = Len(nodes) /\ DOMAIN after = DOMAIN nodes
      /\ \A k \in DOMAIN nodes : after[k].isLeaf = nodes[k].isLeaf
  BY DEF SameLeaves
<1>1. /\ lo \in [DOMAIN nodes -> Nat] /\ hi \in [DOMAIN nodes -> Nat]
      /\ height \in [DOMAIN nodes -> Nat]
      /\ \A n \in DOMAIN nodes : Below(lo[n], hi[n]) /\ height[n] < Len(nodes)
  BY DEF BoundsOK
<1>2. \A n \in DOMAIN nodes : nodes[n].isLeaf <=> height[n] = 0
  BY DEF BoundsOK
<1>3. \A n \in DOMAIN nodes : after[n].isLeaf <=> height[n] = 0
  BY <1>0, <1>2
<1> QED BY <1>0, <1>1, <1>3 DEF BoundsOK

\* InnerOK and ParentsOK, node by node, where the nodes are those of D.
InnerNode(nodes, lo, hi, height, left, right, n) ==
  /\ nodes[n].entries = << >>
  /\ KeysOK(nodes[n].keys, lo[n], hi[n])
  /\ Len(nodes[n].children) = Len(nodes[n].keys) + 1
  /\ \A i \in 1 .. Len(nodes[n].keys) + 1 :
        ChildOK(nodes, lo, hi, height, left, right, n, i)

LEMMA InnerByNode ==
  ASSUME NEW nodes, NEW lo, NEW hi, NEW height, NEW left, NEW right,
         NEW D, DOMAIN nodes = D,
         \A n \in D : ~nodes[n].isLeaf => InnerNode(nodes, lo, hi, height, left, right, n)
  PROVE  InnerOK(nodes, lo, hi, height, left, right)
BY Zenon DEF InnerOK, InnerNode

\* k is a child of P.
HangsIn(nodes, D, k, P) ==
  /\ P \in D
  /\ nodes[k].parent = P
  /\ ~nodes[P].isLeaf
  /\ \E i \in 1 .. Len(nodes[P].children) : nodes[P].children[i] = k

LEMMA ParentsByNode ==
  ASSUME NEW nodes, NEW root, NEW lo, NEW hi, NEW left, NEW right,
         NEW D, DOMAIN nodes = D, root \in D, nodes[root].parent = None, lo[root] = 0,
         SeenHi(hi, left, right, root) = 0,
         \A n \in D : n # root /\ n # right => \E P : HangsIn(nodes, D, n, P)
  PROVE  ParentsOK(nodes, root, lo, hi, left, right)
<1> SUFFICES ASSUME NEW n \in DOMAIN nodes, n # root, n # right
             PROVE  /\ nodes[n].parent \in DOMAIN nodes
                    /\ ~nodes[nodes[n].parent].isLeaf
                    /\ \E i \in 1 .. Len(nodes[nodes[n].parent].children) :
                          nodes[nodes[n].parent].children[i] = n
  BY Zenon DEF ParentsOK
<1>1. PICK P : HangsIn(nodes, D, n, P)
  OBVIOUS
<1> QED BY <1>1 DEF HangsIn

\* after is nodes with right linked into the parent above of left.
LinkedIn(nodes, left, right, key, above, pos, more, wider, after) ==
  /\ right # None
  /\ above = nodes[left].parent /\ above # None
  /\ pos = UpperBound(nodes[above].keys, key)
  /\ more = InsertAt(nodes[above].keys, pos + 1, key)
  /\ wider = InsertAt(nodes[above].children, pos + 2, right)
  /\ after = Linked(nodes, above, more, wider, right)

\* bplusInsertInternal, before it looks whether the parent overflows.
LEMMA LinkKeepsShape ==
  ASSUME NEW nodes, NEW root, NEW first, NEW key, NEW left, NEW right,
         NEW lo, NEW hi, NEW height, NEW chain,
         Shape(nodes, root, first, key, left, right, lo, hi, height, chain),
         NEW above, NEW pos, NEW more, NEW wider, NEW after, NEW any,
         LinkedIn(nodes, left, right, key, above, pos, more, wider, after)
  PROVE  /\ Shape(after, root, first, any, None, None, lo, hi, height, chain)
         /\ EntriesOf(after, chain) = EntriesOf(nodes, chain)
         /\ IsLinked(nodes, after, above, more, wider, right)
         /\ above \in DOMAIN nodes /\ ~nodes[above].isLeaf
         /\ more \in Seq(Nat) /\ wider \in Seq(Nat)
         /\ Len(more) = Len(nodes[above].keys) + 1
<1>40. right # None /\ above = nodes[left].parent /\ above # None
  BY DEF LinkedIn
<1>41. pos = UpperBound(nodes[above].keys, key)
  BY DEF LinkedIn
<1>42. more = InsertAt(nodes[above].keys, pos + 1, key)
  BY DEF LinkedIn
<1>43. wider = InsertAt(nodes[above].children, pos + 2, right)
  BY DEF LinkedIn
<1>44. after = Linked(nodes, above, more, wider, right)
  BY DEF LinkedIn
<1> DEFINE keys == nodes[above].keys
           children == nodes[above].children
<1>1. /\ BoundsOK(nodes, lo, hi, height)
      /\ LinksOK(nodes, first, lo, hi, chain)
      /\ WellFormedChain(Nat, EntriesOf(nodes, chain))
      /\ LeavesOK(nodes, chain)
      /\ InnerOK(nodes, lo, hi, height, left, right)
      /\ ParentsOK(nodes, root, lo, hi, left, right)
      /\ SplitOK(nodes, root, key, lo, hi, height, left, right)
  BY DEF Shape
<1>31. BoundsOK(nodes, lo, hi, height)
  BY <1>1
<1>32. LinksOK(nodes, first, lo, hi, chain)
  BY <1>1
<1>34. LeavesOK(nodes, chain)
  BY <1>1
<1>35. InnerOK(nodes, lo, hi, height, left, right)
  BY <1>1
<1>36. ParentsOK(nodes, root, lo, hi, left, right)
  BY <1>1
<1>37. SplitOK(nodes, root, key, lo, hi, height, left, right)
  BY <1>1
<1>2. /\ above \in DOMAIN nodes /\ ~nodes[above].isLeaf
      /\ left \in DOMAIN nodes /\ right \in DOMAIN nodes
      /\ above # left /\ above # right /\ left # right
      /\ key \in Nat /\ lo[left] < key /\ Below(key, hi[right])
      /\ \E i \in 1 .. Len(keys) + 1 : children[i] = left
  BY <1>40, SplitChild
<1>3. PICK j \in 1 .. Len(keys) + 1 : children[j] = left
  BY <1>2
<1>4. /\ nodes \in Seq(Node) /\ Len(nodes) \in Nat /\ DOMAIN nodes = 1 .. Len(nodes)
      /\ keys \in Seq(Nat) /\ children \in Seq(Nat) /\ Len(keys) \in Nat
      /\ right \in Nat /\ None \notin DOMAIN nodes
      /\ lo \in [DOMAIN nodes -> Nat] /\ hi \in [DOMAIN nodes -> Nat]
  <2>1. nodes \in Seq(Node)
        /\ lo \in [DOMAIN nodes -> Nat] /\ hi \in [DOMAIN nodes -> Nat]
    BY <1>1 DEF BoundsOK
  <2>2. /\ Len(nodes) \in Nat /\ DOMAIN nodes = 1 .. Len(nodes)
        /\ keys \in Seq(Nat) /\ children \in Seq(Nat)
    BY <1>2, <2>1, NodeFields
  <2>3. Len(keys) \in Nat
    BY <2>2, LenProperties
  <2>4. right \in Nat /\ None \notin DOMAIN nodes
    BY <1>2, <2>2 DEF None
  <2> QED BY <2>1, <2>2, <2>3, <2>4
<1>5. /\ KeysOK(keys, lo[above], hi[above])
      /\ Len(children) = Len(keys) + 1
      /\ nodes[above].entries = << >>
      /\ \A i \in 1 .. Len(keys) + 1 :
           ChildOK(nodes, lo, hi, height, left, right, above, i)
  BY <1>35, <1>2 DEF InnerOK
<1>6. /\ lo[left] = IF j = 1 THEN lo[above] ELSE keys[j - 1]
      /\ hi[right] = IF j = Len(keys) + 1 THEN hi[above] ELSE keys[j]
  <2>1. ChildOK(nodes, lo, hi, height, left, right, above, j)
    BY <1>5
  <2>2. /\ lo[left] = IF j = 1 THEN lo[above] ELSE keys[j - 1]
        /\ SeenHi(hi, left, right, left) = IF j = Len(keys) + 1 THEN hi[above] ELSE keys[j]
    BY <1>3, <2>1 DEF ChildOK
  <2> QED BY <2>2 DEF SeenHi
<1>24. PICK K \in Nat : K = Len(keys) /\ j \in 1 .. K + 1
  BY <1>4
<1>7. /\ j # 1 => keys[j - 1] < key /\ j - 1 \in 1 .. Len(keys) /\ keys[j - 1] \in Nat
      /\ j # Len(keys) + 1 => key < keys[j] /\ j \in 1 .. Len(keys) /\ keys[j] \in Nat
  <2>1. ASSUME j # 1
        PROVE  keys[j - 1] < key /\ j - 1 \in 1 .. Len(keys) /\ keys[j - 1] \in Nat
    <3>1. j - 1 \in 1 .. Len(keys)
      <4>1. j # 1 => j - 1 \in 1 .. K
        BY <1>24
      <4> QED BY <1>24, <2>1, <4>1
    <3>2. keys[j - 1] \in Nat
      BY <1>4, <3>1, ElementOfSeq
    <3> QED BY <1>2, <1>6, <2>1, <3>1, <3>2
  <2>2. ASSUME j # Len(keys) + 1
        PROVE  key < keys[j] /\ j \in 1 .. Len(keys) /\ keys[j] \in Nat
    <3>1. j \in 1 .. Len(keys)
      <4>1. j # K + 1 => j \in 1 .. K
        BY <1>24
      <4> QED BY <1>24, <2>2, <4>1
    <3>2. keys[j] \in Nat /\ lo[above] < keys[j] /\ lo[above] \in Nat
      <4>1. keys[j] \in Nat /\ lo[above] \in Nat
        BY <1>2, <1>4, <3>1, ElementOfSeq
      <4> QED BY <1>5, <3>1, <4>1 DEF KeysOK
    <3>3. keys[j] # 0
      BY <3>2
    <3> QED BY <1>2, <1>6, <2>2, <3>1, <3>2, <3>3 DEF Below
  <2> QED BY <2>1, <2>2
<1>8. pos = j - 1 /\ pos + 1 = j /\ pos + 2 = j + 1
  <2>1. pos = j - 1
    <3>1. /\ j # 1 => keys[j - 1] <= key
          /\ j # Len(keys) + 1 => key < keys[j]
      BY <1>2, <1>7
    <3> QED BY <1>41, <1>2, <1>4, <1>5, <3>1, PositionOfChild
  <2> QED BY <1>4, <2>1
<1>9. more = InsertAt(keys, j, key) /\ wider = InsertAt(children, j + 1, right)
  BY <1>42, <1>43, <1>8
<1>10. Widened(keys, children, more, wider, j, key, right)
  BY <1>2, <1>4, <1>5, <1>9, LinkWidens
<1>11. /\ more \in Seq(Nat) /\ Len(more) = Len(keys) + 1
       /\ wider \in Seq(Nat) /\ Len(wider) = Len(more) + 1
  <2>1. /\ more \in Seq(Nat) /\ Len(more) = K + 1
        /\ wider \in Seq(Nat) /\ Len(wider) = K + 2
    BY <1>10, <1>24 DEF Widened
  <2>2. K + 2 = (K + 1) + 1
    OBVIOUS
  <2> QED BY <1>24, <2>1, <2>2
<1>12. IsLinked(nodes, after, above, more, wider, right)
  BY <1>44, <1>2, <1>4, <1>11, LinkedNodes
<1>13. /\ after \in Seq(Node) /\ Len(after) = Len(nodes) /\ DOMAIN after = DOMAIN nodes
       /\ \A k \in DOMAIN nodes : OneLinked(nodes, after, above, more, wider, right, k)
  BY <1>12 DEF IsLinked
<1>14. BoundsOK(after, lo, hi, height)
  <2>1. \A k \in DOMAIN nodes : after[k].isLeaf = nodes[k].isLeaf
    BY <1>13 DEF OneLinked
  <2>2. after \in Seq(Node) /\ Len(after) = Len(nodes) /\ DOMAIN after = DOMAIN nodes
    BY <1>13
  <2>3. SameLeaves(nodes, after)
    BY <2>1, <2>2 DEF SameLeaves
  <2> QED BY <1>31, <2>3, BoundsKept
<1>25. /\ DOMAIN after = DOMAIN nodes
       /\ \A k \in DOMAIN nodes : after[k].isLeaf = nodes[k].isLeaf
  BY <1>13 DEF OneLinked
<1>26. DOMAIN after = DOMAIN nodes
  BY <1>25
<1>15. /\ Len(chain) \in Nat
       /\ \A q \in 1 .. Len(chain) : chain[q] \in DOMAIN nodes
  BY <1>32, LenProperties, ElementOfSeq DEF LinksOK
<1>16. EntriesOf(after, chain) = EntriesOf(nodes, chain)
  BY <1>13, <1>15 DEF EntriesOf, OneLinked
<1>17. LinksOK(after, first, lo, hi, chain)
  <2>1. ASSUME NEW q \in 1 .. Len(chain) PROVE LeafOK(after, lo, hi, chain, q)
    <3>1. LeafOK(nodes, lo, hi, chain, q)
      BY <1>1 DEF LinksOK
    <3>2. /\ after[chain[q]].isLeaf = nodes[chain[q]].isLeaf
          /\ after[chain[q]].entries = nodes[chain[q]].entries
          /\ after[chain[q]].next = nodes[chain[q]].next
      BY <1>13, <1>15 DEF OneLinked
    <3> QED BY <3>1, <3>2 DEF LeafOK
  <2> QED BY <1>32, <1>13, <2>1 DEF LinksOK
<1>18. LeavesOK(after, chain)
  <2> SUFFICES ASSUME NEW k \in DOMAIN nodes, after[k].isLeaf
               PROVE  /\ after[k].keys = << >>
                      /\ after[k].children = << >>
                      /\ \E q \in 1 .. Len(chain) : chain[q] = k
    BY <1>25 DEF LeavesOK
  <2>1. nodes[k].isLeaf
    BY <1>25
  <2>2. k # above
    BY <1>2, <2>1
  <2>3. /\ after[k].keys = nodes[k].keys
        /\ after[k].children = nodes[k].children
    BY <1>13, <2>2 DEF OneLinked
  <2> QED BY <1>34, <2>1, <2>3 DEF LeavesOK
<1>19. \A k \in DOMAIN nodes : hi[k] = SeenHi(hi, None, None, k)
  BY <1>4 DEF SeenHi
<1>20. InnerOK(after, lo, hi, height, None, None)
  <2> SUFFICES ASSUME NEW k \in DOMAIN nodes, ~after[k].isLeaf
               PROVE  InnerNode(after, lo, hi, height, None, None, k)
    BY <1>26, InnerByNode, Zenon
  <2>1. CASE k = above
    <3>1. /\ after[above].entries = << >>
          /\ after[above].keys = more
          /\ after[above].children = wider
      BY <1>2, <1>5, <1>13 DEF OneLinked
    <3>2. KeysOK(more, lo[above], hi[above])
      <4>1. lo[above] \in Nat /\ hi[above] \in Nat
        BY <1>2, <1>4
      <4>2. lo[above] < key
        <5>1. CASE j = 1
          BY <1>2, <1>6, <5>1
        <5>2. CASE j # 1
          <6>1. lo[above] < keys[j - 1] /\ keys[j - 1] \in Nat /\ keys[j - 1] < key
            BY <1>5, <1>7, <5>2 DEF KeysOK
          <6> QED BY <1>2, <4>1, <6>1
        <5> QED BY <5>1, <5>2
      <4>3. Below(key, hi[above])
        <5>1. CASE j = Len(keys) + 1
          BY <1>2, <1>6, <5>1
        <5>2. CASE j # Len(keys) + 1
          <6>1. Below(keys[j], hi[above]) /\ keys[j] \in Nat /\ key < keys[j]
            BY <1>5, <1>7, <5>2 DEF KeysOK
          <6> QED BY <1>2, <4>1, <6>1 DEF Below
        <5> QED BY <5>1, <5>2
      <4>4. (j # 1 => keys[j - 1] < key) /\ (j # Len(keys) + 1 => key < keys[j])
        BY <1>7
      <4> QED BY <1>2, <1>4, <1>5, <1>9, <4>1, <4>2, <4>3, <4>4, KeyInserted
    <3>3. ASSUME NEW i \in 1 .. Len(more) + 1
          PROVE  ChildOK(after, lo, hi, height, None, None, above, i)
      <4>1. \A m \in 1 .. Len(keys) + 1 : children[m] = left => m = j
        BY <1>35, <1>2, <1>3, <1>4, ChildrenDiffer
      <4>2. height[left] = height[right] /\ key = lo[right] /\ key = hi[left]
        BY <1>40, <1>37, <1>2 DEF SplitOK
      <4>3. right \in DOMAIN nodes /\ left \in DOMAIN nodes /\ above \in DOMAIN nodes
            /\ left # right /\ above # right
        BY <1>2
      <4>4. HangsAt(nodes, lo, hi, height, left, right, above, j, key)
        BY <1>3, <1>4, <1>5, <1>19, <4>1, <4>2, <4>3 DEF HangsAt
      <4> QED BY <1>10, <1>12, <4>4, LinkChild
    <3> QED BY <1>11, <2>1, <3>1, <3>2, <3>3 DEF InnerNode
  <2>2. CASE k # above
    <3>1. /\ ~nodes[k].isLeaf
          /\ after[k].entries = nodes[k].entries
          /\ after[k].keys = nodes[k].keys
          /\ after[k].children = nodes[k].children
      BY <1>13, <2>2 DEF OneLinked
    <3>2. ASSUME NEW i \in 1 .. Len(nodes[k].keys) + 1
          PROVE  ChildOK(after, lo, hi, height, None, None, k, i)
      <4>1. ChildOK(nodes, lo, hi, height, left, right, k, i)
        BY <1>35, <3>1 DEF InnerOK
      <4>2. PICK c \in DOMAIN nodes : c = nodes[k].children[i] /\ nodes[c].parent = k
        BY <4>1 DEF ChildOK
      <4>3. c # left /\ c # right
        <5>1. nodes[left].parent = above /\ nodes[right].parent = above
          BY <1>40, <1>1 DEF SplitOK
        <5> QED BY <2>2, <4>2, <5>1
      <4>4. /\ after[c].parent = k
            /\ SeenHi(hi, None, None, c) = SeenHi(hi, left, right, c)
        <5>1. SeenHi(hi, left, right, c) = hi[c]
          BY <4>3 DEF SeenHi
        <5> QED BY <1>13, <1>19, <4>2, <4>3, <5>1 DEF OneLinked
      <4> QED BY <1>13, <3>1, <4>1, <4>2, <4>4 DEF ChildOK
    <3> QED BY <1>35, <3>1, <3>2 DEF InnerOK, InnerNode
  <2> QED BY <2>1, <2>2
<1>21. ParentsOK(after, root, lo, hi, None, None)
  <2>1. nodes[left].parent = above /\ nodes[right].parent = above /\ right # root
    BY <1>40, <1>1 DEF SplitOK
  <2>2. ASSUME NEW k \in DOMAIN nodes, k # root
        PROVE  \E P : HangsIn(after, DOMAIN nodes, k, P)
    <3>0. /\ after[above].children = wider /\ ~after[above].isLeaf
          /\ Len(wider) = Len(keys) + 2 /\ j \in Nat
      <4>1. after[above].children = wider
        BY <1>2, <1>13 DEF OneLinked
      <4>2. ~after[above].isLeaf
        BY <1>2, <1>25
      <4>3. Len(wider) = Len(keys) + 2
        BY <1>10 DEF Widened
      <4> QED BY <1>24, <4>1, <4>2, <4>3
    <3>1. CASE k = right
      <4>1. after[k].parent = above
        BY <1>13, <3>1 DEF OneLinked
      <4>2. j + 1 \in 1 .. Len(keys) + 2
        BY <1>24
      <4>3. wider[j + 1] = right
        BY <1>10, <4>2 DEF Widened
      <4>4. \E i \in 1 .. Len(wider) : wider[i] = k
        BY <3>0, <3>1, <4>2, <4>3
      <4>5. PICK kids : kids = wider
        OBVIOUS
      <4>6. after[above].children = kids /\ \E i \in 1 .. Len(kids) : kids[i] = k
        BY <3>0, <4>4, <4>5
      <4>7. HangsIn(after, DOMAIN nodes, k, above)
        BY <1>2, <3>0, <4>1, <4>6 DEF HangsIn
      <4> QED BY <4>7
    <3>2. CASE k # right
      <4>1. PICK P \in DOMAIN nodes : P = nodes[k].parent
        BY <1>36, <2>2, <3>2 DEF ParentsOK
      <4>2. /\ ~nodes[P].isLeaf
            /\ \E i \in 1 .. Len(nodes[P].children) : nodes[P].children[i] = k
        BY <1>36, <2>2, <3>2, <4>1 DEF ParentsOK
      <4>3. /\ after[k].parent = P /\ ~after[P].isLeaf
            /\ P # above => after[P].children = nodes[P].children
        <5>1. after[k].parent = P
          BY <1>13, <3>2, <4>1 DEF OneLinked
        <5>2. ~after[P].isLeaf
          BY <1>25, <4>2
        <5>3. P # above => after[P].children = nodes[P].children
          BY <1>13 DEF OneLinked
        <5> QED BY <5>1, <5>2, <5>3
      <4>4. ASSUME P = above
            PROVE  \E i \in 1 .. Len(wider) : wider[i] = k
        <5>1. PICK i \in 1 .. Len(keys) + 1 : children[i] = k
          BY <1>5, <4>2, <4>4
        <5>2. CASE i <= j
          <6>1. i \in 1 .. Len(keys) + 2
            BY <1>24
          <6>2. wider[i] = k
            BY <1>10, <5>1, <5>2, <6>1 DEF Widened
          <6> QED BY <3>0, <6>1, <6>2
        <5>3. CASE i > j
          <6>1. i + 1 \in 1 .. Len(keys) + 2 /\ i + 1 > j + 1 /\ (i + 1) - 1 = i
            <7>1. i \in 1 .. K + 1
              BY <1>24
            <7>2. i + 1 \in 1 .. K + 2 /\ i + 1 > j + 1 /\ (i + 1) - 1 = i
              BY <1>24, <5>3, <7>1
            <7> QED BY <1>24, <7>2
          <6>2. wider[i + 1] = children[(i + 1) - 1]
            BY <1>10, <6>1 DEF Widened
          <6> QED BY <3>0, <5>1, <6>1, <6>2
        <5>4. i <= j \/ i > j
          BY <1>24
        <5> QED BY <5>2, <5>3, <5>4
      <4>5. PICK kids : kids = after[P].children
        OBVIOUS
      <4>6. \E i \in 1 .. Len(kids) : kids[i] = k
        <5>1. CASE P = above
          <6>1. kids = wider
            BY <3>0, <4>5, <5>1
          <6> QED BY <4>4, <5>1, <6>1
        <5>2. CASE P # above
          <6>1. kids = nodes[P].children
            BY <4>3, <4>5, <5>2
          <6> QED BY <4>2, <6>1
        <5> QED BY <5>1, <5>2
      <4>7. HangsIn(after, DOMAIN nodes, k, P)
        BY <4>1, <4>3, <4>5, <4>6 DEF HangsIn
      <4> QED BY <4>7
    <3> QED BY <3>1, <3>2
  <2>3. /\ root \in DOMAIN nodes /\ after[root].parent = None
        /\ lo[root] = 0 /\ SeenHi(hi, None, None, root) = 0
    <3>1. /\ root \in DOMAIN nodes /\ nodes[root].parent = None
          /\ lo[root] = 0 /\ SeenHi(hi, left, right, root) = 0
      BY <1>1 DEF ParentsOK
    <3>2. root # left
      BY <1>40, <2>1, <3>1
    <3>3. hi[root] = 0
      BY <3>1, <3>2 DEF SeenHi
    <3> QED BY <1>13, <1>19, <2>1, <3>1, <3>3 DEF OneLinked
  <2> QED BY <1>26, <2>2, <2>3, ParentsByNode
<1>22. SplitOK(after, root, any, lo, hi, height, None, None)
  BY DEF SplitOK
<1>23. Shape(after, root, first, any, None, None, lo, hi, height, chain)
  BY <1>1, <1>14, <1>16, <1>17, <1>18, <1>20, <1>21, <1>22 DEF Shape
<1> QED BY <1>2, <1>11, <1>12, <1>16, <1>23

-----------------------------------------------------------------------------
(* The parent splits.                                                      *)

\* Of K keys and K + 1 children the first mid keys stay with mid + 1 children,
\* and the key after them goes up.
IsHalved(keys, children, K, mid, lowKeys, lowChildren, highKeys, moved) ==
  /\ K \in Nat /\ K = Len(keys) /\ K + 1 = Len(children)
  /\ mid \in 1 .. K - 2
  /\ lowKeys \in Seq(Nat) /\ Len(lowKeys) = mid
  /\ \A i \in 1 .. mid : lowKeys[i] = keys[i]
  /\ lowChildren \in Seq(Nat) /\ Len(lowChildren) = mid + 1
  /\ \A i \in 1 .. mid + 1 : lowChildren[i] = children[i]
  /\ highKeys \in Seq(Nat) /\ Len(highKeys) = K - mid - 1
  /\ \A i \in 1 .. K - mid - 1 : highKeys[i] = keys[mid + 1 + i]
  /\ moved \in Seq(Nat) /\ Len(moved) = K - mid
  /\ \A i \in 1 .. K - mid : moved[i] = children[mid + 1 + i]

LEMMA HalfProperties == \A K \in Nat : K >= 3 => K \div 2 \in 1 .. K - 2
OBVIOUS

LEMMA HalvedArrays ==
  ASSUME NEW keys \in Seq(Nat), NEW children \in Seq(Nat),
         Len(children) = Len(keys) + 1, Len(keys) >= 3,
         NEW mid, mid = Len(keys) \div 2
  PROVE  IsHalved(keys, children, Len(keys), mid,
                  SubSeq(keys, 1, mid), SubSeq(children, 1, mid + 1),
                  UpperKeys(keys), UpperChildren(keys, children))
<1>1. PICK K \in Nat : K = Len(keys)
  BY LenProperties
<1>2. /\ K >= 3 /\ K + 1 = Len(children)
      /\ \A i \in 1 .. K : keys[i] \in Nat
      /\ \A i \in 1 .. K + 1 : children[i] \in Nat
  BY <1>1, ElementOfSeq
<1>3. mid \in 1 .. K - 2 /\ mid \in Nat
  <2>1. mid = K \div 2
    BY <1>1
  <2>2. K \div 2 \in 1 .. K - 2
    BY <1>2, HalfProperties
  <2> QED BY <2>1, <2>2
<1>9. PICK m \in Nat : m = mid
  BY <1>3
<1>10. m \in 1 .. K - 2
  BY <1>3, <1>9
<1>4. /\ SubSeq(keys, 1, m) \in Seq(Nat) /\ Len(SubSeq(keys, 1, m)) = m
      /\ \A i \in 1 .. m : SubSeq(keys, 1, m)[i] = keys[i]
  <2>1. /\ 1 \in Int /\ m \in Int /\ 1 <= m /\ m - 1 + 1 = m
        /\ \A i \in 1 .. m : keys[i] \in Nat
        /\ \A i \in 1 .. m : 1 + i - 1 = i
    BY <1>2, <1>10
  <2>2. /\ SubSeq(keys, 1, m) \in Seq(Nat)
        /\ Len(SubSeq(keys, 1, m)) = IF 1 <= m THEN m - 1 + 1 ELSE 0
        /\ \A i \in 1 .. m - 1 + 1 : SubSeq(keys, 1, m)[i] = keys[1 + i - 1]
    BY <2>1, SubSeqProperties
  <2> QED BY <2>1, <2>2
<1>5. /\ SubSeq(children, 1, m + 1) \in Seq(Nat)
      /\ Len(SubSeq(children, 1, m + 1)) = m + 1
      /\ \A i \in 1 .. m + 1 : SubSeq(children, 1, m + 1)[i] = children[i]
  <2>1. /\ 1 \in Int /\ m + 1 \in Int /\ 1 <= m + 1 /\ (m + 1) - 1 + 1 = m + 1
        /\ \A i \in 1 .. m + 1 : children[i] \in Nat
        /\ \A i \in 1 .. m + 1 : 1 + i - 1 = i
    BY <1>2, <1>10
  <2>2. /\ SubSeq(children, 1, m + 1) \in Seq(Nat)
        /\ Len(SubSeq(children, 1, m + 1)) = IF 1 <= m + 1 THEN (m + 1) - 1 + 1 ELSE 0
        /\ \A i \in 1 .. (m + 1) - 1 + 1 :
             SubSeq(children, 1, m + 1)[i] = children[1 + i - 1]
    BY <2>1, SubSeqProperties
  <2> QED BY <2>1, <2>2
<1>6. /\ UpperKeys(keys) \in Seq(Nat) /\ Len(UpperKeys(keys)) = K - m - 1
      /\ \A i \in 1 .. K - m - 1 : UpperKeys(keys)[i] = keys[m + 1 + i]
  <2>1. /\ m + 2 \in Int /\ K \in Int /\ m + 2 <= K /\ K - (m + 2) + 1 = K - m - 1
        /\ \A i \in m + 2 .. K : keys[i] \in Nat
        /\ \A i \in 1 .. K - m - 1 : (m + 2) + i - 1 = m + 1 + i
    BY <1>2, <1>10
  <2>2. /\ SubSeq(keys, m + 2, K) \in Seq(Nat)
        /\ Len(SubSeq(keys, m + 2, K)) = IF m + 2 <= K THEN K - (m + 2) + 1 ELSE 0
        /\ \A i \in 1 .. K - (m + 2) + 1 :
             SubSeq(keys, m + 2, K)[i] = keys[(m + 2) + i - 1]
    <3>1. \A i \in m + 2 .. K : keys[i] \in Nat
      BY <2>1
    <3>2. m + 2 \in Int /\ K \in Int
      BY <2>1
    <3> QED BY <3>1, <3>2, SubSeqProperties
  <2>3. UpperKeys(keys) = SubSeq(keys, m + 2, K)
    BY <1>1, <1>9 DEF UpperKeys
  <2> QED BY <2>1, <2>2, <2>3
<1>7. /\ UpperChildren(keys, children) \in Seq(Nat)
      /\ Len(UpperChildren(keys, children)) = K - m
      /\ \A i \in 1 .. K - m : UpperChildren(keys, children)[i] = children[m + 1 + i]
  <2>1. /\ m + 2 \in Int /\ K + 1 \in Int /\ m + 2 <= K + 1
        /\ (K + 1) - (m + 2) + 1 = K - m
        /\ \A i \in m + 2 .. K + 1 : children[i] \in Nat
        /\ \A i \in 1 .. K - m : (m + 2) + i - 1 = m + 1 + i
    BY <1>2, <1>10
  <2>2. /\ SubSeq(children, m + 2, K + 1) \in Seq(Nat)
        /\ Len(SubSeq(children, m + 2, K + 1)) =
             IF m + 2 <= K + 1 THEN (K + 1) - (m + 2) + 1 ELSE 0
        /\ \A i \in 1 .. (K + 1) - (m + 2) + 1 :
             SubSeq(children, m + 2, K + 1)[i] = children[(m + 2) + i - 1]
    BY <2>1, SubSeqProperties
  <2>3. UpperChildren(keys, children) = SubSeq(children, m + 2, K + 1)
    BY <1>1, <1>2, <1>9 DEF UpperChildren
  <2> QED BY <2>1, <2>2, <2>3
<1> QED BY <1>1, <1>2, <1>3, <1>4, <1>5, <1>6, <1>7, <1>9 DEF IsHalved

InnerSplit(nodes, n, lowKeys, lowChildren, highKeys, moved, right, parent) ==
  Append(SetParents([nodes EXCEPT ![n].keys = lowKeys, ![n].children = lowChildren],
                    moved, right),
         Inner(highKeys, moved, parent))

OldAfterInnerSplit(nodes, after, n, lowKeys, lowChildren, moved, right, k) ==
  /\ after[k].isLeaf = nodes[k].isLeaf
  /\ after[k].entries = nodes[k].entries
  /\ after[k].next = nodes[k].next
  /\ after[k].keys = IF k = n THEN lowKeys ELSE nodes[k].keys
  /\ after[k].children = IF k = n THEN lowChildren ELSE nodes[k].children
  /\ after[k].parent = IF k \in ToSet(moved) THEN right ELSE nodes[k].parent
NewAfterInnerSplit(nodes, after, n, highKeys, moved, right) ==
  /\ ~after[right].isLeaf
  /\ after[right].entries = << >>
  /\ after[right].keys = highKeys
  /\ after[right].children = moved
  /\ after[right].parent = nodes[n].parent
IsInnerSplit(nodes, after, n, lowKeys, lowChildren, highKeys, moved, right) ==
  /\ after \in Seq(Node)
  /\ Len(after) = right
  /\ DOMAIN after = 1 .. right
  /\ \A k \in DOMAIN nodes :
       OldAfterInnerSplit(nodes, after, n, lowKeys, lowChildren, moved, right, k)
  /\ NewAfterInnerSplit(nodes, after, n, highKeys, moved, right)

LEMMA InnerSplitNodes ==
  ASSUME NEW nodes \in Seq(Node), NEW n \in DOMAIN nodes,
         NEW lowKeys \in Seq(Nat), NEW lowChildren \in Seq(Nat),
         NEW highKeys \in Seq(Nat), NEW moved \in Seq(Nat),
         NEW right, right = Len(nodes) + 1
  PROVE  IsInnerSplit(nodes,
           InnerSplit(nodes, n, lowKeys, lowChildren, highKeys, moved, right,
                      nodes[n].parent),
           n, lowKeys, lowChildren, highKeys, moved, right)
<1> DEFINE halved == [nodes EXCEPT ![n].keys = lowKeys, ![n].children = lowChildren]
           old == SetParents(halved, moved, right)
           new == Inner(highKeys, moved, nodes[n].parent)
           after == InnerSplit(nodes, n, lowKeys, lowChildren, highKeys, moved, right,
                               nodes[n].parent)
<1>1. /\ Len(nodes) \in Nat /\ DOMAIN nodes = 1 .. Len(nodes) /\ right \in Nat
      /\ \A k \in DOMAIN nodes : nodes[k] \in Node
      /\ nodes[n].parent \in Nat
  BY NodeFields
<1>2. DOMAIN halved = 1 .. Len(nodes)
  BY <1>1
<1>3. ASSUME NEW k \in DOMAIN nodes
      PROVE  halved[k] = IF k = n THEN [nodes[n] EXCEPT !.keys = lowKeys,
                                                         !.children = lowChildren]
                         ELSE nodes[k]
  BY <1>1
<1>4. /\ old = [k \in 1 .. Len(nodes) |-> old[k]]
      /\ \A k \in DOMAIN nodes :
           old[k] = IF k \in ToSet(moved) THEN [halved[k] EXCEPT !.parent = right]
                    ELSE halved[k]
  BY <1>1, <1>2 DEF SetParents
<1> HIDE DEF halved, old
<1>5. ASSUME NEW k \in DOMAIN nodes
      PROVE  /\ old[k] \in Node
             /\ OldAfterInnerSplit(nodes, old, n, lowKeys, lowChildren, moved, right, k)
  <2>1. nodes[k] \in Node
    BY <1>1
  <2>2. /\ halved[k] \in Node
        /\ halved[k].isLeaf = nodes[k].isLeaf
        /\ halved[k].entries = nodes[k].entries
        /\ halved[k].next = nodes[k].next
        /\ halved[k].keys = IF k = n THEN lowKeys ELSE nodes[k].keys
        /\ halved[k].children = IF k = n THEN lowChildren ELSE nodes[k].children
        /\ halved[k].parent = nodes[k].parent
    <3>1. CASE k = n
      BY <1>3, <2>1, <3>1 DEF Node
    <3>2. CASE k # n
      BY <1>3, <2>1, <3>2 DEF Node
    <3> QED BY <3>1, <3>2
  <2>3. CASE k \in ToSet(moved)
    <3>1. old[k] = [halved[k] EXCEPT !.parent = right]
      BY <1>4, <2>3
    <3>2. old[k] \in Node
      BY <1>1, <2>2, <3>1 DEF Node
    <3>3. /\ old[k].isLeaf = halved[k].isLeaf
          /\ old[k].entries = halved[k].entries
          /\ old[k].next = halved[k].next
          /\ old[k].keys = halved[k].keys
          /\ old[k].children = halved[k].children
          /\ old[k].parent = right
      BY <2>2, <3>1 DEF Node
    <3> QED BY <2>2, <2>3, <3>2, <3>3 DEF OldAfterInnerSplit
  <2>4. CASE k \notin ToSet(moved)
    <3>1. old[k] = halved[k]
      BY <1>4, <2>4
    <3> QED BY <2>2, <2>4, <3>1 DEF OldAfterInnerSplit
  <2> QED BY <2>3, <2>4
<1>6. new \in Node
  <2>1. << >> \in Seq(Cell(Nat))
    BY EmptySeq
  <2> QED BY <1>1, <2>1 DEF Node, Inner, None
<1>7. /\ ~new.isLeaf
      /\ new.entries = << >>
      /\ new.keys = highKeys
      /\ new.children = moved
      /\ new.parent = nodes[n].parent
  BY DEF Inner
<1>8. after = Append(old, new)
  BY DEF InnerSplit, old, halved
<1> HIDE DEF new, after
<1>9. old \in Seq(Node) /\ Len(old) = Len(nodes)
  <2>1. old \in [1 .. Len(nodes) -> Node]
    BY <1>1, <1>4, <1>5, Zenon
  <2> QED BY <1>1, <2>1, FunctionIsSeq
<1>10. /\ after \in Seq(Node)
       /\ Len(after) = right
       /\ DOMAIN after = 1 .. right
       /\ \A k \in DOMAIN nodes : after[k] = old[k]
       /\ after[right] = new
  BY <1>1, <1>6, <1>8, <1>9, AppendProperties, LenProperties
<1>11. \A k \in DOMAIN nodes :
         OldAfterInnerSplit(nodes, after, n, lowKeys, lowChildren, moved, right, k)
  <2> TAKE k \in DOMAIN nodes
  <2>1. OldAfterInnerSplit(nodes, old, n, lowKeys, lowChildren, moved, right, k)
    BY <1>5
  <2>2. after[k] = old[k]
    BY <1>10
  <2> QED BY <2>1, <2>2 DEF OldAfterInnerSplit
<1>12. NewAfterInnerSplit(nodes, after, n, highKeys, moved, right)
  BY <1>7, <1>10 DEF NewAfterInnerSplit
<1> QED BY <1>10, <1>11, <1>12 DEF IsInnerSplit, after

\* Where the children that move were.
LEMMA MovedPositions ==
  ASSUME NEW K \in Nat, NEW mid \in 1 .. K - 2, NEW i \in 1 .. K - mid
  PROVE  /\ mid + 1 + i \in 1 .. K + 1 /\ mid + 1 + i > mid + 1 /\ mid + 1 + i # 1
         /\ i = 1 => (mid + 1 + i) - 1 = mid + 1
         /\ i # 1 => i - 1 \in 1 .. K - mid - 1 /\ mid + 1 + (i - 1) = (mid + 1 + i) - 1
         /\ mid + 1 + i = K + 1 <=> i = (K - mid - 1) + 1
         /\ mid + 1 + i # K + 1 => i \in 1 .. K - mid - 1
OBVIOUS

\* The keys and children of the inner node n are halved.
Halves(nodes, lo, hi, height, n, K, mid, lowKeys, lowChildren, highKeys, moved) ==
  /\ nodes \in Seq(Node)
  /\ lo \in [DOMAIN nodes -> Nat]
  /\ InnerOK(nodes, lo, hi, height, None, None)
  /\ n \in DOMAIN nodes /\ ~nodes[n].isLeaf
  /\ IsHalved(nodes[n].keys, nodes[n].children, K, mid, lowKeys, lowChildren,
              highKeys, moved)

\* Which children move: those from position mid + 2 on.
LEMMA MovedChildren ==
  ASSUME NEW nodes, NEW lo, NEW hi, NEW height, NEW n,
         NEW K, NEW mid, NEW lowKeys, NEW lowChildren, NEW highKeys, NEW moved,
         Halves(nodes, lo, hi, height, n, K, mid, lowKeys, lowChildren, highKeys, moved)
  PROVE  /\ \A i \in 1 .. mid + 1 : nodes[n].children[i] \notin ToSet(moved)
         /\ \A i \in mid + 2 .. K + 1 : nodes[n].children[i] \in ToSet(moved)
         /\ \A k \in ToSet(moved) :
              /\ k \in DOMAIN nodes /\ nodes[k].parent = n
              /\ \E i \in 1 .. K - mid : moved[i] = k
         /\ \A i \in 1 .. K - mid : moved[i] \in ToSet(moved)
<1> DEFINE keys == nodes[n].keys
           children == nodes[n].children
<1>0. /\ nodes \in Seq(Node) /\ lo \in [DOMAIN nodes -> Nat]
      /\ InnerOK(nodes, lo, hi, height, None, None)
      /\ n \in DOMAIN nodes /\ ~nodes[n].isLeaf
      /\ IsHalved(nodes[n].keys, nodes[n].children, K, mid, lowKeys, lowChildren,
                  highKeys, moved)
  BY DEF Halves
<1>1. /\ K \in Nat /\ K = Len(keys) /\ mid \in 1 .. K - 2
      /\ Len(moved) = K - mid /\ moved \in Seq(Nat)
      /\ \A i \in 1 .. K - mid : moved[i] = children[mid + 1 + i]
  BY <1>0 DEF IsHalved
<1>2. ToSet(moved) = {moved[i] : i \in 1 .. K - mid}
  BY <1>1, LenProperties DEF ToSet
<1>3. \A i \in 1 .. K + 1 : ChildOK(nodes, lo, hi, height, None, None, n, i)
  BY <1>0, <1>1 DEF InnerOK
<1>8. K \in Nat /\ mid \in 1 .. K - 2
  BY <1>1
<1>4. \A i \in 1 .. K - mid : mid + 1 + i \in 1 .. K + 1 /\ mid + 1 + i > mid + 1
  BY <1>8, MovedPositions
<1>5. ASSUME NEW k \in ToSet(moved)
      PROVE  /\ k \in DOMAIN nodes /\ nodes[k].parent = n
             /\ \E i \in 1 .. K - mid : moved[i] = k
  <2>1. PICK i \in 1 .. K - mid : moved[i] = k
    BY <1>2
  <2>2. k = children[mid + 1 + i] /\ mid + 1 + i \in 1 .. K + 1
    BY <1>1, <1>4, <2>1
  <2>3. ChildOK(nodes, lo, hi, height, None, None, n, mid + 1 + i)
    BY <1>3, <2>2
  <2>4. k \in DOMAIN nodes /\ nodes[k].parent = n
    BY <2>2, <2>3 DEF ChildOK
  <2> QED BY <2>1, <2>4
<1>6. ASSUME NEW i \in 1 .. mid + 1 PROVE children[i] \notin ToSet(moved)
  <2> SUFFICES ASSUME children[i] \in ToSet(moved) PROVE FALSE
    OBVIOUS
  <2>1. PICK j \in 1 .. K - mid : children[i] = moved[j]
    BY <1>2
  <2>2. children[i] = children[mid + 1 + j]
    BY <1>1, <2>1
  <2>3. i \in 1 .. K + 1 /\ mid + 1 + j \in 1 .. K + 1 /\ i # mid + 1 + j
    BY <1>4, <1>8
  <2>4. K = Len(nodes[n].keys)
    BY <1>1
  <2>5. \A a, b \in 1 .. K + 1 : children[a] = children[b] => a = b
    BY <1>0, <2>4, ChildrenDiffer
  <2> QED BY <2>2, <2>3, <2>5
<1>7. ASSUME NEW i \in mid + 2 .. K + 1 PROVE children[i] \in ToSet(moved)
  <2>1. i - (mid + 1) \in 1 .. K - mid /\ mid + 1 + (i - (mid + 1)) = i
    BY <1>8
  <2>2. moved[i - (mid + 1)] = children[i]
    BY <1>1, <2>1
  <2> QED BY <1>2, <2>1, <2>2
<1> QED BY <1>2, <1>5, <1>6, <1>7

\* The bounds and heights once n has given a part of its keys to right.
GaveTo(nodes, lo, hi, height, n, m, right, lo2, hi2, height2) ==
  /\ \A k \in DOMAIN nodes :
       /\ lo2[k] = lo[k]
       /\ hi2[k] = IF k = n THEN m ELSE hi[k]
       /\ height2[k] = height[k]
       /\ SeenHi(hi2, n, right, k) = hi[k]
       /\ SeenHi(hi, None, None, k) = hi[k]
       /\ k # right
  /\ lo2[right] = m
  /\ hi2[right] = hi[n]
  /\ height2[right] = height[n]
  /\ 1 .. right = DOMAIN nodes \cup {right}

\* Everything known when an inner node has split at its key m.
InnerSplits(nodes, lo, hi, height, n, K, mid, m, right, after, lo2, hi2, height2,
            lowKeys, lowChildren, highKeys, moved) ==
  /\ nodes \in Seq(Node)
  /\ lo \in [DOMAIN nodes -> Nat]
  /\ InnerOK(nodes, lo, hi, height, None, None)
  /\ n \in DOMAIN nodes /\ ~nodes[n].isLeaf
  /\ IsHalved(nodes[n].keys, nodes[n].children, K, mid, lowKeys, lowChildren,
              highKeys, moved)
  /\ m = nodes[n].keys[mid + 1]
  /\ IsInnerSplit(nodes, after, n, lowKeys, lowChildren, highKeys, moved, right)
  /\ GaveTo(nodes, lo, hi, height, n, m, right, lo2, hi2, height2)

LEMMA SplitHalves ==
  ASSUME NEW nodes, NEW lo, NEW hi, NEW height, NEW n, NEW K, NEW mid, NEW m, NEW right,
         NEW after, NEW lo2, NEW hi2, NEW height2,
         NEW lowKeys, NEW lowChildren, NEW highKeys, NEW moved,
         InnerSplits(nodes, lo, hi, height, n, K, mid, m, right, after, lo2, hi2,
                     height2, lowKeys, lowChildren, highKeys, moved)
  PROVE  Halves(nodes, lo, hi, height, n, K, mid, lowKeys, lowChildren, highKeys, moved)
BY DEF InnerSplits, Halves

\* The children the node keeps.
LEMMA LowChild ==
  ASSUME NEW nodes, NEW lo, NEW hi, NEW height, NEW n, NEW K, NEW mid, NEW m, NEW right,
         NEW after, NEW lo2, NEW hi2, NEW height2,
         NEW lowKeys, NEW lowChildren, NEW highKeys, NEW moved,
         InnerSplits(nodes, lo, hi, height, n, K, mid, m, right, after, lo2, hi2,
                     height2, lowKeys, lowChildren, highKeys, moved),
         NEW i \in 1 .. mid + 1
  PROVE  ChildOK(after, lo2, hi2, height2, n, right, n, i)
<1>0. /\ nodes \in Seq(Node)
      /\ lo \in [DOMAIN nodes -> Nat]
      /\ InnerOK(nodes, lo, hi, height, None, None)
      /\ n \in DOMAIN nodes /\ ~nodes[n].isLeaf
      /\ IsHalved(nodes[n].keys, nodes[n].children, K, mid, lowKeys, lowChildren,
                  highKeys, moved)
      /\ m = nodes[n].keys[mid + 1]
      /\ IsInnerSplit(nodes, after, n, lowKeys, lowChildren, highKeys, moved, right)
      /\ GaveTo(nodes, lo, hi, height, n, m, right, lo2, hi2, height2)
  BY DEF InnerSplits
<1>20. Halves(nodes, lo, hi, height, n, K, mid, lowKeys, lowChildren, highKeys, moved)
  BY SplitHalves
<1> DEFINE keys == nodes[n].keys
           children == nodes[n].children
<1>1. /\ K \in Nat /\ K = Len(keys) /\ mid \in 1 .. K - 2
      /\ Len(lowKeys) = mid
      /\ \A j \in 1 .. mid : lowKeys[j] = keys[j]
      /\ \A j \in 1 .. mid + 1 : lowChildren[j] = children[j]
  BY <1>0 DEF IsHalved
<1>2. i \in 1 .. K + 1 /\ i # K + 1 /\ (i # mid + 1 => i \in 1 .. mid)
      /\ (i # 1 => i - 1 \in 1 .. mid)
  BY <1>1
<1>3. ChildOK(nodes, lo, hi, height, None, None, n, i)
  BY <1>0, <1>1, <1>2 DEF InnerOK
<1>4. PICK c \in DOMAIN nodes : c = children[i]
  BY <1>3 DEF ChildOK
<1>5. /\ nodes[c].parent = n
      /\ height[c] + 1 = height[n]
      /\ lo[c] = IF i = 1 THEN lo[n] ELSE keys[i - 1]
      /\ SeenHi(hi, None, None, c) = keys[i]
  BY <1>1, <1>2, <1>3, <1>4 DEF ChildOK
<1>6. c \notin ToSet(moved)
  BY <1>4, <1>1, <1>2, <1>20, MovedChildren
<1>7. /\ after[c].parent = nodes[c].parent
      /\ after[n].keys = lowKeys
      /\ after[n].children = lowChildren
      /\ c \in DOMAIN after
  <2>1. after[c].parent = nodes[c].parent
    BY <1>0, <1>4, <1>6 DEF IsInnerSplit, OldAfterInnerSplit
  <2>2. after[n].keys = lowKeys /\ after[n].children = lowChildren
    BY <1>0 DEF IsInnerSplit, OldAfterInnerSplit
  <2>3. c \in DOMAIN after
    BY <1>0, <1>4 DEF IsInnerSplit, GaveTo
  <2> QED BY <2>1, <2>2, <2>3
<1>8. /\ lo2[c] = lo[c] /\ lo2[n] = lo[n]
      /\ height2[c] = height[c] /\ height2[n] = height[n]
      /\ hi2[n] = m
      /\ SeenHi(hi2, n, right, c) = SeenHi(hi, None, None, c)
  BY <1>0, <1>4 DEF GaveTo
<1>9. lowChildren[i] = c
  BY <1>1, <1>4
<1>10. lo2[c] = IF i = 1 THEN lo2[n] ELSE lowKeys[i - 1]
  BY <1>1, <1>2, <1>5, <1>8
<1>11. SeenHi(hi2, n, right, c) = IF i = Len(lowKeys) + 1 THEN hi2[n] ELSE lowKeys[i]
  BY <1>0, <1>1, <1>2, <1>5, <1>8
<1> QED BY <1>5, <1>7, <1>8, <1>9, <1>10, <1>11 DEF ChildOK

\* The children that go to the new node.
LEMMA HighChild ==
  ASSUME NEW nodes, NEW lo, NEW hi, NEW height, NEW n, NEW K, NEW mid, NEW m, NEW right,
         NEW after, NEW lo2, NEW hi2, NEW height2,
         NEW lowKeys, NEW lowChildren, NEW highKeys, NEW moved,
         InnerSplits(nodes, lo, hi, height, n, K, mid, m, right, after, lo2, hi2,
                     height2, lowKeys, lowChildren, highKeys, moved),
         NEW i \in 1 .. K - mid
  PROVE  ChildOK(after, lo2, hi2, height2, n, right, right, i)
<1>0. /\ nodes \in Seq(Node)
      /\ lo \in [DOMAIN nodes -> Nat]
      /\ InnerOK(nodes, lo, hi, height, None, None)
      /\ n \in DOMAIN nodes /\ ~nodes[n].isLeaf
      /\ IsHalved(nodes[n].keys, nodes[n].children, K, mid, lowKeys, lowChildren,
                  highKeys, moved)
      /\ m = nodes[n].keys[mid + 1]
      /\ IsInnerSplit(nodes, after, n, lowKeys, lowChildren, highKeys, moved, right)
      /\ GaveTo(nodes, lo, hi, height, n, m, right, lo2, hi2, height2)
  BY DEF InnerSplits
<1>20. Halves(nodes, lo, hi, height, n, K, mid, lowKeys, lowChildren, highKeys, moved)
  BY SplitHalves
<1> DEFINE keys == nodes[n].keys
           children == nodes[n].children
<1>1. /\ K \in Nat /\ K = Len(keys) /\ mid \in 1 .. K - 2
      /\ Len(highKeys) = K - mid - 1
      /\ \A j \in 1 .. K - mid - 1 : highKeys[j] = keys[mid + 1 + j]
      /\ \A j \in 1 .. K - mid : moved[j] = children[mid + 1 + j]
  BY <1>0 DEF IsHalved
<1>13. K \in Nat /\ mid \in 1 .. K - 2
  BY <1>1
<1>2. PICK q \in 1 .. K + 1 : q = mid + 1 + i
  BY <1>13, MovedPositions
<1>3. /\ q # 1
      /\ i = 1 => q - 1 = mid + 1
      /\ i # 1 => i - 1 \in 1 .. K - mid - 1 /\ mid + 1 + (i - 1) = q - 1
      /\ q = K + 1 <=> i = (K - mid - 1) + 1
      /\ q # K + 1 => i \in 1 .. K - mid - 1
  BY <1>2, <1>13, MovedPositions
<1>4. ChildOK(nodes, lo, hi, height, None, None, n, q)
  BY <1>0, <1>1 DEF InnerOK
<1>5. PICK c \in DOMAIN nodes : c = children[q]
  BY <1>4 DEF ChildOK
<1>6. /\ height[c] + 1 = height[n]
      /\ lo[c] = keys[q - 1]
      /\ SeenHi(hi, None, None, c) = IF q = K + 1 THEN hi[n] ELSE keys[q]
  BY <1>1, <1>3, <1>4, <1>5 DEF ChildOK
<1>7. moved[i] = c
  BY <1>1, <1>2, <1>5
<1>8. c \in ToSet(moved)
  BY <1>7, <1>20, MovedChildren
<1>9. /\ after[c].parent = right
      /\ after[right].keys = highKeys
      /\ after[right].children = moved
      /\ c \in DOMAIN after
  <2>1. after[c].parent = right
    BY <1>0, <1>5, <1>8 DEF IsInnerSplit, OldAfterInnerSplit
  <2>2. after[right].keys = highKeys /\ after[right].children = moved
    BY <1>0 DEF IsInnerSplit, NewAfterInnerSplit
  <2>3. c \in DOMAIN after
    BY <1>0, <1>5 DEF IsInnerSplit, GaveTo
  <2> QED BY <2>1, <2>2, <2>3
<1>10. /\ lo2[c] = lo[c] /\ lo2[right] = m
       /\ height2[c] = height[c] /\ height2[right] = height[n]
       /\ hi2[right] = hi[n]
       /\ SeenHi(hi2, n, right, c) = SeenHi(hi, None, None, c)
  BY <1>0, <1>5 DEF GaveTo
<1>11. lo2[c] = IF i = 1 THEN lo2[right] ELSE highKeys[i - 1]
  <2>1. CASE i = 1
    BY <1>0, <1>3, <1>6, <1>10, <2>1
  <2>2. CASE i # 1
    BY <1>1, <1>3, <1>6, <1>10, <2>2
  <2> QED BY <2>1, <2>2
<1>12. SeenHi(hi2, n, right, c) = IF i = Len(highKeys) + 1 THEN hi2[right] ELSE highKeys[i]
  <2>1. CASE q = K + 1
    BY <1>1, <1>3, <1>6, <1>10, <2>1
  <2>2. CASE q # K + 1
    BY <1>1, <1>2, <1>3, <1>6, <1>10, <2>2
  <2> QED BY <2>1, <2>2
<1> QED BY <1>6, <1>7, <1>9, <1>10, <1>11, <1>12 DEF ChildOK

\* The keys of the two halves of an inner node, parted by m.
HalvesAt(keys, children, low, high, K, mid, lowKeys, lowChildren, highKeys, moved, m) ==
  /\ keys \in Seq(Nat) /\ low \in Nat /\ high \in Nat
  /\ KeysOK(keys, low, high)
  /\ IsHalved(keys, children, K, mid, lowKeys, lowChildren, highKeys, moved)
  /\ m = keys[mid + 1]

LEMMA HalvedKeys ==
  ASSUME NEW keys, NEW children, NEW low, NEW high,
         NEW K, NEW mid, NEW lowKeys, NEW lowChildren, NEW highKeys, NEW moved, NEW m,
         HalvesAt(keys, children, low, high, K, mid, lowKeys, lowChildren, highKeys,
                  moved, m)
  PROVE  /\ m \in Nat /\ low < m /\ Below(m, high)
         /\ KeysOK(lowKeys, low, m)
         /\ KeysOK(highKeys, m, high)
<1>0. /\ keys \in Seq(Nat) /\ low \in Nat /\ high \in Nat
      /\ KeysOK(keys, low, high)
      /\ IsHalved(keys, children, K, mid, lowKeys, lowChildren, highKeys, moved)
      /\ m = keys[mid + 1]
  BY DEF HalvesAt
<1>1. /\ K \in Nat /\ K = Len(keys) /\ mid \in 1 .. K - 2
      /\ Len(lowKeys) = mid
      /\ \A i \in 1 .. mid : lowKeys[i] = keys[i]
      /\ Len(highKeys) = K - mid - 1
      /\ \A i \in 1 .. K - mid - 1 : highKeys[i] = keys[mid + 1 + i]
  BY <1>0 DEF IsHalved
<1>7. K \in Nat /\ mid \in 1 .. K - 2
  BY <1>1
<1>2. /\ \A i \in 1 .. K : keys[i] \in Nat /\ low < keys[i] /\ Below(keys[i], high)
      /\ \A i, j \in 1 .. K : i < j => keys[i] < keys[j]
  BY <1>0, <1>1, ElementOfSeq DEF KeysOK
<1>3. mid + 1 \in 1 .. K /\ m = keys[mid + 1] /\ low \in Nat /\ high \in Nat
  BY <1>0, <1>7
<1>4. m \in Nat /\ low < m /\ Below(m, high)
  BY <1>2, <1>3
<1>5. KeysOK(lowKeys, low, m)
  <2>1. ASSUME NEW i \in 1 .. mid PROVE low < lowKeys[i] /\ Below(lowKeys[i], m)
    <3>1. i \in 1 .. K /\ i < mid + 1
      BY <1>7
    <3> QED BY <1>1, <1>2, <1>3, <3>1 DEF Below
  <2>2. ASSUME NEW i \in 1 .. mid, NEW j \in 1 .. mid, i < j
        PROVE  lowKeys[i] < lowKeys[j]
    <3>1. i \in 1 .. K /\ j \in 1 .. K
      BY <1>7
    <3> QED BY <1>1, <1>2, <2>2, <3>1
  <2>3. Len(lowKeys) >= 1
    BY <1>1
  <2> QED BY <1>1, <2>1, <2>2, <2>3 DEF KeysOK
<1>6. KeysOK(highKeys, m, high)
  <2>1. ASSUME NEW i \in 1 .. K - mid - 1
        PROVE  m < highKeys[i] /\ Below(highKeys[i], high)
    <3>1. mid + 1 + i \in 1 .. K /\ mid + 1 < mid + 1 + i
      BY <1>7
    <3> QED BY <1>1, <1>2, <1>3, <3>1
  <2>2. ASSUME NEW i \in 1 .. K - mid - 1, NEW j \in 1 .. K - mid - 1, i < j
        PROVE  highKeys[i] < highKeys[j]
    <3>1. mid + 1 + i \in 1 .. K /\ mid + 1 + j \in 1 .. K /\ mid + 1 + i < mid + 1 + j
      BY <1>7, <2>2
    <3> QED BY <1>1, <1>2, <3>1
  <2>3. Len(highKeys) >= 1
    BY <1>1
  <2> QED BY <1>1, <2>1, <2>2, <2>3 DEF KeysOK
<1> QED BY <1>4, <1>5, <1>6

\* The inner nodes after one of them has split.
LEMMA InnerSplitInner ==
  ASSUME NEW nodes, NEW lo, NEW hi, NEW height, NEW n, NEW K, NEW mid, NEW m, NEW right,
         NEW after, NEW lo2, NEW hi2, NEW height2,
         NEW lowKeys, NEW lowChildren, NEW highKeys, NEW moved,
         InnerSplits(nodes, lo, hi, height, n, K, mid, m, right, after, lo2, hi2,
                     height2, lowKeys, lowChildren, highKeys, moved),
         hi \in [DOMAIN nodes -> Nat]
  PROVE  InnerOK(after, lo2, hi2, height2, n, right)
<1>0. /\ nodes \in Seq(Node)
      /\ lo \in [DOMAIN nodes -> Nat]
      /\ InnerOK(nodes, lo, hi, height, None, None)
      /\ n \in DOMAIN nodes /\ ~nodes[n].isLeaf
      /\ IsHalved(nodes[n].keys, nodes[n].children, K, mid, lowKeys, lowChildren,
                  highKeys, moved)
      /\ m = nodes[n].keys[mid + 1]
      /\ IsInnerSplit(nodes, after, n, lowKeys, lowChildren, highKeys, moved, right)
      /\ GaveTo(nodes, lo, hi, height, n, m, right, lo2, hi2, height2)
  BY DEF InnerSplits
<1>20. Halves(nodes, lo, hi, height, n, K, mid, lowKeys, lowChildren, highKeys, moved)
  BY SplitHalves
<1>1. /\ DOMAIN after = 1 .. right
      /\ 1 .. right = DOMAIN nodes \cup {right}
      /\ n # right
      /\ lo2[n] = lo[n] /\ hi2[n] = m /\ lo2[right] = m /\ hi2[right] = hi[n]
  BY <1>0 DEF IsInnerSplit, GaveTo
<1>2. /\ K \in Nat /\ mid \in 1 .. K - 2
      /\ Len(lowKeys) = mid /\ Len(lowChildren) = mid + 1
      /\ Len(highKeys) = K - mid - 1 /\ Len(moved) = K - mid
  BY <1>0 DEF IsHalved
<1>3. /\ nodes[n].entries = << >>
      /\ KeysOK(nodes[n].keys, lo[n], hi[n])
  BY <1>0 DEF InnerOK
<1>4. KeysOK(lowKeys, lo[n], m) /\ KeysOK(highKeys, m, hi[n])
  <2>1. nodes[n].keys \in Seq(Nat) /\ lo[n] \in Nat /\ hi[n] \in Nat
    BY <1>0, NodeFields
  <2>2. HalvesAt(nodes[n].keys, nodes[n].children, lo[n], hi[n], K, mid, lowKeys,
                 lowChildren, highKeys, moved, m)
    BY <1>0, <1>3, <2>1 DEF HalvesAt
  <2> QED BY <2>2, HalvedKeys
<1>5. /\ ~after[right].isLeaf
      /\ after[right].entries = << >>
      /\ after[right].keys = highKeys
      /\ after[right].children = moved
  BY <1>0 DEF IsInnerSplit, NewAfterInnerSplit
<1>6. \A k \in DOMAIN nodes :
         OldAfterInnerSplit(nodes, after, n, lowKeys, lowChildren, moved, right, k)
  BY <1>0 DEF IsInnerSplit
<1> SUFFICES ASSUME NEW k \in DOMAIN nodes \cup {right}, ~after[k].isLeaf
             PROVE  /\ after[k].entries = << >>
                    /\ KeysOK(after[k].keys, lo2[k], hi2[k])
                    /\ Len(after[k].children) = Len(after[k].keys) + 1
                    /\ \A i \in 1 .. Len(after[k].keys) + 1 :
                         ChildOK(after, lo2, hi2, height2, n, right, k, i)
  BY <1>1 DEF InnerOK
<1>7. CASE k = n
  <2>1. /\ after[n].entries = << >>
        /\ after[n].keys = lowKeys
        /\ after[n].children = lowChildren
    BY <1>0, <1>3, <1>6 DEF OldAfterInnerSplit
  <2>2. \A i \in 1 .. mid + 1 : ChildOK(after, lo2, hi2, height2, n, right, n, i)
    BY LowChild
  <2> QED BY <1>1, <1>2, <1>4, <1>7, <2>1, <2>2
<1>8. CASE k = right
  <2>1. \A i \in 1 .. K - mid : ChildOK(after, lo2, hi2, height2, n, right, right, i)
    BY HighChild
  <2>2. Len(moved) = Len(highKeys) + 1 /\ Len(highKeys) + 1 = K - mid
    BY <1>2
  <2> QED BY <1>1, <1>4, <1>5, <1>8, <2>1, <2>2
<1>9. CASE k \in DOMAIN nodes /\ k # n
  <2>1. /\ ~nodes[k].isLeaf
        /\ after[k].entries = nodes[k].entries
        /\ after[k].keys = nodes[k].keys
        /\ after[k].children = nodes[k].children
    BY <1>6, <1>9 DEF OldAfterInnerSplit
  <2>2. /\ lo2[k] = lo[k] /\ hi2[k] = hi[k] /\ height2[k] = height[k]
    BY <1>0, <1>9 DEF GaveTo
  <2>3. /\ nodes[k].entries = << >>
        /\ KeysOK(nodes[k].keys, lo[k], hi[k])
        /\ Len(nodes[k].children) = Len(nodes[k].keys) + 1
        /\ \A i \in 1 .. Len(nodes[k].keys) + 1 :
             ChildOK(nodes, lo, hi, height, None, None, k, i)
    BY <1>0, <1>9, <2>1 DEF InnerOK
  <2>4. ASSUME NEW i \in 1 .. Len(nodes[k].keys) + 1
        PROVE  ChildOK(after, lo2, hi2, height2, n, right, k, i)
    <3>1. ChildOK(nodes, lo, hi, height, None, None, k, i)
      BY <2>3
    <3>2. PICK c \in DOMAIN nodes : c = nodes[k].children[i] /\ nodes[c].parent = k
      BY <3>1 DEF ChildOK
    <3>3. c \notin ToSet(moved)
      BY <1>9, <1>20, <3>2, MovedChildren
    <3>4. after[c].parent = nodes[c].parent /\ c \in DOMAIN after
      BY <1>1, <1>6, <3>2, <3>3 DEF OldAfterInnerSplit
    <3>5. /\ lo2[c] = lo[c] /\ height2[c] = height[c]
          /\ SeenHi(hi2, n, right, c) = SeenHi(hi, None, None, c)
      BY <1>0, <3>2 DEF GaveTo
    <3> QED BY <2>1, <2>2, <3>1, <3>2, <3>4, <3>5 DEF ChildOK
  <2> QED BY <2>1, <2>2, <2>3, <2>4
<1> QED BY <1>7, <1>8, <1>9

LEMMA SplitGave ==
  ASSUME NEW nodes \in Seq(Node), NEW n \in DOMAIN nodes,
         NEW right, right = Len(nodes) + 1,
         NEW lo, NEW hi, NEW height, NEW m
  PROVE  GaveTo(nodes, lo, hi, height, n, m, right, SplitLo(lo, right, m),
                SplitHi(hi, n, right, m), SplitHeight(height, n, right))
<1>1. /\ \A k \in DOMAIN nodes :
              /\ SplitLo(lo, right, m)[k] = lo[k]
              /\ SplitHi(hi, n, right, m)[k] = IF k = n THEN m ELSE hi[k]
              /\ SplitHeight(height, n, right)[k] = height[k]
              /\ SeenHi(SplitHi(hi, n, right, m), n, right, k) = hi[k]
              /\ k # right /\ k # None
      /\ SplitLo(lo, right, m)[right] = m
      /\ SplitHi(hi, n, right, m)[right] = hi[n]
      /\ SplitHeight(height, n, right)[right] = height[n]
      /\ 1 .. right = DOMAIN nodes \cup {right}
  BY SplitValues
<1>2. \A k \in DOMAIN nodes : SeenHi(hi, None, None, k) = hi[k]
  BY <1>1 DEF SeenHi
<1> QED BY <1>1, <1>2 DEF GaveTo

LEMMA InnerSplitParents ==
  ASSUME NEW nodes, NEW lo, NEW hi, NEW height, NEW n, NEW K, NEW mid, NEW m, NEW right,
         NEW after, NEW lo2, NEW hi2, NEW height2,
         NEW lowKeys, NEW lowChildren, NEW highKeys, NEW moved,
         InnerSplits(nodes, lo, hi, height, n, K, mid, m, right, after, lo2, hi2,
                     height2, lowKeys, lowChildren, highKeys, moved),
         NEW root, ParentsOK(nodes, root, lo, hi, None, None)
  PROVE  ParentsOK(after, root, lo2, hi2, n, right)
<1>0. /\ nodes \in Seq(Node)
      /\ lo \in [DOMAIN nodes -> Nat]
      /\ InnerOK(nodes, lo, hi, height, None, None)
      /\ n \in DOMAIN nodes /\ ~nodes[n].isLeaf
      /\ IsHalved(nodes[n].keys, nodes[n].children, K, mid, lowKeys, lowChildren,
                  highKeys, moved)
      /\ IsInnerSplit(nodes, after, n, lowKeys, lowChildren, highKeys, moved, right)
      /\ GaveTo(nodes, lo, hi, height, n, m, right, lo2, hi2, height2)
  BY DEF InnerSplits
<1>20. Halves(nodes, lo, hi, height, n, K, mid, lowKeys, lowChildren, highKeys, moved)
  BY SplitHalves
<1>1. /\ DOMAIN after = 1 .. right
      /\ 1 .. right = DOMAIN nodes \cup {right}
      /\ n # right /\ None \notin DOMAIN nodes
  <2>1. None \notin DOMAIN nodes
    BY <1>0, NodeFields DEF None
  <2> QED BY <1>0, <2>1 DEF IsInnerSplit, GaveTo
<1>2. /\ K \in Nat /\ mid \in 1 .. K - 2
      /\ Len(lowChildren) = mid + 1 /\ Len(nodes[n].children) = K + 1
      /\ Len(moved) = K - mid
      /\ \A i \in 1 .. mid + 1 : lowChildren[i] = nodes[n].children[i]
  BY <1>0 DEF IsHalved
<1>3. /\ root \in DOMAIN nodes /\ nodes[root].parent = None
      /\ lo[root] = 0 /\ SeenHi(hi, None, None, root) = 0
  BY DEF ParentsOK
<1>4. \A k \in DOMAIN nodes :
         OldAfterInnerSplit(nodes, after, n, lowKeys, lowChildren, moved, right, k)
  BY <1>0 DEF IsInnerSplit
<1>5. ~after[right].isLeaf /\ after[right].children = moved
  BY <1>0 DEF IsInnerSplit, NewAfterInnerSplit
<1>6. /\ \A i \in mid + 2 .. K + 1 : nodes[n].children[i] \in ToSet(moved)
      /\ \A k \in ToSet(moved) :
              /\ nodes[k].parent = n
              /\ \E i \in 1 .. K - mid : moved[i] = k
  BY <1>20, MovedChildren
<1>7. ASSUME NEW k \in DOMAIN nodes \cup {right}, k # root, k # right
      PROVE  /\ after[k].parent \in DOMAIN after
             /\ ~after[after[k].parent].isLeaf
             /\ \E i \in 1 .. Len(after[after[k].parent].children) :
                  after[after[k].parent].children[i] = k
  <2>0. k \in DOMAIN nodes /\ k # None
    BY <1>1, <1>7
  <2>1. CASE k \in ToSet(moved)
    <3>1. after[k].parent = right
      BY <1>4, <2>0, <2>1 DEF OldAfterInnerSplit
    <3>2. \E i \in 1 .. Len(moved) : moved[i] = k
      BY <1>2, <1>6, <2>1
    <3> QED BY <1>1, <1>5, <3>1, <3>2
  <2>2. CASE k \notin ToSet(moved)
    <3>1. PICK P \in DOMAIN nodes : P = nodes[k].parent
      BY <1>7, <2>0 DEF ParentsOK
    <3>2. /\ ~nodes[P].isLeaf
          /\ \E i \in 1 .. Len(nodes[P].children) : nodes[P].children[i] = k
      BY <1>7, <2>0, <3>1 DEF ParentsOK
    <3>3. after[k].parent = P
      BY <1>4, <2>0, <2>2, <3>1 DEF OldAfterInnerSplit
    <3>4. ~after[P].isLeaf
      BY <1>4, <3>2 DEF OldAfterInnerSplit
    <3>5. \E i \in 1 .. Len(after[P].children) : after[P].children[i] = k
      <4>1. CASE P # n
        BY <1>4, <3>2, <4>1 DEF OldAfterInnerSplit
      <4>2. CASE P = n
        <5>1. PICK i \in 1 .. K + 1 : nodes[n].children[i] = k
          BY <1>2, <3>2, <4>2
        <5>2. i \in 1 .. mid + 1
          <6>1. i \notin mid + 2 .. K + 1
            BY <1>6, <2>2, <5>1
          <6> QED BY <1>2, <6>1
        <5>3. after[n].children = lowChildren
          BY <1>0, <1>4 DEF OldAfterInnerSplit
        <5> QED BY <1>2, <4>2, <5>1, <5>2, <5>3
      <4> QED BY <4>1, <4>2
    <3> QED BY <1>1, <3>3, <3>4, <3>5
  <2> QED BY <2>1, <2>2
<1>8. /\ root \in DOMAIN after /\ after[root].parent = None
      /\ lo2[root] = 0 /\ SeenHi(hi2, n, right, root) = 0
  <2>1. root \notin ToSet(moved)
    BY <1>0, <1>1, <1>3, <1>6
  <2>2. after[root].parent = nodes[root].parent
    BY <1>3, <1>4, <2>1 DEF OldAfterInnerSplit
  <2> QED BY <1>0, <1>1, <1>3, <2>2 DEF GaveTo
<1> QED BY <1>1, <1>7, <1>8 DEF ParentsOK

\* after is nodes with the inner node n split at mid, into itself and right.
SplitsInner(nodes, after, n, K, mid, lowKeys, lowChildren, highKeys, moved, right, m) ==
  /\ n \in DOMAIN nodes /\ ~nodes[n].isLeaf
  /\ IsHalved(nodes[n].keys, nodes[n].children, K, mid, lowKeys, lowChildren,
              highKeys, moved)
  /\ right = Len(nodes) + 1 /\ m = nodes[n].keys[mid + 1]
  /\ IsInnerSplit(nodes, after, n, lowKeys, lowChildren, highKeys, moved, right)

\* bplusInsertInternal in a parent that overflows.
LEMMA InnerSplitKeepsShape ==
  ASSUME NEW nodes, NEW root, NEW first, NEW key, NEW lo, NEW hi, NEW height, NEW chain,
         Shape(nodes, root, first, key, None, None, lo, hi, height, chain),
         NEW after, NEW n, NEW K, NEW mid, NEW lowKeys, NEW lowChildren, NEW highKeys,
         NEW moved, NEW right, NEW m,
         SplitsInner(nodes, after, n, K, mid, lowKeys, lowChildren, highKeys, moved, right, m)
  PROVE  /\ Shape(after, root, first, m, n, right, SplitLo(lo, right, m),
                  SplitHi(hi, n, right, m), SplitHeight(height, n, right), chain)
         /\ EntriesOf(after, chain) = EntriesOf(nodes, chain)
         /\ m \in Nat
<1> SUFFICES ASSUME n \in DOMAIN nodes, ~nodes[n].isLeaf,
                    IsHalved(nodes[n].keys, nodes[n].children, K, mid, lowKeys, lowChildren,
                             highKeys, moved),
                    right = Len(nodes) + 1, m = nodes[n].keys[mid + 1],
                    IsInnerSplit(nodes, after, n, lowKeys, lowChildren, highKeys, moved, right)
             PROVE  /\ Shape(after, root, first, m, n, right, SplitLo(lo, right, m),
                              SplitHi(hi, n, right, m), SplitHeight(height, n, right), chain)
                    /\ EntriesOf(after, chain) = EntriesOf(nodes, chain)
                    /\ m \in Nat
  BY DEF SplitsInner
<1> DEFINE lo2 == SplitLo(lo, right, m)
           hi2 == SplitHi(hi, n, right, m)
           height2 == SplitHeight(height, n, right)
<1>1. BoundsOK(nodes, lo, hi, height)
  BY DEF Shape
<1>2. LinksOK(nodes, first, lo, hi, chain)
  BY DEF Shape
<1>3. LeavesOK(nodes, chain)
  BY DEF Shape
<1>4. InnerOK(nodes, lo, hi, height, None, None)
  BY DEF Shape
<1>5. ParentsOK(nodes, root, lo, hi, None, None)
  BY DEF Shape
<1>6. WellFormedChain(Nat, EntriesOf(nodes, chain))
  BY DEF Shape
<1>7. /\ nodes \in Seq(Node)
      /\ lo \in [DOMAIN nodes -> Nat] /\ hi \in [DOMAIN nodes -> Nat]
      /\ height \in [DOMAIN nodes -> Nat]
  BY <1>1 DEF BoundsOK
<1>8. m \in Nat /\ lo[n] < m /\ Below(m, hi[n])
  <2>1. nodes[n].keys \in Seq(Nat) /\ lo[n] \in Nat /\ hi[n] \in Nat
    BY <1>7, NodeFields
  <2>2. KeysOK(nodes[n].keys, lo[n], hi[n])
    BY <1>4 DEF InnerOK
  <2>3. HalvesAt(nodes[n].keys, nodes[n].children, lo[n], hi[n], K, mid, lowKeys,
                 lowChildren, highKeys, moved, m)
    BY <2>1, <2>2 DEF HalvesAt
  <2> QED BY <2>3, HalvedKeys
<1>9. /\ DOMAIN after = 1 .. right
      /\ \A k \in DOMAIN nodes :
           OldAfterInnerSplit(nodes, after, n, lowKeys, lowChildren, moved, right, k)
      /\ NewAfterInnerSplit(nodes, after, n, highKeys, moved, right)
      /\ after \in Seq(Node) /\ Len(after) = right
  BY DEF IsInnerSplit
<1>10. GaveTo(nodes, lo, hi, height, n, m, right, lo2, hi2, height2)
  BY <1>7, SplitGave
<1>11. BoundsOK(after, lo2, hi2, height2)
  <2>1. KindsKept(nodes, after, n, right)
    <3>1. \A k \in DOMAIN nodes : after[k].isLeaf = nodes[k].isLeaf
      BY <1>9 DEF OldAfterInnerSplit
    <3>2. after[right].isLeaf = nodes[n].isLeaf
      <4>1. ~after[right].isLeaf
        BY <1>9 DEF NewAfterInnerSplit
      <4>2. after[right] \in Node /\ nodes[n] \in Node
        <5>1. right \in DOMAIN after
          BY <1>9, <1>10 DEF GaveTo
        <5> QED BY <1>7, <1>9, <5>1, NodeFields
      <4> QED BY <4>1, <4>2 DEF Node
    <3> QED BY <1>9, <3>1, <3>2 DEF KindsKept
  <2> QED BY <1>1, <1>8, <2>1, SplitBounds
<1>12. InnerSplits(nodes, lo, hi, height, n, K, mid, m, right, after, lo2, hi2,
                   height2, lowKeys, lowChildren, highKeys, moved)
  <2> HIDE DEF lo2, hi2, height2
  <2> QED BY <1>4, <1>7, <1>10 DEF InnerSplits
<1> HIDE DEF lo2, hi2, height2
<1>21. Halves(nodes, lo, hi, height, n, K, mid, lowKeys, lowChildren, highKeys, moved)
  BY <1>12, SplitHalves
<1>13. InnerOK(after, lo2, hi2, height2, n, right)
  BY <1>7, <1>12, InnerSplitInner
<1>14. ParentsOK(after, root, lo2, hi2, n, right)
  BY <1>5, <1>12, InnerSplitParents
<1>15. SplitOK(after, root, m, lo2, hi2, height2, n, right)
  <2>1. root \in DOMAIN nodes
    BY <1>5 DEF ParentsOK
  <2>2. /\ lo2[n] = lo[n] /\ lo2[right] = m /\ hi2[n] = m
        /\ height2[n] = height2[right]
        /\ n # right /\ right # root /\ n \in DOMAIN after /\ right \in DOMAIN after
    BY <1>9, <1>10, <2>1 DEF GaveTo
  <2>3. after[n].parent = after[right].parent
    <3>1. n \notin ToSet(moved)
      <4> SUFFICES ASSUME n \in ToSet(moved) PROVE FALSE
        OBVIOUS
      <4>1. nodes[n].parent = n /\ \E i \in 1 .. K - mid : moved[i] = n
        BY <1>21, MovedChildren
      <4>2. PICK i \in 1 .. K - mid : moved[i] = n
        BY <4>1
      <4>3. ChildOK(after, lo2, hi2, height2, n, right, right, i)
        BY <1>12, HighChild
      <4>4. after[right].children = moved
        BY <1>9 DEF NewAfterInnerSplit
      <4>5. height2[n] + 1 = height2[right]
        BY <4>2, <4>3, <4>4 DEF ChildOK
      <4>6. height2[n] = height[n] /\ height2[right] = height[n] /\ height[n] \in Nat
        BY <1>7, <1>10 DEF GaveTo
      <4> QED BY <4>5, <4>6
    <3>2. after[n].parent = nodes[n].parent
      BY <1>9, <3>1 DEF OldAfterInnerSplit
    <3>3. after[right].parent = nodes[n].parent
      BY <1>9 DEF NewAfterInnerSplit
    <3> QED BY <3>2, <3>3
  <2> QED BY <1>8, <2>2, <2>3 DEF SplitOK
<1>16. /\ Len(chain) \in Nat /\ chain \in Seq(DOMAIN nodes)
       /\ \A q \in 1 .. Len(chain) : chain[q] \in DOMAIN nodes /\ chain[q] # n
  <2>1. /\ Len(chain) \in Nat /\ chain \in Seq(DOMAIN nodes)
        /\ \A q \in 1 .. Len(chain) : chain[q] \in DOMAIN nodes
    BY <1>2, LenProperties, ElementOfSeq DEF LinksOK
  <2>2. \A q \in 1 .. Len(chain) : nodes[chain[q]].isLeaf
    BY <1>2 DEF LinksOK, LeafOK
  <2> QED BY <2>1, <2>2
<1>17. EntriesOf(after, chain) = EntriesOf(nodes, chain)
  BY <1>9, <1>16 DEF EntriesOf, OldAfterInnerSplit
<1>18. LinksOK(after, first, lo2, hi2, chain)
  <2>1. ASSUME NEW q \in 1 .. Len(chain) PROVE LeafOK(after, lo2, hi2, chain, q)
    <3>1. LeafOK(nodes, lo, hi, chain, q)
      BY <1>2 DEF LinksOK
    <3>2. /\ after[chain[q]].isLeaf = nodes[chain[q]].isLeaf
          /\ after[chain[q]].entries = nodes[chain[q]].entries
          /\ after[chain[q]].next = nodes[chain[q]].next
      BY <1>9, <1>16 DEF OldAfterInnerSplit
    <3>3. lo2[chain[q]] = lo[chain[q]] /\ hi2[chain[q]] = hi[chain[q]]
      BY <1>10, <1>16 DEF GaveTo
    <3>4. q # Len(chain) => lo2[chain[q + 1]] = lo[chain[q + 1]]
      <4> SUFFICES ASSUME q # Len(chain) PROVE lo2[chain[q + 1]] = lo[chain[q + 1]]
        OBVIOUS
      <4>1. q + 1 \in 1 .. Len(chain)
        BY <1>16
      <4> QED BY <1>10, <1>16, <4>1 DEF GaveTo
    <3> QED BY <3>1, <3>2, <3>3, <3>4 DEF LeafOK
  <2>2. chain \in Seq(DOMAIN after)
    <3>1. DOMAIN nodes \subseteq DOMAIN after
      BY <1>9, <1>10 DEF GaveTo
    <3> QED BY <1>16, <3>1
  <2> QED BY <1>2, <2>1, <2>2 DEF LinksOK
<1>19. LeavesOK(after, chain)
  <2> SUFFICES ASSUME NEW k \in DOMAIN nodes \cup {right}, after[k].isLeaf
               PROVE  /\ after[k].keys = << >>
                      /\ after[k].children = << >>
                      /\ \E q \in 1 .. Len(chain) : chain[q] = k
    BY <1>9, <1>10 DEF LeavesOK, GaveTo
  <2>1. k # right
    BY <1>9 DEF NewAfterInnerSplit
  <2>2. k \in DOMAIN nodes
    BY <2>1
  <2>3. after[k].isLeaf = nodes[k].isLeaf
    BY <1>9, <2>2 DEF OldAfterInnerSplit
  <2>4. k # n
    BY <2>3
  <2>5. after[k].keys = nodes[k].keys /\ after[k].children = nodes[k].children
    BY <1>9, <2>2, <2>4 DEF OldAfterInnerSplit
  <2> QED BY <1>3, <2>2, <2>3, <2>5 DEF LeavesOK
<1>20. Shape(after, root, first, m, n, right, lo2, hi2, height2, chain)
  BY <1>6, <1>11, <1>13, <1>14, <1>15, <1>17, <1>18, <1>19 DEF Shape
<1> QED BY <1>8, <1>17, <1>20 DEF lo2, hi2, height2

-----------------------------------------------------------------------------
(* The chain that a reader finds by following next.                        *)

\* An injective sequence over 1 .. n is no longer than n.
LEMMA InjectiveSeq ==
  ASSUME NEW n \in Nat, NEW s \in Seq(1 .. n),
         \A p, q \in 1 .. Len(s) : s[p] = s[q] => p = q
  PROVE  Len(s) <= n
<1>1. Len(s) \in Nat /\ \A p \in 1 .. Len(s) : s[p] \in 1 .. n
  BY LenProperties, ElementOfSeq
<1>2. /\ IsFiniteSet(1 .. n) /\ Cardinality(1 .. n) = n
      /\ IsFiniteSet(1 .. Len(s)) /\ Cardinality(1 .. Len(s)) = Len(s)
  <2> SUFFICES ASSUME NEW m \in Nat
               PROVE  IsFiniteSet(1 .. m) /\ Cardinality(1 .. m) = m
    BY <1>1
  <2>1. 1 \in Int /\ m \in Int /\ (IF 1 > m THEN 0 ELSE m - 1 + 1) = m
    OBVIOUS
  <2> QED BY <2>1, FS_Interval
<1> SUFFICES ASSUME n < Len(s) PROVE FALSE
  BY <1>1
<1> DEFINE f == [p \in 1 .. Len(s) |-> s[p]]
<1>3. f \in [1 .. Len(s) -> 1 .. n]
  BY <1>1
<1> HIDE DEF f
<1>4. \E x, y \in 1 .. Len(s) : x # y /\ f[x] = f[y]
  <2> DEFINE S == 1 .. Len(s)
             T == 1 .. n
  <2>1. /\ IsFiniteSet(S) /\ IsFiniteSet(T) /\ Cardinality(T) < Cardinality(S)
        /\ f \in [S -> T]
    BY <1>2, <1>3
  <2> HIDE DEF S, T
  <2>2. \E x, y \in S : x # y /\ f[x] = f[y]
    BY <2>1, FS_PigeonHole
  <2> QED BY <2>2 DEF S
<1> QED BY <1>4 DEF f

\* g follows next from first on, and stays at None when it comes there.
Follows(g, nodes, first) ==
  g = [k \in 0 .. Len(nodes) |->
         IF k = 0 THEN first
         ELSE IF g[k - 1] = None THEN None
         ELSE nodes[g[k - 1]].next]

\* NextChain of any nodes.
NextOf(nodes, first) ==
  LET at == CHOOSE g : Follows(g, nodes, first)
      steps == {k \in DOMAIN at : at[k] # None}
  IN  [k \in 1 .. Cardinality(steps) |-> at[k - 1]]

LEMMA NextOfChain ==
  ASSUME NEW nodes \in Seq(Node), NEW first, NEW lo, NEW hi, NEW chain,
         LinksOK(nodes, first, lo, hi, chain)
  PROVE  NextOf(nodes, first) = chain
<1>1. /\ Len(nodes) \in Nat /\ DOMAIN nodes = 1 .. Len(nodes) /\ None \notin DOMAIN nodes
      /\ chain \in Seq(DOMAIN nodes) /\ Len(chain) \in Nat /\ Len(chain) >= 1
      /\ chain[1] = first
      /\ \A p \in 1 .. Len(chain) : chain[p] \in DOMAIN nodes
      /\ \A p \in 1 .. Len(chain) :
           nodes[chain[p]].next = IF p = Len(chain) THEN None ELSE chain[p + 1]
      /\ \A p, q \in 1 .. Len(chain) : chain[p] = chain[q] => p = q
  BY NodeFields, LenProperties, ElementOfSeq DEF LinksOK, LeafOK, None
<1>2. Len(chain) <= Len(nodes)
  BY <1>1, InjectiveSeq
<1> DEFINE N == Len(nodes)
           L == Len(chain)
           g == [k \in 0 .. N |-> IF k < L THEN chain[k + 1] ELSE None]
           at == CHOOSE f : Follows(f, nodes, first)
<1>3. \A k \in 0 .. N : g[k] = IF k < L THEN chain[k + 1] ELSE None
  OBVIOUS
<1>4. Follows(g, nodes, first)
  <2> HIDE DEF g
  <2>1. ASSUME NEW k \in 0 .. N
        PROVE  g[k] = IF k = 0 THEN first
                      ELSE IF g[k - 1] = None THEN None
                      ELSE nodes[g[k - 1]].next
    <3>1. CASE k = 0
      <4>1. 0 < L /\ 0 + 1 = 1
        BY <1>1
      <4> QED BY <1>1, <1>3, <3>1, <4>1
    <3>2. CASE k # 0 /\ k - 1 < L
      <4>1. /\ k - 1 \in 0 .. N /\ k \in 1 .. L /\ (k - 1) + 1 = k
            /\ (k < L <=> k # L)
        BY <1>1, <3>2
      <4>2. g[k - 1] = chain[k] /\ chain[k] # None
        BY <1>1, <1>3, <3>2, <4>1
      <4>3. nodes[chain[k]].next = IF k = L THEN None ELSE chain[k + 1]
        BY <1>1, <4>1
      <4>4. g[k] = IF k < L THEN chain[k + 1] ELSE None
        BY <1>3
      <4> QED BY <3>2, <4>1, <4>2, <4>3, <4>4
    <3>3. CASE k # 0 /\ ~(k - 1 < L)
      <4>1. k - 1 \in 0 .. N /\ ~(k < L)
        BY <1>1, <3>3
      <4>2. g[k - 1] = None /\ g[k] = None
        BY <1>3, <3>3, <4>1
      <4> QED BY <3>3, <4>2
    <3> QED BY <3>1, <3>2, <3>3
  <2>2. g = [k \in 0 .. N |-> g[k]]
    BY DEF g
  <2>3. g = [k \in 0 .. N |-> IF k = 0 THEN first
                      ELSE IF g[k - 1] = None THEN None
                      ELSE nodes[g[k - 1]].next]
    BY <2>1, <2>2, Zenon
  <2> QED BY <2>3 DEF Follows
<1>5. Follows(at, nodes, first)
  <2> HIDE DEF g
  <2> QED BY <1>4
<1> HIDE DEF g, at
<1>6. \A k \in 0 .. N : at[k] = IF k = 0 THEN first
                                ELSE IF at[k - 1] = None THEN None
                                ELSE nodes[at[k - 1]].next
  <2>1. at = [k \in 0 .. N |-> IF k = 0 THEN first
                                ELSE IF at[k - 1] = None THEN None
                                ELSE nodes[at[k - 1]].next]
    BY <1>5 DEF Follows
  <2> QED BY <2>1, Zenon
<1>7. \A k \in 0 .. N : g[k] = IF k = 0 THEN first
                                ELSE IF g[k - 1] = None THEN None
                                ELSE nodes[g[k - 1]].next
  <2>1. g = [k \in 0 .. N |-> IF k = 0 THEN first
                                ELSE IF g[k - 1] = None THEN None
                                ELSE nodes[g[k - 1]].next]
    BY <1>4 DEF Follows
  <2> QED BY <2>1, Zenon
<1>8. \A k \in 0 .. N : at[k] = g[k]
  <2> DEFINE S == {k \in Nat : k \in 0 .. N => at[k] = g[k]}
  <2>1. 0 \in S
    BY <1>1, <1>6, <1>7
  <2>2. ASSUME NEW k \in Nat, k \in S PROVE k + 1 \in S
    <3>1. CASE k + 1 \in 0 .. N
      <4>1. k \in 0 .. N /\ at[k] = g[k] /\ (k + 1) - 1 = k /\ k + 1 # 0
        BY <2>2, <3>1
      <4>2. at[k + 1] = IF at[k] = None THEN None ELSE nodes[at[k]].next
        BY <1>6, <3>1, <4>1
      <4>3. g[k + 1] = IF g[k] = None THEN None ELSE nodes[g[k]].next
        BY <1>7, <3>1, <4>1
      <4> QED BY <4>1, <4>2, <4>3
    <3>2. CASE k + 1 \notin 0 .. N
      BY <3>2
    <3> QED BY <3>1, <3>2
  <2>3. Nat \subseteq S
    <3> HIDE DEF S
    <3> QED BY <2>1, <2>2, SetInduction
  <2> QED BY <1>1, <2>3
<1>9. DOMAIN at = 0 .. N
  BY <1>5 DEF Follows
<1> DEFINE steps == {k \in DOMAIN at : at[k] # None}
<1>10. steps = 0 .. L - 1
  <2>1. ASSUME NEW k \in 0 .. N PROVE at[k] # None <=> k < L
    <3>1. at[k] = IF k < L THEN chain[k + 1] ELSE None
      BY <1>3, <1>8
    <3>2. k < L => chain[k + 1] # None
      <4> SUFFICES ASSUME k < L PROVE chain[k + 1] # None
        OBVIOUS
      <4>1. k + 1 \in 1 .. L
        BY <1>1
      <4> QED BY <1>1, <4>1
    <3> QED BY <3>1, <3>2
  <2> QED BY <1>1, <1>2, <1>9, <2>1
<1>11. Cardinality(steps) = L
  <2>1. 0 \in Int /\ L - 1 \in Int /\ ~(0 > L - 1) /\ (L - 1) - 0 + 1 = L
    BY <1>1
  <2>2. Cardinality(0 .. L - 1) = L
    BY <2>1, FS_Interval
  <2> QED BY <1>10, <2>2
<1>12. NextOf(nodes, first) = [k \in 1 .. L |-> at[k - 1]]
  <2>1. NextOf(nodes, first) = [k \in 1 .. Cardinality(steps) |-> at[k - 1]]
    BY DEF NextOf, at
  <2> QED BY <1>11, <2>1
<1>13. \A k \in 1 .. L : at[k - 1] = chain[k]
  <2> TAKE k \in 1 .. L
  <2>1. k - 1 \in 0 .. N /\ k - 1 < L /\ (k - 1) + 1 = k
    BY <1>1, <1>2
  <2> QED BY <1>3, <1>8, <2>1
<1> DEFINE found == NextOf(nodes, first)
<1>14. /\ found \in [1 .. L -> DOMAIN nodes]
       /\ \A k \in 1 .. L : found[k] = chain[k]
  BY <1>1, <1>12, <1>13
<1>15. found \in Seq(DOMAIN nodes) /\ Len(found) = L
  <2> HIDE DEF found
  <2> QED BY <1>1, <1>14, FunctionIsSeq
<1> HIDE DEF found
<1>16. found = chain
  BY <1>1, <1>14, <1>15, SeqEqual
<1> QED BY <1>16 DEF found

LEMMA NextChainIsNextOf == NextChain = NextOf(heap, traversalPointer)
BY DEF NextChain, NextOf, Follows

-----------------------------------------------------------------------------
(* The machine.                                                            *)

\* The pairs that are ever put: those of the calls, and those a promotion
\* starts from.
Puts == PutCalls \cup {<<e.dst, e.weight>> : e \in UNION Promotions}

\* The node that has split and whose sibling is not in the tree yet.
Left == IF split.rightSibling = None THEN None ELSE node

\* Where the running call is, apart from the tree.
ControlOK ==
  /\ pc \in {"idle", "update", "insert", "propagate"}
  /\ split.rightSibling = None <=> pc # "propagate"
  /\ entry \in Cell(Nat)
  /\ pc \in {"update", "insert"} => <<entry.dst, entry.weight>> \in Puts
  /\ bulk \subseteq UNION Promotions
  /\ bulk \subseteq Cell(Nat)
  /\ \A e, f \in bulk : e.dst = f.dst => e = f
  /\ pc = "update" => bulk = {}
  /\ pc = "insert" => \A e \in bulk : e.dst # entry.dst

\* No inner node is full.
KeysFit(nodes) == \A n \in DOMAIN nodes : Len(nodes[n].keys) < BPlusTreeOrder

\* The descent for d is at the node at; d is new if it is to insert.
DescentOK(nodes, lo, hi, chain, state, d, at) ==
  /\ state \in {"update", "insert"} => at \in DOMAIN nodes /\ Within(d, lo, hi, at)
  /\ state = "insert" => d \notin AllKeys(EntriesOf(nodes, chain))

\* The items still to come are new.
ItemsOK(nodes, chain, items) == \A e \in items : e.dst \notin AllKeys(EntriesOf(nodes, chain))

\* lo, hi and height are the bounds and heights of the nodes, chain the leaves.
Indexed(lo, hi, height, chain) ==
  /\ Shape(heap, queryPointer, traversalPointer, split.promotedKey, Left,
           split.rightSibling, lo, hi, height, chain)
  /\ DescentOK(heap, lo, hi, chain, pc, entry.dst, node)
  /\ ItemsOK(heap, chain, bulk)

IInv ==
  /\ ControlOK
  /\ KeysFit(heap)
  /\ \E lo, hi, height, chain : Indexed(lo, hi, height, chain)

\* What the reader sees is the chain.
LEMMA ReadChain ==
  ASSUME NEW nodes, NEW root, NEW first, NEW key, NEW left, NEW right,
         NEW lo, NEW hi, NEW height, NEW chain,
         Shape(nodes, root, first, key, left, right, lo, hi, height, chain)
  PROVE  /\ NextOf(nodes, first) = chain
         /\ DOMAIN chain = 1 .. Len(chain)
         /\ Len(chain) \in Nat
<1>1. nodes \in Seq(Node) /\ LinksOK(nodes, first, lo, hi, chain)
  BY DEF Shape, BoundsOK
<1>2. DOMAIN chain = 1 .. Len(chain) /\ Len(chain) \in Nat
  BY <1>1, LenProperties DEF LinksOK
<1> QED BY <1>1, <1>2, NextOfChain

LEMMA ReadEntries ==
  ASSUME NEW lo, NEW hi, NEW height, NEW chain, Indexed(lo, hi, height, chain)
  PROVE  NextChain = chain /\ ChainEntries = EntriesOf(heap, chain)
<1>1. /\ NextOf(heap, traversalPointer) = chain
      /\ DOMAIN chain = 1 .. Len(chain)
  BY ReadChain DEF Indexed
<1>2. NextChain = chain
  BY <1>1, NextChainIsNextOf
<1> QED BY <1>1, <1>2 DEF ChainEntries, EntriesOf

LEMMA ReadEntriesAfter ==
  ASSUME NEW root, NEW key, NEW left, NEW right, NEW lo, NEW hi, NEW height, NEW chain,
         Shape(heap', root, traversalPointer', key, left, right, lo, hi, height, chain)
  PROVE  ChainEntries' = EntriesOf(heap', chain)
<1>1. /\ NextOf(heap', traversalPointer') = chain
      /\ DOMAIN chain = 1 .. Len(chain)
  BY ReadChain
<1>2. NextChain' = chain
  <2>1. NextChain' = NextOf(heap', traversalPointer')
    BY DEF NextChain, NextOf, Follows
  <2> QED BY <1>1, <2>1
<1> QED BY <1>1, <1>2 DEF ChainEntries, EntriesOf

\* An invariant state to come, when the tree is known.
LEMMA EstablishIInv ==
  ASSUME NEW lo, NEW hi, NEW height, NEW chain,
         Shape(heap', queryPointer', traversalPointer', split'.promotedKey, Left',
               split'.rightSibling, lo, hi, height, chain),
         DescentOK(heap', lo, hi, chain, pc', entry'.dst, node'),
         ItemsOK(heap', chain, bulk'),
         KeysFit(heap'), ControlOK'
  PROVE  IInv'
BY DEF IInv, Indexed

\* One empty leaf.
LEMMA InitIInv == Init => IInv
<1> SUFFICES ASSUME Init PROVE IInv
  OBVIOUS
<1> DEFINE lo == [n \in {1} |-> 0]
           chain == <<1>>
<1>1. /\ heap = <<Leaf(<< >>, None, None)>>
      /\ queryPointer = 1 /\ traversalPointer = 1
      /\ pc = "idle" /\ split = NoSplit /\ split.rightSibling = None
      /\ entry = [dst |-> 0, weight |-> 0]
      /\ bulk \in Promotions
  BY DEF Init, NoSplit
<1>2. ControlOK
  <2>1. bulk \subseteq Cell(Nat) /\ \A e, f \in bulk : e.dst = f.dst => e = f
    BY <1>1, PromotionsAssumption DEF Cell
  <2>2. bulk \subseteq UNION Promotions
    BY <1>1
  <2>3. entry \in Cell(Nat)
    BY <1>1 DEF Cell
  <2> QED BY <1>1, <2>1, <2>2, <2>3 DEF ControlOK
<1>3. /\ heap \in Seq(Node) /\ Len(heap) = 1 /\ DOMAIN heap = {1}
      /\ heap[1].isLeaf
      /\ heap[1].entries = << >> /\ heap[1].keys = << >> /\ heap[1].children = << >>
      /\ heap[1].next = None /\ heap[1].parent = None
  <2>1. Leaf(<< >>, None, None) \in Node
    BY EmptySeq DEF Leaf, Node, None
  <2> QED BY <1>1, <2>1 DEF Leaf
<1>4. /\ chain \in Seq({1}) /\ Len(chain) = 1 /\ chain[1] = 1
      /\ 1 .. 1 = {1}
  OBVIOUS
<1>5. lo \in [{1} -> Nat] /\ lo[1] = 0
  OBVIOUS
<1> HIDE DEF lo, chain
<1>6. BoundsOK(heap, lo, lo, lo)
  BY <1>3, <1>5 DEF BoundsOK, Below
<1>7. LinksOK(heap, 1, lo, lo, chain)
  BY <1>3, <1>4, <1>5 DEF LinksOK, LeafOK
<1>8. LeavesOK(heap, chain)
  BY <1>3, <1>4 DEF LeavesOK
<1>9. /\ Len(EntriesOf(heap, chain)) = 1
      /\ DOMAIN EntriesOf(heap, chain) = {1}
      /\ EntriesOf(heap, chain)[1] = << >>
  BY <1>3, <1>4, EntriesOfChain
<1>10. WellFormedChain(Nat, EntriesOf(heap, chain))
  <2>1. PICK list : list = EntriesOf(heap, chain)
    OBVIOUS
  <2>2. list \in Seq(Seq(Cell(Nat)))
    <3>1. list = [p \in 1 .. 1 |-> << >>]
      BY <1>3, <1>4, <2>1 DEF EntriesOf
    <3>2. << >> \in Seq(Cell(Nat))
      BY EmptySeq
    <3>3. list \in [1 .. 1 -> Seq(Cell(Nat))]
      BY <3>1, <3>2
    <3> QED BY <3>3, FunctionIsSeq
  <2>3. Len(list) = 1 /\ DOMAIN list = {1} /\ list[1] = << >>
    BY <1>9, <2>1
  <2>4. DOMAIN << >> = {} /\ Len(<< >>) = 0
    OBVIOUS
  <2>5. AscendingChain(list)
    BY <2>3, <2>4 DEF AscendingChain, Ascending
  <2> QED BY <2>1, <2>2, <2>3, <2>4, <2>5, BPlusTreeOrderAssumption DEF WellFormedChain
<1>11. InnerOK(heap, lo, lo, lo, None, None)
  BY <1>3 DEF InnerOK
<1>12. SeenHi(lo, None, None, 1) = 0
  BY <1>5 DEF SeenHi, None
<1>13. ParentsOK(heap, 1, lo, lo, None, None)
  BY <1>3, <1>5, <1>12 DEF ParentsOK
<1>14. SplitOK(heap, 1, split.promotedKey, lo, lo, lo, None, None)
  BY DEF SplitOK
<1>15. Shape(heap, 1, 1, split.promotedKey, None, None, lo, lo, lo, chain)
  BY <1>6, <1>7, <1>8, <1>10, <1>11, <1>13, <1>14 DEF Shape
<1>16. AllKeys(EntriesOf(heap, chain)) = {}
  BY <1>9 DEF AllKeys, Keys
<1>17. Indexed(lo, lo, lo, chain)
  <2>1. Left = None
    BY <1>1 DEF Left
  <2> QED BY <1>1, <1>15, <1>16, <2>1 DEF Indexed, DescentOK, ItemsOK
<1>18. KeysFit(heap)
  BY <1>3, BPlusTreeOrderAssumption DEF KeysFit
<1> QED BY <1>2, <1>17, <1>18 DEF IInv

-----------------------------------------------------------------------------
(* One lemma per action.                                                   *)

\* While nothing is being split the bounds hold for every node.
LEMMA Whole ==
  ASSUME ControlOK, pc # "propagate",
         NEW lo, NEW hi, NEW height, NEW chain, Indexed(lo, hi, height, chain)
  PROVE  /\ split.rightSibling = None /\ Left = None
         /\ Shape(heap, queryPointer, traversalPointer, split.promotedKey, None, None,
                  lo, hi, height, chain)
<1>1. split.rightSibling = None /\ Left = None
  BY DEF ControlOK, Left
<1> QED BY <1>1 DEF Indexed

\* Every key is within the bounds of the root.
LEMMA RootUnbounded ==
  ASSUME NEW nodes, NEW root, NEW first, NEW key, NEW lo, NEW hi, NEW height, NEW chain,
         Shape(nodes, root, first, key, None, None, lo, hi, height, chain), NEW d \in Nat
  PROVE  root \in DOMAIN nodes /\ Within(d, lo, hi, root)
<1>1. /\ nodes \in Seq(Node)
      /\ root \in DOMAIN nodes /\ lo[root] = 0 /\ SeenHi(hi, None, None, root) = 0
  BY DEF Shape, ParentsOK, BoundsOK
<1>2. root # None
  BY <1>1, NodeFields DEF None
<1>3. hi[root] = 0
  BY <1>1, <1>2 DEF SeenHi
<1> QED BY <1>1, <1>3 DEF Within, Below

LEMMA NextItemIInv == ASSUME IInv, NextItem PROVE IInv' /\ ChainEntries' = ChainEntries
<1>1. PICK lo, hi, height, chain : Indexed(lo, hi, height, chain)
  BY DEF IInv
<1>2. ControlOK /\ KeysFit(heap) /\ pc = "idle"
  BY DEF IInv, NextItem
<1>3. /\ split.rightSibling = None /\ Left = None
      /\ Shape(heap, queryPointer, traversalPointer, split.promotedKey, None, None,
               lo, hi, height, chain)
  BY <1>1, <1>2, Whole
<1>4. PICK e \in bulk : bulk' = bulk \ {e} /\ entry' = e
  BY DEF NextItem
<1>5. /\ pc' = "insert" /\ node' = queryPointer
      /\ heap' = heap /\ queryPointer' = queryPointer
      /\ traversalPointer' = traversalPointer /\ split' = split
  BY DEF NextItem
<1>6. ControlOK'
  <2>1. /\ bulk \subseteq UNION Promotions /\ bulk \subseteq Cell(Nat)
        /\ \A f, g \in bulk : f.dst = g.dst => f = g
    BY <1>2 DEF ControlOK
  <2>2. <<e.dst, e.weight>> \in Puts
    BY <2>1 DEF Puts
  <2>3. \A f \in bulk' : f.dst # e.dst
    BY <1>4, <2>1
  <2>4. /\ bulk' \subseteq UNION Promotions /\ bulk' \subseteq Cell(Nat)
        /\ \A f, g \in bulk' : f.dst = g.dst => f = g
    BY <1>4, <2>1
  <2>5. e \in Cell(Nat)
    BY <2>1
  <2> QED BY <1>3, <1>4, <1>5, <2>2, <2>3, <2>4, <2>5 DEF ControlOK, Puts
<1>7. ItemsOK(heap, chain, bulk)
  BY <1>1 DEF Indexed
<1>8. DescentOK(heap, lo, hi, chain, "insert", e.dst, queryPointer)
  <2>1. e.dst \in Nat
    BY <1>2, CellProperties DEF ControlOK
  <2> QED BY <1>3, <1>7, <2>1, RootUnbounded DEF DescentOK, ItemsOK
<1>9. ItemsOK(heap, chain, bulk')
  BY <1>4, <1>7 DEF ItemsOK
<1>10. Left' = None /\ split'.rightSibling = None
  BY <1>3, <1>5 DEF Left
<1>11. Indexed(lo, hi, height, chain)'
  BY <1>3, <1>4, <1>5, <1>8, <1>9, <1>10 DEF Indexed
<1>12. ChainEntries' = ChainEntries
  BY <1>5 DEF ChainEntries, NextChain
<1> QED BY <1>2, <1>5, <1>6, <1>11, <1>12 DEF IInv

LEMMA CallIInv ==
  ASSUME IInv, NEW c \in PutCalls, Call(c[1], c[2])
  PROVE  IInv' /\ ChainEntries' = ChainEntries
<1>1. PICK lo, hi, height, chain : Indexed(lo, hi, height, chain)
  BY DEF IInv
<1>2. ControlOK /\ KeysFit(heap) /\ pc = "idle"
  BY DEF IInv, Call
<1>3. /\ split.rightSibling = None /\ Left = None
      /\ Shape(heap, queryPointer, traversalPointer, split.promotedKey, None, None,
               lo, hi, height, chain)
  BY <1>1, <1>2, Whole
<1>4. /\ c[1] \in Nat /\ c[2] \in Nat /\ c = <<c[1], c[2]>>
  BY PutCallsAssumption
<1>5. /\ pc' = "update" /\ node' = queryPointer
      /\ entry' = [dst |-> c[1], weight |-> c[2]]
      /\ bulk = {} /\ bulk' = bulk
      /\ heap' = heap /\ queryPointer' = queryPointer
      /\ traversalPointer' = traversalPointer /\ split' = split
  BY DEF Call
<1>6. entry' \in Cell(Nat) /\ entry'.dst = c[1] /\ entry'.weight = c[2]
  BY <1>4, <1>5 DEF Cell
<1>7. <<entry'.dst, entry'.weight>> \in Puts
  BY <1>4, <1>6 DEF Puts
<1>8. ControlOK'
  BY <1>3, <1>5, <1>6, <1>7 DEF ControlOK, Puts
<1>9. DescentOK(heap, lo, hi, chain, "update", c[1], queryPointer)
  BY <1>3, <1>4, RootUnbounded DEF DescentOK
<1>10. Left' = None /\ split'.rightSibling = None
  BY <1>3, <1>5 DEF Left
<1>11. Indexed(lo, hi, height, chain)'
  BY <1>3, <1>5, <1>6, <1>9, <1>10 DEF Indexed, ItemsOK
<1>12. ChainEntries' = ChainEntries
  BY <1>5 DEF ChainEntries, NextChain
<1> QED BY <1>2, <1>5, <1>8, <1>11, <1>12 DEF IInv

LEMMA DescendIInv == ASSUME IInv, Descend PROVE IInv' /\ ChainEntries' = ChainEntries
<1>1. PICK lo, hi, height, chain : Indexed(lo, hi, height, chain)
  BY DEF IInv
<1>2. ControlOK /\ KeysFit(heap) /\ pc \in {"update", "insert"} /\ ~heap[node].isLeaf
  BY DEF IInv, Descend
<1>3. /\ split.rightSibling = None /\ Left = None
      /\ Shape(heap, queryPointer, traversalPointer, split.promotedKey, None, None,
               lo, hi, height, chain)
  BY <1>1, <1>2, Whole
<1>5. /\ node' = ChildFor(node, entry.dst)
      /\ heap' = heap /\ queryPointer' = queryPointer /\ bulk' = bulk
      /\ traversalPointer' = traversalPointer /\ split' = split /\ pc' = pc
      /\ entry' = entry
  BY DEF Descend
<1>6. DescentOK(heap, lo, hi, chain, pc, entry.dst, node) /\ ItemsOK(heap, chain, bulk)
  BY <1>1 DEF Indexed
<1>7. node \in DOMAIN heap /\ Within(entry.dst, lo, hi, node)
  BY <1>2, <1>6 DEF DescentOK
<1>8. BoundsOK(heap, lo, hi, height) /\ InnerOK(heap, lo, hi, height, None, None)
  BY <1>3 DEF Shape
<1>9. node' \in DOMAIN heap /\ Within(entry.dst, lo, hi, node')
  <2>1. entry.dst \in Nat
    BY <1>2, CellProperties DEF ControlOK
  <2> DEFINE c == ChildFor(node, entry.dst)
  <2>2. c = heap[node].children[UpperBound(heap[node].keys, entry.dst) + 1]
    BY DEF ChildFor
  <2> HIDE DEF c
  <2>3. c \in DOMAIN heap /\ Within(entry.dst, lo, hi, c)
    BY <1>2, <1>7, <1>8, <2>1, <2>2, DescentStep
  <2>4. node' = c
    BY <1>5 DEF c
  <2> QED BY <2>3, <2>4
<1>10. DescentOK(heap, lo, hi, chain, pc, entry.dst, node')
  BY <1>6, <1>9 DEF DescentOK
<1>11. ControlOK'
  BY <1>2, <1>5 DEF ControlOK, Puts
<1>12. Left' = None /\ split'.rightSibling = None
  BY <1>3, <1>5 DEF Left
<1>13. Indexed(lo, hi, height, chain)'
  BY <1>3, <1>5, <1>6, <1>10, <1>12 DEF Indexed
<1>14. ChainEntries' = ChainEntries
  BY <1>5 DEF ChainEntries, NextChain
<1> QED BY <1>2, <1>5, <1>11, <1>13, <1>14 DEF IInv

\* The leaf a descent has come to is the one the route names.
LEMMA AtLeaf ==
  ASSUME NEW nodes, NEW root, NEW first, NEW key, NEW lo, NEW hi, NEW height, NEW chain,
         Shape(nodes, root, first, key, None, None, lo, hi, height, chain),
         NEW at \in DOMAIN nodes, nodes[at].isLeaf, NEW d \in Nat, Within(d, lo, hi, at)
  PROVE  \E p \in 1 .. Len(chain) :
           /\ chain[p] = at
           /\ p = Route(EntriesOf(nodes, chain), d)
           /\ EntriesOf(nodes, chain)[p] = nodes[at].entries
<1>1. /\ LinksOK(nodes, first, lo, hi, chain)
      /\ WellFormedChain(Nat, EntriesOf(nodes, chain))
      /\ LeavesOK(nodes, chain)
  BY DEF Shape
<1>2. PICK p \in 1 .. Len(chain) : chain[p] = at
  BY <1>1 DEF LeavesOK
<1>3. p = Route(EntriesOf(nodes, chain), d)
  BY <1>1, <1>2, LeafOfRoute
<1>4. EntriesOf(nodes, chain)[p] = nodes[at].entries
  BY <1>2 DEF EntriesOf
<1> QED BY <1>2, <1>3, <1>4

LEMMA NotInLeafIInv == ASSUME IInv, NotInLeaf PROVE IInv' /\ ChainEntries' = ChainEntries
<1>1. PICK lo, hi, height, chain : Indexed(lo, hi, height, chain)
  BY DEF IInv
<1>2. /\ ControlOK /\ KeysFit(heap) /\ pc = "update" /\ heap[node].isLeaf
      /\ entry.dst \notin Keys(heap[node].entries)
  BY DEF IInv, NotInLeaf
<1>3. /\ split.rightSibling = None /\ Left = None
      /\ Shape(heap, queryPointer, traversalPointer, split.promotedKey, None, None,
               lo, hi, height, chain)
  BY <1>1, <1>2, Whole
<1>5. /\ node' = queryPointer /\ pc' = "insert"
      /\ heap' = heap /\ queryPointer' = queryPointer /\ bulk' = bulk
      /\ traversalPointer' = traversalPointer /\ split' = split
      /\ entry' = entry
  BY DEF NotInLeaf
<1>6. DescentOK(heap, lo, hi, chain, pc, entry.dst, node) /\ ItemsOK(heap, chain, bulk)
  BY <1>1 DEF Indexed
<1>7. node \in DOMAIN heap /\ Within(entry.dst, lo, hi, node)
  BY <1>2, <1>6 DEF DescentOK
<1>8. entry.dst \in Nat /\ bulk = {}
  BY <1>2, CellProperties DEF ControlOK
<1>9. PICK list : list = EntriesOf(heap, chain)
  OBVIOUS
<1>10. entry.dst \notin AllKeys(list)
  <2>1. PICK p \in 1 .. Len(chain) : p = Route(list, entry.dst) /\ list[p] = heap[node].entries
    BY <1>2, <1>3, <1>7, <1>8, <1>9, AtLeaf
  <2>2. WellFormedChain(Nat, list)
    BY <1>3, <1>9 DEF Shape
  <2> SUFFICES ASSUME entry.dst \in AllKeys(list) PROVE FALSE
    OBVIOUS
  <2>3. PICK n \in 1 .. Len(list) : entry.dst \in Keys(list[n])
    BY <2>2, ChainProperties DEF AllKeys
  <2>4. n = Route(list, entry.dst)
    BY <2>2, <2>3, RouteFindsKey
  <2> QED BY <1>2, <2>1, <2>3, <2>4
<1>11. DescentOK(heap, lo, hi, chain, "insert", entry.dst, queryPointer)
  BY <1>3, <1>8, <1>9, <1>10, RootUnbounded DEF DescentOK
<1>12. ControlOK'
  BY <1>2, <1>3, <1>5, <1>8 DEF ControlOK, Puts
<1>13. Left' = None /\ split'.rightSibling = None
  BY <1>3, <1>5 DEF Left
<1>14. Indexed(lo, hi, height, chain)'
  BY <1>3, <1>5, <1>6, <1>11, <1>13 DEF Indexed
<1>15. ChainEntries' = ChainEntries
  BY <1>5 DEF ChainEntries, NextChain
<1> QED BY <1>2, <1>5, <1>12, <1>14, <1>15 DEF IInv

LEMMA UpdateInLeafIInv ==
  ASSUME IInv, UpdateInLeaf
  PROVE  /\ IInv'
         /\ entry.dst \in AllKeys(ChainEntries)
         /\ ChainEntries' = Reweighted(ChainEntries, entry)
<1>1. PICK lo, hi, height, chain : Indexed(lo, hi, height, chain)
  BY DEF IInv
<1>2. /\ ControlOK /\ KeysFit(heap) /\ pc = "update" /\ heap[node].isLeaf
  BY DEF IInv, UpdateInLeaf
<1>3. /\ split.rightSibling = None /\ Left = None
      /\ Shape(heap, queryPointer, traversalPointer, split.promotedKey, None, None,
               lo, hi, height, chain)
  BY <1>1, <1>2, Whole
<1>4. PICK i \in DOMAIN heap[node].entries :
        /\ heap[node].entries[i].dst = entry.dst
        /\ heap' = [heap EXCEPT ![node].entries[i] = entry]
  BY DEF UpdateInLeaf
<1>5. /\ pc' = "idle" /\ queryPointer' = queryPointer /\ bulk' = bulk /\ node' = node
      /\ traversalPointer' = traversalPointer /\ split' = split /\ entry' = entry
  BY DEF UpdateInLeaf
<1>6. DescentOK(heap, lo, hi, chain, pc, entry.dst, node)
  BY <1>1 DEF Indexed
<1>7. node \in DOMAIN heap /\ Within(entry.dst, lo, hi, node)
  BY <1>2, <1>6 DEF DescentOK
<1>8. entry \in Cell(Nat) /\ entry.dst \in Nat /\ bulk = {}
  BY <1>2, CellProperties DEF ControlOK
<1>9. PICK list : list = EntriesOf(heap, chain)
  OBVIOUS
<1>10. ChainEntries = list
  BY <1>1, <1>9, ReadEntries
<1>11. PICK p \in 1 .. Len(chain) : chain[p] = node
  BY <1>2, <1>3, <1>7, <1>8, AtLeaf
<1> DEFINE es == [heap[node].entries EXCEPT ![i] = entry]
           after == Refilled(heap, node, es)
<1>12. heap' = after
  BY <1>4 DEF Refilled
<1>13. /\ Shape(after, queryPointer, traversalPointer, split.promotedKey, None, None,
                lo, hi, height, chain)
       /\ EntriesOf(after, chain) = Reweighted(list, entry)
       /\ entry.dst \in AllKeys(list)
  BY <1>3, <1>4, <1>8, <1>9, <1>11, UpdateKeepsShape
<1>14. EntriesDiffer(heap, after, node)
  <2>1. heap \in Seq(Node)
    BY <1>3 DEF Shape, BoundsOK
  <2>2. heap[node].entries \in Seq(Cell(Nat))
    BY <1>7, <2>1, NodeFields
  <2>3. es \in Seq(Cell(Nat))
    <3>1. DOMAIN heap[node].entries = 1 .. Len(heap[node].entries)
          /\ Len(heap[node].entries) \in Nat
      BY <2>2, CellProperties
    <3>2. es \in [1 .. Len(heap[node].entries) -> Cell(Nat)]
      BY <1>8, <2>2, <3>1, CellProperties
    <3> HIDE DEF es
    <3> QED BY <3>1, <3>2, FunctionIsSeq
  <2> HIDE DEF es
  <2> QED BY <1>7, <2>1, <2>3, RefilledProperties
<1> HIDE DEF after, es
<1>15. KeysFit(heap')
  BY <1>2, <1>12, <1>14 DEF KeysFit, EntriesDiffer
<1>16. ControlOK'
  BY <1>2, <1>3, <1>5, <1>8 DEF ControlOK, Puts
<1>17. Left' = None /\ split'.rightSibling = None
  BY <1>3, <1>5 DEF Left
<1>18. Shape(heap', queryPointer', traversalPointer', split'.promotedKey, Left',
             split'.rightSibling, lo, hi, height, chain)
  BY <1>5, <1>12, <1>13, <1>17
<1>19. /\ DescentOK(heap', lo, hi, chain, pc', entry'.dst, node')
       /\ ItemsOK(heap', chain, bulk')
  BY <1>5, <1>8 DEF DescentOK, ItemsOK
<1>20. IInv'
  BY <1>15, <1>16, <1>18, <1>19, EstablishIInv
<1>21. ChainEntries' = Reweighted(list, entry)
  BY <1>12, <1>13, <1>18, ReadEntriesAfter
<1> QED BY <1>10, <1>13, <1>20, <1>21

\* The leaf that splits is the one that overflows, and the entry is new.
LEMMA InsertInLeafIInv ==
  ASSUME IInv, InsertInLeaf
  PROVE  /\ IInv'
         /\ entry.dst \notin AllKeys(ChainEntries)
         /\ ChainEntries' =
              InsertIntoLeaf(ChainEntries, Route(ChainEntries, entry.dst), entry)
         /\ level' = IF Splits(ChainEntries[Route(ChainEntries, entry.dst)])
                       THEN level + 1 ELSE level
<1>1. PICK lo, hi, height, chain : Indexed(lo, hi, height, chain)
  BY DEF IInv
<1>2. /\ ControlOK /\ KeysFit(heap) /\ pc = "insert" /\ heap[node].isLeaf
  BY DEF IInv, InsertInLeaf
<1>3. /\ split.rightSibling = None /\ Left = None
      /\ Shape(heap, queryPointer, traversalPointer, split.promotedKey, None, None,
               lo, hi, height, chain)
  BY <1>1, <1>2, Whole
<1>4. DescentOK(heap, lo, hi, chain, pc, entry.dst, node) /\ ItemsOK(heap, chain, bulk)
  BY <1>1 DEF Indexed
<1>5. PICK list : list = EntriesOf(heap, chain)
  OBVIOUS
<1>6. /\ node \in DOMAIN heap /\ Within(entry.dst, lo, hi, node)
      /\ entry.dst \notin AllKeys(list)
  BY <1>2, <1>4, <1>5 DEF DescentOK
<1>7. /\ entry \in Cell(Nat) /\ entry.dst \in Nat
      /\ \A e \in bulk : e.dst # entry.dst
  BY <1>2, CellProperties DEF ControlOK
<1>8. ChainEntries = list
  BY <1>1, <1>5, ReadEntries
<1>9. PICK p \in 1 .. Len(chain) :
        /\ chain[p] = node
        /\ p = Route(list, entry.dst)
        /\ list[p] = heap[node].entries
  BY <1>2, <1>3, <1>5, <1>6, <1>7, AtLeaf
<1> DEFINE grown == InsertSorted(heap[node].entries, entry)
           right == Len(heap) + 1
<1>10. /\ heap \in Seq(Node) /\ heap[node].entries \in Seq(Cell(Nat))
       /\ Len(heap) \in Nat
  <2>1. heap \in Seq(Node)
    BY <1>3 DEF Shape, BoundsOK
  <2> QED BY <1>6, <2>1, NodeFields
<1>11. grown \in Seq(Cell(Nat)) /\ Len(grown) = Len(heap[node].entries) + 1
  BY <1>7, <1>10, InsertSortedProperties
<1>12. Overflows(Len(grown)) <=> Splits(heap[node].entries)
  BY <1>11 DEF Overflows, Splits
<1>13. WellFormedChain(Nat, list)
  BY <1>3, <1>5 DEF Shape
<1>14. AllKeys(InsertIntoLeaf(list, p, entry)) = AllKeys(list) \cup {entry.dst}
  BY <1>6, <1>7, <1>9, <1>13, InsertWithoutSplit, InsertWithSplit
<1>15. \A e \in bulk : e.dst \notin AllKeys(list) \cup {entry.dst}
  BY <1>4, <1>5, <1>7 DEF ItemsOK
<1>16. /\ queryPointer' = queryPointer /\ bulk' = bulk /\ node' = node
       /\ traversalPointer' = traversalPointer /\ entry' = entry
  BY DEF InsertInLeaf
<1>17. CASE ~Splits(heap[node].entries)
  <2> DEFINE after == Refilled(heap, node, grown)
  <2>1. heap' = after /\ pc' = "idle" /\ split' = split /\ level' = level
    BY <1>12, <1>17 DEF InsertInLeaf, Refilled
  <2>2. /\ Shape(after, queryPointer, traversalPointer, split.promotedKey, None, None,
                 lo, hi, height, chain)
        /\ EntriesOf(after, chain) = InsertIntoLeaf(list, p, entry)
    BY <1>3, <1>5, <1>6, <1>7, <1>9, <1>17, InsertNoSplit
  <2>3. EntriesDiffer(heap, after, node)
    <3> HIDE DEF grown
    <3> QED BY <1>6, <1>10, <1>11, RefilledProperties
  <2> HIDE DEF after, grown
  <2>4. KeysFit(heap')
    BY <1>2, <2>1, <2>3 DEF KeysFit, EntriesDiffer
  <2>5. ControlOK'
    BY <1>2, <1>3, <1>16, <2>1 DEF ControlOK, Puts
  <2>6. Left' = None /\ split'.rightSibling = None
    BY <1>3, <2>1 DEF Left
  <2>7. Shape(heap', queryPointer', traversalPointer', split'.promotedKey, Left',
              split'.rightSibling, lo, hi, height, chain)
    BY <1>16, <2>1, <2>2, <2>6
  <2>8. /\ DescentOK(heap', lo, hi, chain, pc', entry'.dst, node')
        /\ ItemsOK(heap', chain, bulk')
    BY <1>14, <1>15, <1>16, <2>1, <2>2 DEF DescentOK, ItemsOK
  <2>9. IInv'
    BY <2>4, <2>5, <2>7, <2>8, EstablishIInv
  <2>10. ChainEntries' = InsertIntoLeaf(list, p, entry)
    BY <2>1, <2>2, <2>7, ReadEntriesAfter
  <2> QED BY <1>6, <1>8, <1>9, <1>17, <2>1, <2>9, <2>10
<1>18. CASE Splits(heap[node].entries)
  <2> DEFINE low == LeftHalf(grown)
             high == RightHalf(grown)
             m == high[1].dst
             after == LeafSplit(heap, node, low, high)
             lo2 == SplitLo(lo, right, m)
             hi2 == SplitHi(hi, node, right, m)
             height2 == SplitHeight(height, node, right)
             chain2 == SplitChain(chain, p, right)
  <2>1. /\ heap' = after /\ pc' = "propagate" /\ level' = level + 1
        /\ split' = [promotedKey |-> m, rightSibling |-> right]
    BY <1>12, <1>18 DEF InsertInLeaf, LeafSplit
  <2>2. /\ Shape(after, queryPointer, traversalPointer, m, node, right, lo2, hi2,
                 height2, chain2)
        /\ EntriesOf(after, chain2) = InsertIntoLeaf(list, p, entry)
        /\ low \in Seq(Cell(Nat)) /\ high \in Seq(Cell(Nat))
    <3> HIDE DEF grown, right, low, high, m, after, lo2, hi2, height2, chain2
    <3>1. PICK k : k = split.promotedKey
      OBVIOUS
    <3>2. Shape(heap, queryPointer, traversalPointer, k, None, None, lo, hi, height, chain)
      BY <1>3, <3>1
    <3>3. /\ grown = InsertSorted(heap[node].entries, entry)
          /\ right = Len(heap) + 1
          /\ after = LeafSplit(heap, node, LeftHalf(grown), RightHalf(grown))
          /\ m = RightHalf(grown)[1].dst
      BY DEF grown, right, after, m, low, high
    <3>4. /\ Shape(after, queryPointer, traversalPointer, m, node, right,
                   SplitLo(lo, right, m), SplitHi(hi, node, right, m),
                   SplitHeight(height, node, right), SplitChain(chain, p, right))
          /\ EntriesOf(after, SplitChain(chain, p, right)) = InsertIntoLeaf(list, p, entry)
          /\ LeftHalf(grown) \in Seq(Cell(Nat)) /\ RightHalf(grown) \in Seq(Cell(Nat))
      BY <1>5, <1>6, <1>7, <1>9, <1>18, <3>2, <3>3, InsertSplit
    <3> QED BY <3>4 DEF low, high, lo2, hi2, height2, chain2
  <2>3. IsLeafSplit(heap, after, node, right, low, high)
    <3> HIDE DEF grown, low, high
    <3> QED BY <1>6, <1>10, <2>2, LeafSplitNodes
  <2>4. right # None /\ right \in Nat /\ DOMAIN heap = 1 .. Len(heap)
        /\ 1 .. right = DOMAIN heap \cup {right}
    BY <1>10, NodeFields DEF None
  <2> HIDE DEF grown, right, low, high, m, after, lo2, hi2, height2, chain2
  <2>5. KeysFit(heap')
    <3> SUFFICES ASSUME NEW k \in DOMAIN heap \cup {right}
                 PROVE  Len(after[k].keys) < BPlusTreeOrder
      BY <2>1, <2>3, <2>4 DEF KeysFit, IsLeafSplit
    <3>1. CASE k = right
      <4>1. after[k].keys = << >>
        BY <2>3, <3>1 DEF IsLeafSplit, NewAfterLeafSplit
      <4> QED BY <4>1, BPlusTreeOrderAssumption
    <3>2. CASE k \in DOMAIN heap
      <4>1. after[k].keys = heap[k].keys
        BY <2>3, <3>2 DEF IsLeafSplit, OldAfterLeafSplit
      <4> QED BY <1>2, <3>2, <4>1 DEF KeysFit
    <3> QED BY <3>1, <3>2
  <2>6. split'.rightSibling = right /\ split'.promotedKey = m
    BY <2>1
  <2>7. ControlOK'
    BY <1>2, <1>16, <2>1, <2>4, <2>6 DEF ControlOK, Puts
  <2>8. Left' = node
    BY <1>16, <2>4, <2>6 DEF Left
  <2>9. Shape(heap', queryPointer', traversalPointer', split'.promotedKey, Left',
              split'.rightSibling, lo2, hi2, height2, chain2)
    BY <1>16, <2>1, <2>2, <2>6, <2>8
  <2>10. /\ DescentOK(heap', lo2, hi2, chain2, pc', entry'.dst, node')
         /\ ItemsOK(heap', chain2, bulk')
    BY <1>14, <1>15, <1>16, <2>1, <2>2 DEF DescentOK, ItemsOK
  <2>11. IInv'
    BY <2>5, <2>7, <2>9, <2>10, EstablishIInv
  <2>12. ChainEntries' = InsertIntoLeaf(list, p, entry)
    BY <2>1, <2>2, <2>9, ReadEntriesAfter
  <2> QED BY <1>6, <1>8, <1>9, <1>18, <2>1, <2>11, <2>12
<1> QED BY <1>17, <1>18

LEMMA GrowRootIInv == ASSUME IInv, GrowRoot PROVE IInv' /\ ChainEntries' = ChainEntries
<1>1. PICK lo, hi, height, chain : Indexed(lo, hi, height, chain)
  BY DEF IInv
<1>2. ControlOK /\ KeysFit(heap) /\ pc = "propagate"
  BY DEF IInv, GrowRoot
<1>3. split.rightSibling # None /\ Left = node
  BY <1>2 DEF ControlOK, Left
<1>4. PICK right, key : right = split.rightSibling /\ key = split.promotedKey
  OBVIOUS
<1>5. Shape(heap, queryPointer, traversalPointer, key, node, right, lo, hi, height, chain)
  BY <1>1, <1>3, <1>4 DEF Indexed
<1> DEFINE top == Len(heap) + 1
           after == RootGrown(heap, node, right, key)
           lo2 == GrownBound(lo, top)
           hi2 == GrownBound(hi, top)
           height2 == GrownHeight(height, node, top)
<1>6. /\ heap' = after /\ queryPointer' = top /\ pc' = "idle" /\ split' = NoSplit
      /\ traversalPointer' = traversalPointer /\ bulk' = bulk /\ entry' = entry
      /\ node' = node /\ heap[node].parent = None
  BY <1>4 DEF GrowRoot, RootGrown
<1>7. /\ Shape(after, top, traversalPointer, 0, None, None, lo2, hi2, height2, chain)
      /\ EntriesOf(after, chain) = EntriesOf(heap, chain)
      /\ IsRootGrown(heap, after, node, right, key, top)
  BY <1>3, <1>4, <1>5, <1>6, GrowRootKeepsShape
<1> HIDE DEF after, top, lo2, hi2, height2
<1>8. KeysFit(after)
  <2>1. heap \in Seq(Node) /\ Len(heap) \in Nat /\ DOMAIN heap = 1 .. Len(heap)
    <3>1. heap \in Seq(Node)
      BY <1>5 DEF Shape, BoundsOK
    <3> QED BY <3>1, NodeFields
  <2>2. DOMAIN after = DOMAIN heap \cup {top}
    BY <1>7, <2>1 DEF IsRootGrown, top
  <2> SUFFICES ASSUME NEW k \in DOMAIN heap \cup {top}
               PROVE  Len(after[k].keys) < BPlusTreeOrder
    BY <2>2 DEF KeysFit
  <2>3. CASE k = top
    <3>1. after[k].keys = <<key>>
      BY <1>7, <2>3 DEF IsRootGrown, NewAfterRootGrown
    <3> QED BY <3>1, BPlusTreeOrderAssumption
  <2>4. CASE k \in DOMAIN heap
    <3>1. after[k].keys = heap[k].keys
      BY <1>7, <2>4 DEF IsRootGrown, OldAfterRootGrown
    <3> QED BY <1>2, <2>4, <3>1 DEF KeysFit
  <2> QED BY <2>3, <2>4
<1>9. split'.rightSibling = None /\ split'.promotedKey = 0 /\ Left' = None
  BY <1>6 DEF NoSplit, Left
<1>10. ControlOK'
  BY <1>2, <1>6, <1>9 DEF ControlOK, Puts
<1>11. Shape(heap', queryPointer', traversalPointer', split'.promotedKey, Left',
             split'.rightSibling, lo2, hi2, height2, chain)
  BY <1>6, <1>7, <1>9
<1>12. /\ DescentOK(heap', lo2, hi2, chain, pc', entry'.dst, node')
       /\ ItemsOK(heap', chain, bulk')
  BY <1>1, <1>6, <1>7 DEF Indexed, DescentOK, ItemsOK
<1>13. IInv'
  BY <1>6, <1>8, <1>10, <1>11, <1>12, EstablishIInv
<1>14. ChainEntries' = EntriesOf(after, chain)
  BY <1>6, <1>11, ReadEntriesAfter
<1> QED BY <1>1, <1>7, <1>13, <1>14, ReadEntries

LEMMA InsertInParentIInv ==
  ASSUME IInv, InsertInParent
  PROVE  IInv' /\ ChainEntries' = ChainEntries
<1>1. PICK lo, hi, height, chain : Indexed(lo, hi, height, chain)
  BY DEF IInv
<1>2. ControlOK /\ KeysFit(heap) /\ pc = "propagate"
  BY DEF IInv, InsertInParent
<1>3. split.rightSibling # None /\ Left = node
  BY <1>2 DEF ControlOK, Left
<1>4. PICK right, key : right = split.rightSibling /\ key = split.promotedKey
  OBVIOUS
<1>5. Shape(heap, queryPointer, traversalPointer, key, node, right, lo, hi, height, chain)
  BY <1>1, <1>3, <1>4 DEF Indexed
<1>6. PICK above : above = heap[node].parent
  OBVIOUS
<1> DEFINE pos == UpperBound(heap[above].keys, key)
           more == InsertAt(heap[above].keys, pos + 1, key)
           wider == InsertAt(heap[above].children, pos + 2, right)
           linked == Linked(heap, above, more, wider, right)
<1>7. /\ above # None /\ node' = above
      /\ queryPointer' = queryPointer /\ traversalPointer' = traversalPointer
      /\ bulk' = bulk /\ entry' = entry
  BY <1>6 DEF InsertInParent
<1>8. /\ Shape(linked, queryPointer, traversalPointer, 0, None, None, lo, hi, height, chain)
      /\ EntriesOf(linked, chain) = EntriesOf(heap, chain)
      /\ IsLinked(heap, linked, above, more, wider, right)
      /\ above \in DOMAIN heap /\ ~heap[above].isLeaf
      /\ more \in Seq(Nat) /\ wider \in Seq(Nat)
      /\ Len(more) = Len(heap[above].keys) + 1
  <2>1. LinkedIn(heap, node, right, key, above, pos, more, wider, linked)
    BY <1>3, <1>4, <1>6, <1>7 DEF LinkedIn
  <2> HIDE DEF linked, more, wider, pos
  <2> QED BY <1>5, <2>1, LinkKeepsShape
<1>9. /\ linked \in Seq(Node) /\ Len(linked) = Len(heap) /\ DOMAIN linked = DOMAIN heap
      /\ Len(heap) \in Nat /\ DOMAIN heap = 1 .. Len(heap)
      /\ linked[above].keys = more /\ linked[above].children = wider
      /\ ~linked[above].isLeaf
      /\ \A k \in DOMAIN heap : k # above => linked[k].keys = heap[k].keys
      /\ above # right
  <2>1. heap \in Seq(Node)
    BY <1>5 DEF Shape, BoundsOK
  <2>2. above # right
    BY <1>3, <1>4, <1>5, <1>6, <1>7, SplitChild
  <2> HIDE DEF linked, more, wider, pos
  <2>3. linked \in Seq(Node) /\ Len(linked) = Len(heap) /\ DOMAIN linked = DOMAIN heap
    BY <1>8 DEF IsLinked
  <2>4. /\ linked[above].keys = more /\ linked[above].children = wider
        /\ ~linked[above].isLeaf
        /\ \A k \in DOMAIN heap : k # above => linked[k].keys = heap[k].keys
    BY <1>8 DEF IsLinked, OneLinked
  <2> QED BY <2>1, <2>2, <2>3, <2>4, NodeFields
<1>10. CASE ~Overflows(Len(more))
  <2>1. /\ heap' = linked /\ pc' = "idle" /\ split' = NoSplit
    BY <1>4, <1>6, <1>10 DEF InsertInParent, Linked
  <2> HIDE DEF linked, more, wider, pos
  <2>2. split'.rightSibling = None /\ split'.promotedKey = 0 /\ Left' = None
    BY <2>1 DEF NoSplit, Left
  <2>3. KeysFit(linked)
    <3>1. Len(more) \in Nat
      BY <1>8, LenProperties
    <3>2. Len(more) < BPlusTreeOrder
      BY <1>10, <3>1, BPlusTreeOrderAssumption DEF Overflows
    <3>3. \A k \in DOMAIN heap : Len(linked[k].keys) < BPlusTreeOrder
      BY <1>2, <1>9, <3>2 DEF KeysFit
    <3> QED BY <1>9, <3>3 DEF KeysFit
  <2>4. ControlOK'
    BY <1>2, <1>7, <2>1, <2>2 DEF ControlOK, Puts
  <2>5. Shape(heap', queryPointer', traversalPointer', split'.promotedKey, Left',
              split'.rightSibling, lo, hi, height, chain)
    BY <1>7, <1>8, <2>1, <2>2
  <2>6. /\ DescentOK(heap', lo, hi, chain, pc', entry'.dst, node')
        /\ ItemsOK(heap', chain, bulk')
    BY <1>1, <1>7, <1>8, <2>1 DEF Indexed, DescentOK, ItemsOK
  <2>7. IInv'
    BY <2>1, <2>3, <2>4, <2>5, <2>6, EstablishIInv
  <2>8. ChainEntries' = EntriesOf(linked, chain)
    BY <2>1, <2>5, ReadEntriesAfter
  <2> QED BY <1>1, <1>8, <2>7, <2>8, ReadEntries
<1>11. CASE Overflows(Len(more))
  <2> DEFINE mid == Len(more) \div 2
             lowKeys == SubSeq(more, 1, mid)
             lowChildren == SubSeq(wider, 1, mid + 1)
             highKeys == UpperKeys(more)
             moved == UpperChildren(more, wider)
             m == more[mid + 1]
             new == Len(heap) + 1
             after == InnerSplit(linked, above, lowKeys, lowChildren, highKeys, moved,
                                 new, heap[above].parent)
             lo2 == SplitLo(lo, new, m)
             hi2 == SplitHi(hi, above, new, m)
             height2 == SplitHeight(height, above, new)
  <2>1. /\ heap' = after /\ pc' = pc
        /\ split' = [promotedKey |-> m, rightSibling |-> new]
    BY <1>4, <1>6, <1>11 DEF InsertInParent, Linked, InnerSplit
  <2> HIDE DEF linked, pos, after
  <2>2. heap[above].parent = linked[above].parent
    BY <1>8, <1>9 DEF IsLinked, OneLinked
  <2>3. InnerOK(linked, lo, hi, height, None, None)
    BY <1>8 DEF Shape
  <2>4. Len(wider) = Len(more) + 1
    BY <1>8, <1>9, <2>3 DEF InnerOK
  <2>5. IsHalved(more, wider, Len(more), mid, lowKeys, lowChildren, highKeys, moved)
    <3> HIDE DEF more, wider
    <3>1. Len(more) >= 3
      <4>1. Len(more) \in Nat
        BY <1>8, LenProperties
      <4> QED BY <1>11, <4>1, BPlusTreeOrderAssumption DEF Overflows
    <3> QED BY <1>8, <2>4, <3>1, HalvedArrays
  <2> HIDE DEF more, wider, lowKeys, lowChildren, highKeys, moved, mid, m, new, lo2, hi2, height2
  <2>6. IsInnerSplit(linked, after, above, lowKeys, lowChildren, highKeys, moved, new)
    <3>1. /\ lowKeys \in Seq(Nat) /\ lowChildren \in Seq(Nat)
          /\ highKeys \in Seq(Nat) /\ moved \in Seq(Nat)
      BY <2>5 DEF IsHalved
    <3>2. /\ new = Len(linked) + 1
          /\ after = InnerSplit(linked, above, lowKeys, lowChildren, highKeys, moved, new,
                                linked[above].parent)
      BY <1>9, <2>2 DEF new, after
    <3>3. above \in DOMAIN linked
      BY <1>8, <1>9
    <3> QED BY <1>9, <3>1, <3>2, <3>3, InnerSplitNodes
  <2>7. /\ Shape(after, queryPointer, traversalPointer, m, above, new, lo2, hi2, height2,
                 chain)
        /\ EntriesOf(after, chain) = EntriesOf(linked, chain)
    <3>1. IsHalved(linked[above].keys, linked[above].children, Len(more), mid, lowKeys,
                   lowChildren, highKeys, moved)
      BY <1>9, <2>5
    <3>2. SplitsInner(linked, after, above, Len(more), mid, lowKeys, lowChildren, highKeys,
                      moved, new, m)
      BY <1>8, <1>9, <2>6, <3>1 DEF SplitsInner, new, m
    <3>3. Shape(linked, queryPointer, traversalPointer, 0, None, None, lo, hi, height, chain)
      BY <1>8
    <3>4. /\ Shape(after, queryPointer, traversalPointer, m, above, new,
                   SplitLo(lo, new, m), SplitHi(hi, above, new, m),
                   SplitHeight(height, above, new), chain)
          /\ EntriesOf(after, chain) = EntriesOf(linked, chain)
      BY <3>2, <3>3, InnerSplitKeepsShape
    <3> QED BY <3>4 DEF lo2, hi2, height2
  <2>8. new # None /\ DOMAIN after = DOMAIN heap \cup {new}
    <3>1. new \in Nat /\ new # 0 /\ 1 .. new = DOMAIN heap \cup {new}
      BY <1>9 DEF new
    <3> QED BY <2>6, <3>1 DEF IsInnerSplit, None
  <2>9. KeysFit(after)
    <3>1. /\ Len(lowKeys) < BPlusTreeOrder /\ Len(highKeys) < BPlusTreeOrder
      <4>1. PICK K \in Nat : K = Len(heap[above].keys)
        <5>1. heap[above].keys \in Seq(Nat)
          <6>1. heap \in Seq(Node)
            BY <1>5 DEF Shape, BoundsOK
          <6> QED BY <1>8, <6>1, NodeFields
        <5> QED BY <5>1, LenProperties
      <4>2. K < BPlusTreeOrder /\ Len(more) = K + 1
        BY <1>2, <1>8, <4>1 DEF KeysFit
      <4>3. mid \in 1 .. (K + 1) - 2 /\ Len(lowKeys) = mid /\ Len(highKeys) = (K + 1) - mid - 1
        BY <2>5, <4>2 DEF IsHalved
      <4> QED BY <4>1, <4>2, <4>3, BPlusTreeOrderAssumption
    <3> SUFFICES ASSUME NEW k \in DOMAIN heap \cup {new}
                 PROVE  Len(after[k].keys) < BPlusTreeOrder
      BY <2>8 DEF KeysFit
    <3>2. CASE k = new
      <4>1. after[k].keys = highKeys
        BY <2>6, <3>2 DEF IsInnerSplit, NewAfterInnerSplit
      <4> QED BY <3>1, <4>1
    <3>3. CASE k \in DOMAIN heap
      <4>1. after[k].keys = IF k = above THEN lowKeys ELSE linked[k].keys
        BY <1>9, <2>6, <3>3 DEF IsInnerSplit, OldAfterInnerSplit
      <4>2. k # above => Len(heap[k].keys) < BPlusTreeOrder
        BY <1>2, <3>3 DEF KeysFit
      <4> QED BY <1>9, <3>1, <3>3, <4>1, <4>2
    <3> QED BY <3>2, <3>3
  <2>10. split'.rightSibling = new /\ split'.promotedKey = m
    BY <2>1
  <2>11. Left' = above
    BY <1>7, <2>8, <2>10 DEF Left
  <2>12. ControlOK'
    BY <1>2, <1>7, <2>1, <2>8, <2>10 DEF ControlOK, Puts
  <2>13. Shape(heap', queryPointer', traversalPointer', split'.promotedKey, Left',
               split'.rightSibling, lo2, hi2, height2, chain)
    BY <1>7, <2>1, <2>7, <2>10, <2>11
  <2>14. /\ DescentOK(heap', lo2, hi2, chain, pc', entry'.dst, node')
         /\ ItemsOK(heap', chain, bulk')
    BY <1>1, <1>2, <1>7, <1>8, <2>1, <2>7 DEF Indexed, DescentOK, ItemsOK
  <2>15. IInv'
    BY <2>1, <2>9, <2>12, <2>13, <2>14, EstablishIInv
  <2>16. ChainEntries' = EntriesOf(after, chain)
    BY <2>1, <2>13, ReadEntriesAfter
  <2> QED BY <1>1, <1>8, <2>7, <2>15, <2>16, ReadEntries
<1> QED BY <1>10, <1>11

-----------------------------------------------------------------------------
(* The invariant of the machine, and the chain of leaves it implements.    *)

LEMMA NextIInv == IInv /\ [Next]_vars => IInv'
<1>1. ASSUME IInv, Step PROVE IInv'
  BY <1>1, NextItemIInv, DescendIInv, UpdateInLeafIInv, NotInLeafIInv, InsertInLeafIInv,
     GrowRootIInv, InsertInParentIInv DEF Step
<1>2. ASSUME IInv, NEW c \in PutCalls, Call(c[1], c[2]) PROVE IInv'
  BY <1>2, CallIInv
<1>3. ASSUME IInv, UNCHANGED vars PROVE IInv'
  <2>1. PICK lo, hi, height, chain : Indexed(lo, hi, height, chain)
    BY <1>3 DEF IInv
  <2>2. /\ heap' = heap /\ queryPointer' = queryPointer
        /\ traversalPointer' = traversalPointer /\ bulk' = bulk /\ pc' = pc
        /\ entry' = entry /\ node' = node /\ split' = split
    BY <1>3 DEF vars
  <2>3. Left' = Left
    BY <2>2 DEF Left
  <2>4. Indexed(lo, hi, height, chain)'
    BY <2>1, <2>2, <2>3 DEF Indexed
  <2>5. ControlOK' /\ KeysFit(heap')
    BY <1>3, <2>2 DEF IInv, ControlOK, Puts
  <2> QED BY <2>4, <2>5, <2>2 DEF IInv
<1> QED BY <1>1, <1>2, <1>3 DEF Next

\* After every step of every call, a split on its way up included, the nodes
\* are a tree of leaves at one depth, with separators that bound the keys
\* below them, parent links inverse to the child links, and a chain of leaves
\* in ascending order of keys.
THEOREM TreeInvariant == Spec => []IInv
BY InitIInv, NextIInv, PTL DEF Spec

\* LeafChain has its own copies of the operators of GCCNodes.
LEMMA ChainOperators ==
  /\ \A d : Chain!Route(ChainEntries, d) = Route(ChainEntries, d)
  /\ Chain!AllKeys(ChainEntries) = AllKeys(ChainEntries)
  /\ \A leaf : Chain!Splits(leaf) = Splits(leaf)
  /\ \A i, e : Chain!InsertIntoLeaf(ChainEntries, i, e) = InsertIntoLeaf(ChainEntries, i, e)
<1>1. \A d : Chain!Route(ChainEntries, d) = Route(ChainEntries, d)
  BY DEF Chain!Route, Route
<1>2. Chain!AllKeys(ChainEntries) = AllKeys(ChainEntries)
  BY DEF Chain!AllKeys, AllKeys, Chain!Keys, Keys
<1>3. \A leaf : Chain!Splits(leaf) = Splits(leaf)
  BY DEF Chain!Splits, Splits
<1>4. \A leaf, e : Chain!InsertSorted(leaf, e) = InsertSorted(leaf, e)
  BY DEF Chain!InsertSorted, InsertSorted, Chain!LowerBound, LowerBound
<1>5. \A leaf : Chain!LeftHalf(leaf) = LeftHalf(leaf) /\ Chain!RightHalf(leaf) = RightHalf(leaf)
  BY DEF Chain!LeftHalf, LeftHalf, Chain!RightHalf, RightHalf
<1>6. \A i, e : Chain!InsertIntoLeaf(ChainEntries, i, e) = InsertIntoLeaf(ChainEntries, i, e)
  BY <1>3, <1>4, <1>5 DEF Chain!InsertIntoLeaf, InsertIntoLeaf
<1> QED BY <1>1, <1>2, <1>3, <1>6

LEMMA InitChain == Init => Chain!Init
<1> SUFFICES ASSUME Init PROVE Chain!Init
  OBVIOUS
<1>1. heap = <<Leaf(<< >>, None, None)>> /\ traversalPointer = 1 /\ size = 0 /\ level = 1
  BY DEF Init
<1>2. PICK lo, hi, height, chain : Indexed(lo, hi, height, chain)
  BY InitIInv DEF IInv
<1>3. ChainEntries = EntriesOf(heap, chain)
  BY <1>2, ReadEntries
<1>4. /\ chain \in Seq(DOMAIN heap) /\ Len(chain) >= 1
      /\ \A p, q \in 1 .. Len(chain) : chain[p] = chain[q] => p = q
      /\ Len(chain) \in Nat
  BY <1>2, LenProperties DEF Indexed, Shape, LinksOK
<1>5. DOMAIN heap = {1} /\ heap[1].entries = << >>
  BY <1>1 DEF Leaf
<1>6. \A p \in 1 .. Len(chain) : chain[p] = 1
  BY <1>4, <1>5, ElementOfSeq
<1>7. Len(chain) = 1
  <2> SUFFICES ASSUME Len(chain) # 1 PROVE FALSE
    OBVIOUS
  <2>1. 1 \in 1 .. Len(chain) /\ 2 \in 1 .. Len(chain)
    <3>1. PICK L \in Nat : L = Len(chain)
      BY <1>4
    <3>2. L >= 1 /\ L # 1
      BY <1>4, <3>1
    <3>3. 1 \in 1 .. L /\ 2 \in 1 .. L
      BY <3>2
    <3> QED BY <3>1, <3>3
  <2>2. chain[1] = chain[2]
    BY <1>6, <2>1
  <2>3. 1 = 2
    BY <1>4, <2>1, <2>2
  <2> QED BY <2>3
<1>8. ChainEntries = [p \in 1 .. 1 |-> << >>]
  BY <1>3, <1>5, <1>6, <1>7 DEF EntriesOf
<1>9. ChainEntries = << << >> >>
  BY <1>8
<1> QED BY <1>1, <1>9 DEF Chain!Init

\* A step of the machine is a step of the chain, or leaves the chain alone.
LEMMA NextChainStep ==
  IInv /\ [Next]_vars => [Chain!Next]_<<ChainEntries, size, level>>
<1> SUFFICES ASSUME IInv, [Next]_vars
             PROVE  [Chain!Next]_<<ChainEntries, size, level>>
  OBVIOUS
<1>1. CASE NextItem
  BY <1>1, NextItemIInv DEF NextItem
<1>2. CASE \E c \in PutCalls : Call(c[1], c[2])
  BY <1>2, CallIInv DEF Call
<1>3. CASE Descend
  BY <1>3, DescendIInv DEF Descend
<1>4. CASE NotInLeaf
  BY <1>4, NotInLeafIInv DEF NotInLeaf
<1>5. CASE GrowRoot
  BY <1>5, GrowRootIInv DEF GrowRoot
<1>6. CASE InsertInParent
  BY <1>6, InsertInParentIInv DEF InsertInParent
<1>7. entry \in Cell(Nat) /\ entry = [dst |-> entry.dst, weight |-> entry.weight]
  BY CellProperties DEF IInv, ControlOK, Cell
<1>8. CASE UpdateInLeaf
  <2>1. entry.dst \in AllKeys(ChainEntries) /\ ChainEntries' = Reweighted(ChainEntries, entry)
    BY <1>8, UpdateInLeafIInv
  <2>2. <<entry.dst, entry.weight>> \in PutCalls \cup {<<e.dst, e.weight>> : e \in UNION Promotions}
    BY <1>8 DEF IInv, ControlOK, UpdateInLeaf, Puts
  <2>3. UNCHANGED <<size, level>>
    BY <1>8 DEF UpdateInLeaf
  <2>4. ChainEntries' = [n \in DOMAIN ChainEntries |->
                           [i \in DOMAIN ChainEntries[n] |->
                              IF ChainEntries[n][i].dst = entry.dst
                                THEN [dst |-> entry.dst, weight |-> entry.weight]
                                ELSE ChainEntries[n][i]]]
    BY <1>7, <2>1 DEF Reweighted
  <2>5. Chain!Update(entry.dst, entry.weight)
    BY <2>1, <2>3, <2>4, ChainOperators DEF Chain!Update
  <2> QED BY <2>2, <2>5 DEF Chain!Next
<1>9. CASE InsertInLeaf
  <2> DEFINE r == Route(ChainEntries, entry.dst)
  <2>1. /\ entry.dst \notin AllKeys(ChainEntries)
        /\ ChainEntries' = InsertIntoLeaf(ChainEntries, r, entry)
        /\ level' = IF Splits(ChainEntries[r]) THEN level + 1 ELSE level
    BY <1>9, InsertInLeafIInv
  <2>2. <<entry.dst, entry.weight>> \in PutCalls \cup {<<e.dst, e.weight>> : e \in UNION Promotions}
    BY <1>9 DEF IInv, ControlOK, InsertInLeaf, Puts
  <2>3. size' = size + 1
    BY <1>9 DEF InsertInLeaf
  <2>4. Chain!Insert(entry.dst, entry.weight)
    BY <1>7, <2>1, <2>3, ChainOperators DEF Chain!Insert
  <2> QED BY <2>2, <2>4 DEF Chain!Next
<1>10. CASE UNCHANGED vars
  <2>1. ChainEntries' = ChainEntries
    BY <1>10 DEF vars, ChainEntries, NextChain
  <2> QED BY <1>10, <2>1 DEF vars
<1> QED BY <1>1, <1>2, <1>3, <1>4, <1>5, <1>6, <1>8, <1>9, <1>10 DEF Next, Step

\* The tree does what a chain of leaves without an index does: every call puts
\* its entry, once, in the leaf it belongs in, and growing the index on top of
\* the chain changes nothing in it.
THEOREM TreeImplementsLeafChain == Spec => ImplementsLeafChain
<1>1. Init => Chain!Init
  BY InitChain
<1>2. IInv /\ [Next]_vars => [Chain!Next]_<<ChainEntries, size, level>>
  BY NextChainStep
<1> QED BY <1>1, <1>2, TreeInvariant, PTL DEF Spec, ImplementsLeafChain, Chain!Spec


-----------------------------------------------------------------------------
(* Where the descents end.                                                 *)

\* f follows child until it comes to a node of ends.
Descends(f, D, ends, child) ==
  f = [n \in D |-> IF n \in ends THEN n ELSE f[child[n]]]

\* child leads down by one height at a time.
GoesDown(D, ends, child, height) ==
  /\ child \in [D -> D]
  /\ height \in [D -> Nat]
  /\ \A n \in D \ ends : height[child[n]] + 1 = height[n]

LEMMA DescentExists ==
  ASSUME NEW D, NEW ends, NEW child, NEW height, GoesDown(D, ends, child, height),
         NEW N \in Nat, \A n \in D : height[n] <= N
  PROVE  \E f : Descends(f, D, ends, child)
<1>1. /\ child \in [D -> D] /\ height \in [D -> Nat]
      /\ \A n \in D \ ends : height[child[n]] + 1 = height[n]
  BY DEF GoesDown
<1> DEFINE V == [D -> D]
           a == [n \in D |-> n]
           next(g) == [n \in D |-> IF n \in ends THEN n ELSE g[child[n]]]
           step == [g \in V |-> next(g)]
<1>2. a \in V
  OBVIOUS
<1>3. step \in [V -> V]
  BY <1>1
<1>4. PICK g \in [0 .. N -> V] : Iterates(g, N, a, step)
  <2> HIDE DEF V, a, step
  <2> QED BY <1>2, <1>3, RecursiveFunction
<1>11. \A k \in 0 .. N : g[k] = IF k = 0 THEN a ELSE step[g[k - 1]]
  <2> HIDE DEF V, a, step
  <2> QED BY <1>4, Zenon DEF Iterates
<1>5. \A n \in D : g[0][n] = n
  <2>1. g[0] = a
    <3> HIDE DEF V, a, step
    <3> QED BY <1>11
  <2> QED BY <2>1
<1>6. ASSUME NEW k \in 1 .. N, NEW n \in D
      PROVE  g[k][n] = IF n \in ends THEN n ELSE g[k - 1][child[n]]
  <2>1. g[k] = step[g[k - 1]] /\ k - 1 \in 0 .. N
    <3> HIDE DEF V, a, step
    <3> QED BY <1>11
  <2>2. g[k - 1] \in V
    BY <1>4, <2>1
  <2>3. step[g[k - 1]] = next(g[k - 1])
    BY <2>2
  <2> QED BY <2>1, <2>3
<1> DEFINE f == [n \in D |-> g[height[n]][n]]
<1>7. ASSUME NEW n \in D
      PROVE  f[n] = IF n \in ends THEN n ELSE f[child[n]]
  <2>1. height[n] \in 0 .. N
    BY <1>1
  <2>2. CASE n \in ends
    <3>1. g[height[n]][n] = n
      BY <1>5, <1>6, <2>1, <2>2
    <3> QED BY <2>2, <3>1
  <2>3. CASE n \notin ends
    <3>1. /\ child[n] \in D /\ height[child[n]] \in Nat
          /\ height[child[n]] + 1 = height[n]
      BY <1>1, <2>3
    <3>2. height[n] \in 1 .. N /\ height[n] - 1 = height[child[n]]
      BY <2>1, <3>1
    <3>3. g[height[n]][n] = g[height[child[n]]][child[n]]
      BY <1>6, <2>3, <3>2
    <3> QED BY <2>3, <3>1, <3>3
  <2> QED BY <2>2, <2>3
<1>8. f = [n \in D |-> f[n]]
  OBVIOUS
<1> HIDE DEF f
<1>9. f = [n \in D |-> IF n \in ends THEN n ELSE f[child[n]]]
  BY <1>7, <1>8, Zenon
<1> QED BY <1>9 DEF Descends

LEMMA DescentEnds ==
  ASSUME NEW D, NEW ends, NEW child, NEW height, GoesDown(D, ends, child, height),
         NEW f, Descends(f, D, ends, child),
         NEW P \in SUBSET D, \A n \in P \ ends : child[n] \in P
  PROVE  \A n \in P : f[n] \in P /\ f[n] \in ends
<1>1. /\ child \in [D -> D] /\ height \in [D -> Nat]
      /\ \A n \in D \ ends : height[child[n]] + 1 = height[n]
  BY DEF GoesDown
<1>2. \A n \in D : f[n] = IF n \in ends THEN n ELSE f[child[n]]
  <2>1. f = [n \in D |-> IF n \in ends THEN n ELSE f[child[n]]]
    BY DEF Descends
  <2> QED BY <2>1, Zenon
<1> DEFINE S == {h \in Nat : \A n \in P : height[n] <= h => f[n] \in P /\ f[n] \in ends}
<1>3. ASSUME NEW n \in P, n \in ends PROVE f[n] \in P /\ f[n] \in ends
  BY <1>2, <1>3
<1>4. ASSUME NEW n \in P, n \notin ends
      PROVE  child[n] \in P /\ height[child[n]] \in Nat /\ height[n] = height[child[n]] + 1
             /\ f[n] = f[child[n]]
  BY <1>1, <1>2, <1>4
<1>5. 0 \in S
  <2> SUFFICES ASSUME NEW n \in P, height[n] <= 0 PROVE f[n] \in P /\ f[n] \in ends
    OBVIOUS
  <2>1. n \in ends
    BY <1>4
  <2> QED BY <1>3, <2>1
<1>6. ASSUME NEW h \in Nat, h \in S PROVE h + 1 \in S
  <2> SUFFICES ASSUME NEW n \in P, height[n] <= h + 1 PROVE f[n] \in P /\ f[n] \in ends
    OBVIOUS
  <2>1. CASE n \in ends
    BY <1>3, <2>1
  <2>2. CASE n \notin ends
    <3>1. height[child[n]] <= h /\ child[n] \in P /\ f[n] = f[child[n]]
      BY <1>4, <2>2
    <3> QED BY <1>6, <3>1
  <2> QED BY <2>1, <2>2
<1>7. Nat \subseteq S
  <2> HIDE DEF S
  <2> QED BY <1>5, <1>6, SetInduction
<1> SUFFICES ASSUME NEW n \in P PROVE f[n] \in P /\ f[n] \in ends
  OBVIOUS
<1>8. height[n] \in S /\ height[n] <= height[n]
  BY <1>1, <1>7
<1> QED BY <1>8

\* DescentEnd of any nodes.
EndOf(nodes, root, d) ==
  LET down == CHOOSE f : f = [n \in DOMAIN nodes |->
                IF nodes[n].isLeaf THEN n
                ELSE f[nodes[n].children[UpperBound(nodes[n].keys, d) + 1]]]
  IN  down[root]

LEMMA DescentEndIsEndOf == \A k : DescentEnd(k) = EndOf(heap, queryPointer, k)
BY DEF DescentEnd, EndOf, ChildFor

LEMMA EndOfDescent ==
  ASSUME NEW nodes, NEW root, NEW first, NEW key, NEW lo, NEW hi, NEW height, NEW chain,
         Shape(nodes, root, first, key, None, None, lo, hi, height, chain), NEW d \in Nat
  PROVE  EndOf(nodes, root, d) = chain[Route(EntriesOf(nodes, chain), d)]
<1> DEFINE D == DOMAIN nodes
           ends == {n \in D : nodes[n].isLeaf}
           step(n) == nodes[n].children[UpperBound(nodes[n].keys, d) + 1]
           child == [n \in D |-> IF nodes[n].isLeaf THEN n ELSE step(n)]
           P == {n \in D : Within(d, lo, hi, n)}
<1>1. /\ BoundsOK(nodes, lo, hi, height) /\ InnerOK(nodes, lo, hi, height, None, None)
      /\ nodes \in Seq(Node) /\ Len(nodes) \in Nat
      /\ height \in [D -> Nat] /\ \A n \in D : height[n] <= Len(nodes)
  BY NodeFields DEF Shape, BoundsOK
<1>2. ASSUME NEW n \in D, ~nodes[n].isLeaf
      PROVE  step(n) \in D /\ height[step(n)] + 1 = height[n]
  <2>1. /\ nodes[n].keys \in Seq(Nat) /\ Len(nodes[n].keys) \in Nat
        /\ KeysOK(nodes[n].keys, lo[n], hi[n])
        /\ \A i \in 1 .. Len(nodes[n].keys) + 1 :
              ChildOK(nodes, lo, hi, height, None, None, n, i)
    BY <1>1, <1>2, NodeFields, LenProperties DEF InnerOK
  <2>2. PICK u : u = UpperBound(nodes[n].keys, d)
    OBVIOUS
  <2>3. u \in 0 .. Len(nodes[n].keys)
    BY <2>1, <2>2, UpperBoundProperties DEF KeysOK
  <2>4. u + 1 \in 1 .. Len(nodes[n].keys) + 1
    BY <2>1, <2>3
  <2>5. ChildOK(nodes, lo, hi, height, None, None, n, u + 1)
    BY <2>1, <2>4
  <2> QED BY <2>2, <2>5 DEF ChildOK
<1>3. ASSUME NEW n \in D, ~nodes[n].isLeaf, Within(d, lo, hi, n)
      PROVE  Within(d, lo, hi, step(n))
  <2>1. PICK c : c = step(n)
    OBVIOUS
  <2>2. Within(d, lo, hi, c)
    BY <1>1, <1>3, <2>1, DescentStep
  <2> QED BY <2>1, <2>2
<1> HIDE DEF step
<1>4. GoesDown(D, ends, child, height)
  BY <1>1, <1>2 DEF GoesDown
<1>5. P \in SUBSET D /\ \A n \in P \ ends : child[n] \in P
  BY <1>2, <1>3
<1> DEFINE down == CHOOSE f : Descends(f, D, ends, child)
<1>6. \E f : Descends(f, D, ends, child)
  <2> HIDE DEF D, ends, child
  <2> QED BY <1>1, <1>4, DescentExists
<1>7. Descends(down, D, ends, child)
  <2> HIDE DEF D, ends, child
  <2> QED BY <1>6
<1>8. root \in P
  BY RootUnbounded
<1>9. down[root] \in P /\ down[root] \in ends
  <2> HIDE DEF D, ends, child, P, down
  <2> QED BY <1>4, <1>5, <1>7, <1>8, DescentEnds
<1>10. EndOf(nodes, root, d) = down[root]
  <2>1. \A f : Descends(f, D, ends, child) <=>
               f = [n \in DOMAIN nodes |->
                      IF nodes[n].isLeaf THEN n
                      ELSE f[nodes[n].children[UpperBound(nodes[n].keys, d) + 1]]]
    <3> TAKE f
    <3>1. [n \in D |-> IF n \in ends THEN n ELSE f[child[n]]]
            = [n \in D |-> IF nodes[n].isLeaf THEN n ELSE f[step(n)]]
      OBVIOUS
    <3> QED BY <3>1 DEF Descends, step
  <2> HIDE DEF child, ends
  <2> QED BY <2>1 DEF EndOf
<1> HIDE DEF down
<1>11. PICK at : at = down[root]
  OBVIOUS
<1>12. at \in DOMAIN nodes /\ nodes[at].isLeaf /\ Within(d, lo, hi, at)
  BY <1>9, <1>11
<1>13. \E p \in 1 .. Len(chain) : chain[p] = at /\ p = Route(EntriesOf(nodes, chain), d)
  BY <1>12, AtLeaf
<1> QED BY <1>10, <1>11, <1>13

\* Between calls the descent for any key ends in the leaf whose keys surround
\* it, whatever splits the separators of the inner nodes come from.
THEOREM DescentsFollowRoute == Spec => []DescentFollowsRoute
<1>1. IInv => DescentFollowsRoute
  <2> SUFFICES ASSUME IInv, pc = "idle", NEW c \in PutCalls
               PROVE  DescentEnd(c[1]) = NextChain[Route(ChainEntries, c[1])]
    BY DEF DescentFollowsRoute
  <2>1. PICK lo, hi, height, chain : Indexed(lo, hi, height, chain)
    BY DEF IInv
  <2>2. Shape(heap, queryPointer, traversalPointer, split.promotedKey, None, None,
              lo, hi, height, chain)
    BY <2>1, Whole DEF IInv
  <2>3. NextChain = chain /\ ChainEntries = EntriesOf(heap, chain)
    BY <2>1, ReadEntries
  <2>4. c[1] \in Nat
    BY PutCallsAssumption
  <2>5. EndOf(heap, queryPointer, c[1]) = chain[Route(EntriesOf(heap, chain), c[1])]
    BY <2>2, <2>4, EndOfDescent
  <2> QED BY <2>3, <2>5, DescentEndIsEndOf
<1> QED BY <1>1, TreeInvariant, PTL


-----------------------------------------------------------------------------
(* The layers of the tree.                                                 *)

\* No key of m is at or above a key of n.
Apart(lo, hi, m, n) == hi[m] # 0 /\ hi[m] <= lo[n]

\* The bounds of the nodes in s do not overlap, and ascend.
Tiled(s, lo, hi) == \A i, j \in 1 .. Len(s) : i < j => Apart(lo, hi, s[i], s[j])

LEMMA RangeOfConcat ==
  ASSUME NEW S, NEW s \in Seq(S), NEW t \in Seq(S)
  PROVE  RangeOf(s \o t) = RangeOf(s) \cup RangeOf(t)
<1>1. /\ Len(s) \in Nat /\ Len(t) \in Nat
      /\ DOMAIN s = 1 .. Len(s) /\ DOMAIN t = 1 .. Len(t)
      /\ s \o t \in Seq(S) /\ Len(s \o t) = Len(s) + Len(t)
      /\ DOMAIN (s \o t) = 1 .. Len(s) + Len(t)
      /\ \A i \in 1 .. Len(s) + Len(t) :
            (s \o t)[i] = IF i <= Len(s) THEN s[i] ELSE t[i - Len(s)]
  BY ConcatProperties, LenProperties
<1> PICK u : u = s \o t
  OBVIOUS
<1>2. \A i \in 1 .. Len(s) : i \in 1 .. Len(s) + Len(t) /\ u[i] = s[i]
  BY <1>1
<1>3. \A i \in 1 .. Len(t) :
         i + Len(s) \in 1 .. Len(s) + Len(t) /\ u[i + Len(s)] = t[i]
  BY <1>1
<1>4. ASSUME NEW i \in 1 .. Len(s) + Len(t) PROVE u[i] \in RangeOf(s) \cup RangeOf(t)
  <2>1. CASE i <= Len(s)
    <3>1. i \in DOMAIN s /\ u[i] = s[i]
      BY <1>1, <2>1
    <3> QED BY <3>1 DEF RangeOf
  <2>2. CASE ~(i <= Len(s))
    <3>1. i - Len(s) \in DOMAIN t /\ u[i] = t[i - Len(s)]
      BY <1>1, <2>2
    <3> QED BY <3>1 DEF RangeOf
  <2> QED BY <2>1, <2>2
<1>5. DOMAIN u = 1 .. Len(s) + Len(t)
  BY <1>1
<1>6. RangeOf(u) \subseteq RangeOf(s) \cup RangeOf(t)
  BY <1>4, <1>5 DEF RangeOf
<1>7. RangeOf(s) \subseteq RangeOf(u) /\ RangeOf(t) \subseteq RangeOf(u)
  <2>1. ASSUME NEW i \in 1 .. Len(s) PROVE s[i] \in RangeOf(u)
    BY <1>2, <1>5 DEF RangeOf
  <2>2. ASSUME NEW i \in 1 .. Len(t) PROVE t[i] \in RangeOf(u)
    BY <1>3, <1>5 DEF RangeOf
  <2> QED BY <1>1, <2>1, <2>2 DEF RangeOf
<1> QED BY <1>6, <1>7

LEMMA ConcatTiled ==
  ASSUME NEW S, NEW s \in Seq(S), NEW t \in Seq(S), NEW lo, NEW hi,
         Tiled(s, lo, hi), Tiled(t, lo, hi),
         \A x \in RangeOf(s), y \in RangeOf(t) : Apart(lo, hi, x, y)
  PROVE  Tiled(s \o t, lo, hi)
<1>1. /\ Len(s) \in Nat /\ Len(t) \in Nat
      /\ DOMAIN s = 1 .. Len(s) /\ DOMAIN t = 1 .. Len(t)
      /\ Len(s \o t) = Len(s) + Len(t)
      /\ \A i \in 1 .. Len(s) + Len(t) :
            (s \o t)[i] = IF i <= Len(s) THEN s[i] ELSE t[i - Len(s)]
  BY ConcatProperties, LenProperties
<1> PICK u : u = s \o t
  OBVIOUS
<1> SUFFICES ASSUME NEW i \in 1 .. Len(s) + Len(t), NEW j \in 1 .. Len(s) + Len(t), i < j
             PROVE  Apart(lo, hi, u[i], u[j])
  BY <1>1 DEF Tiled
<1>2. CASE j <= Len(s)
  <2>1. i \in 1 .. Len(s) /\ j \in 1 .. Len(s) /\ u[i] = s[i] /\ u[j] = s[j]
    BY <1>1, <1>2
  <2> QED BY <2>1 DEF Tiled
<1>3. CASE i <= Len(s) /\ ~(j <= Len(s))
  <2>1. /\ i \in 1 .. Len(s) /\ j - Len(s) \in 1 .. Len(t)
        /\ u[i] = s[i] /\ u[j] = t[j - Len(s)]
    BY <1>1, <1>3
  <2> QED BY <1>1, <2>1 DEF RangeOf
<1>4. CASE ~(i <= Len(s))
  <2>1. /\ i - Len(s) \in 1 .. Len(t) /\ j - Len(s) \in 1 .. Len(t)
        /\ i - Len(s) < j - Len(s)
        /\ u[i] = t[i - Len(s)] /\ u[j] = t[j - Len(s)]
    BY <1>1, <1>4
  <2> QED BY <2>1 DEF Tiled
<1> QED BY <1>1, <1>2, <1>3, <1>4

\* g concatenates the sequences in ss, from the first to the n-th.
Flattens(g, n, ss) ==
  \A i \in 1 .. n : g[i] = IF i = 1 THEN ss[i] ELSE g[i - 1] \o ss[i]

LEMMA FlattenExists ==
  ASSUME NEW S, NEW N \in Nat, NEW ss \in [1 .. N -> Seq(S)]
  PROVE  \E g \in [1 .. N -> Seq(S)] : Flattens(g, N, ss)
<1> DEFINE T == {n \in Nat : n <= N => \E g \in [1 .. n -> Seq(S)] : Flattens(g, n, ss)}
<1>1. 0 \in T
  <2>1. [i \in 1 .. 0 |-> << >>] \in [1 .. 0 -> Seq(S)]
    OBVIOUS
  <2>2. Flattens([i \in 1 .. 0 |-> << >>], 0, ss)
    BY DEF Flattens
  <2> QED BY <2>1, <2>2
<1>2. ASSUME NEW n \in Nat, n \in T PROVE n + 1 \in T
  <2> SUFFICES ASSUME n + 1 <= N
               PROVE  \E g \in [1 .. n + 1 -> Seq(S)] : Flattens(g, n + 1, ss)
    OBVIOUS
  <2>1. PICK g \in [1 .. n -> Seq(S)] : Flattens(g, n, ss)
    BY <1>2
  <2> DEFINE last == IF n = 0 THEN ss[1] ELSE g[n] \o ss[n + 1]
             h == [i \in 1 .. n + 1 |-> IF i = n + 1 THEN last ELSE g[i]]
  <2>2. last \in Seq(S)
    <3>1. CASE n = 0
      BY <3>1
    <3>2. CASE n # 0
      <4>1. g[n] \in Seq(S) /\ ss[n + 1] \in Seq(S)
        BY <3>2
      <4>2. g[n] \o ss[n + 1] \in Seq(S)
        BY <4>1, ConcatProperties
      <4> QED BY <3>2, <4>2
    <3> QED BY <3>1, <3>2
  <2>3. \A i \in 1 .. n + 1 : i = n + 1 \/ i \in 1 .. n
    OBVIOUS
  <2>4. h \in [1 .. n + 1 -> Seq(S)]
    <3> HIDE DEF last
    <3> QED BY <2>2, <2>3
  <2>5. ASSUME NEW i \in 1 .. n + 1
        PROVE  h[i] = IF i = 1 THEN ss[i] ELSE h[i - 1] \o ss[i]
    <3>1. CASE i = n + 1
      <4>1. h[i] = last
        BY <3>1
      <4>2. i # 1 => h[i - 1] = g[n] /\ n # 0
        BY <3>1
      <4>3. i = 1 => n = 0
        BY <3>1
      <4> HIDE DEF h
      <4> QED BY <3>1, <4>1, <4>2, <4>3
    <3>2. CASE i \in 1 .. n
      <4>1. h[i] = g[i] /\ (i # 1 => h[i - 1] = g[i - 1])
        <5> HIDE DEF last
        <5>1. i # n + 1 /\ (i # 1 => i - 1 # n + 1 /\ i - 1 \in 1 .. n + 1)
          BY <3>2
        <5>2. h[i] = g[i]
          BY <5>1
        <5>3. i # 1 => h[i - 1] = g[i - 1]
          BY <5>1
        <5> QED BY <5>2, <5>3
      <4>2. g[i] = IF i = 1 THEN ss[i] ELSE g[i - 1] \o ss[i]
        BY <2>1, <3>2 DEF Flattens
      <4> HIDE DEF h
      <4> QED BY <4>1, <4>2
    <3> QED BY <2>3, <3>1, <3>2
  <2> HIDE DEF h
  <2>6. Flattens(h, n + 1, ss)
    BY <2>5 DEF Flattens
  <2> QED BY <2>4, <2>6
<1>3. Nat \subseteq T
  <2> HIDE DEF T
  <2> QED BY <1>1, <1>2, SetInduction
<1>4. N \in T /\ N <= N
  BY <1>3
<1> QED BY <1>4

\* What a sequence of node sequences must be for the whole to be tiled.
TiledBlocks(S, ss, lo, hi) ==
  /\ ss \in Seq(Seq(S))
  /\ \A a \in 1 .. Len(ss) : Tiled(ss[a], lo, hi)
  /\ \A a, b \in 1 .. Len(ss) : a < b =>
        \A x \in RangeOf(ss[a]), y \in RangeOf(ss[b]) : Apart(lo, hi, x, y)

LEMMA FlattensProperties ==
  ASSUME NEW S, NEW ss \in Seq(Seq(S)), NEW g, Flattens(g, Len(ss), ss)
  PROVE  \A n \in 1 .. Len(ss) :
            /\ g[n] \in Seq(S)
            /\ \A x : x \in RangeOf(g[n]) <=> \E a \in 1 .. n : x \in RangeOf(ss[a])
<1>1. Len(ss) \in Nat /\ \A a \in 1 .. Len(ss) : ss[a] \in Seq(S)
  BY LenProperties, ElementOfSeq
<1> DEFINE Good(n) ==
             /\ g[n] \in Seq(S)
             /\ \A x : x \in RangeOf(g[n]) <=> \E a \in 1 .. n : x \in RangeOf(ss[a])
           T == {n \in Nat : n \in 1 .. Len(ss) => Good(n)}
<1>2. 0 \in T
  OBVIOUS
<1>3. ASSUME NEW n \in Nat, n \in T PROVE n + 1 \in T
  <2> SUFFICES ASSUME n + 1 \in 1 .. Len(ss) PROVE Good(n + 1)
    OBVIOUS
  <2>1. g[n + 1] = IF n + 1 = 1 THEN ss[n + 1] ELSE g[(n + 1) - 1] \o ss[n + 1]
    BY DEF Flattens
  <2>2. CASE n = 0
    <3>1. g[1] = ss[1] /\ ss[1] \in Seq(S) /\ n + 1 = 1 /\ 1 .. 1 = {1}
      BY <1>1, <2>1, <2>2
    <3> QED BY <3>1
  <2>3. CASE n # 0
    <3>1. n \in 1 .. Len(ss) /\ n + 1 # 1 /\ (n + 1) - 1 = n
      BY <1>1, <2>3
    <3>2. Good(n)
      BY <1>3, <3>1
    <3>3. g[n + 1] = g[n] \o ss[n + 1] /\ ss[n + 1] \in Seq(S)
      BY <1>1, <2>1, <3>1
    <3>4. g[n + 1] \in Seq(S)
      BY <3>2, <3>3, ConcatProperties
    <3>5. RangeOf(g[n + 1]) = RangeOf(g[n]) \cup RangeOf(ss[n + 1])
      BY <3>2, <3>3, RangeOfConcat
    <3>6. 1 .. n + 1 = (1 .. n) \cup {n + 1}
      OBVIOUS
    <3> QED BY <3>2, <3>4, <3>5, <3>6
  <2> QED BY <2>2, <2>3
<1>4. Nat \subseteq T
  <2> HIDE DEF T
  <2> QED BY <1>2, <1>3, SetInduction
<1> SUFFICES ASSUME NEW n \in 1 .. Len(ss) PROVE Good(n)
  OBVIOUS
<1>5. n \in T
  <2>1. n \in Nat
    BY <1>1
  <2> HIDE DEF T
  <2> QED BY <1>4, <2>1
<1> QED BY <1>5

LEMMA FlattensTiled ==
  ASSUME NEW S, NEW ss, NEW lo, NEW hi, TiledBlocks(S, ss, lo, hi),
         NEW g, Flattens(g, Len(ss), ss)
  PROVE  \A n \in 1 .. Len(ss) : Tiled(g[n], lo, hi)
<1>1. /\ ss \in Seq(Seq(S)) /\ Len(ss) \in Nat
      /\ \A a \in 1 .. Len(ss) : ss[a] \in Seq(S) /\ Tiled(ss[a], lo, hi)
      /\ \A a, b \in 1 .. Len(ss) : a < b =>
            \A x \in RangeOf(ss[a]), y \in RangeOf(ss[b]) : Apart(lo, hi, x, y)
  BY LenProperties, ElementOfSeq DEF TiledBlocks
<1>2. \A n \in 1 .. Len(ss) :
            /\ g[n] \in Seq(S)
            /\ \A x : x \in RangeOf(g[n]) <=> \E a \in 1 .. n : x \in RangeOf(ss[a])
  BY <1>1, FlattensProperties
<1> DEFINE T == {n \in Nat : n \in 1 .. Len(ss) => Tiled(g[n], lo, hi)}
<1>3. 0 \in T
  OBVIOUS
<1>4. ASSUME NEW n \in Nat, n \in T PROVE n + 1 \in T
  <2> SUFFICES ASSUME n + 1 \in 1 .. Len(ss) PROVE Tiled(g[n + 1], lo, hi)
    OBVIOUS
  <2>1. g[n + 1] = IF n + 1 = 1 THEN ss[n + 1] ELSE g[(n + 1) - 1] \o ss[n + 1]
    BY DEF Flattens
  <2>2. CASE n = 0
    <3>1. g[n + 1] = ss[n + 1]
      BY <2>1, <2>2
    <3> QED BY <1>1, <3>1
  <2>3. CASE n # 0
    <3>1. n \in 1 .. Len(ss) /\ n + 1 # 1 /\ (n + 1) - 1 = n
      BY <1>1, <2>3
    <3>2. g[n] \in Seq(S) /\ Tiled(g[n], lo, hi)
      BY <1>2, <1>4, <3>1
    <3>3. g[n + 1] = g[n] \o ss[n + 1] /\ ss[n + 1] \in Seq(S) /\ Tiled(ss[n + 1], lo, hi)
      BY <1>1, <2>1, <3>1
    <3>4. ASSUME NEW x \in RangeOf(g[n]), NEW y \in RangeOf(ss[n + 1])
          PROVE  Apart(lo, hi, x, y)
      <4>1. PICK a \in 1 .. n : x \in RangeOf(ss[a])
        BY <1>2, <3>1, <3>4
      <4>2. a \in 1 .. Len(ss) /\ a < n + 1
        BY <1>1, <3>1
      <4> QED BY <1>1, <3>4, <4>1, <4>2
    <3> QED BY <3>2, <3>3, <3>4, ConcatTiled
  <2> QED BY <2>2, <2>3
<1>5. Nat \subseteq T
  <2> HIDE DEF T
  <2> QED BY <1>3, <1>4, SetInduction
<1> SUFFICES ASSUME NEW n \in 1 .. Len(ss) PROVE Tiled(g[n], lo, hi)
  OBVIOUS
<1>6. n \in T
  BY <1>1, <1>5
<1> QED BY <1>6

\* What FlattenSeq returns.
LEMMA FlattenSeqIsFlattens ==
  ASSUME NEW S, NEW ss \in Seq(Seq(S)), Len(ss) # 0
  PROVE  \E g : Flattens(g, Len(ss), ss) /\ FlattenSeq(ss) = g[Len(ss)]
<1> DEFINE N == Len(ss)
           Is(f) == f = [i \in 1 .. N |-> IF i = 1 THEN ss[i] ELSE f[i - 1] \o ss[i]]
<1>1. N \in Nat /\ ss \in [1 .. N -> Seq(S)]
  BY LenProperties, ElementOfSeq
<1>2. PICK g \in [1 .. N -> Seq(S)] : Flattens(g, N, ss)
  BY <1>1, FlattenExists
<1>3. g = [i \in 1 .. N |-> IF i = 1 THEN ss[i] ELSE g[i - 1] \o ss[i]]
  <2>1. g = [i \in 1 .. N |-> g[i]]
    BY <1>2
  <2> QED BY <1>2, <2>1, Zenon DEF Flattens
<1> DEFINE f == CHOOSE h : Is(h)
<1>4. Is(f)
  BY <1>3
<1>5. FlattenSeq(ss) = f[N]
  BY DEF FlattenSeq
<1> HIDE DEF f
<1>6. Flattens(f, N, ss)
  BY <1>4, Zenon DEF Flattens
<1> QED BY <1>5, <1>6

LEMMA FlattenSeqProperties ==
  ASSUME NEW S, NEW ss \in Seq(Seq(S))
  PROVE  /\ FlattenSeq(ss) \in Seq(S)
         /\ \A x : x \in RangeOf(FlattenSeq(ss)) <=>
                     \E a \in 1 .. Len(ss) : x \in RangeOf(ss[a])
         /\ \A lo, hi : TiledBlocks(S, ss, lo, hi) => Tiled(FlattenSeq(ss), lo, hi)
<1>1. Len(ss) \in Nat
  BY LenProperties
<1>2. CASE Len(ss) = 0
  <2>1. FlattenSeq(ss) = ss /\ ss = << >>
    BY <1>2, EmptySeq DEF FlattenSeq
  <2>2. << >> \in Seq(S) /\ RangeOf(<< >>) = {}
    BY EmptySeq DEF RangeOf
  <2>3. \A lo, hi : Tiled(<< >>, lo, hi)
    BY DEF Tiled
  <2> QED BY <1>2, <2>1, <2>2, <2>3
<1>3. CASE Len(ss) # 0
  <2>1. PICK g : Flattens(g, Len(ss), ss) /\ FlattenSeq(ss) = g[Len(ss)]
    BY <1>3, FlattenSeqIsFlattens
  <2>2. Len(ss) \in 1 .. Len(ss)
    BY <1>1, <1>3
  <2>3. /\ g[Len(ss)] \in Seq(S)
        /\ \A x : x \in RangeOf(g[Len(ss)]) <=> \E a \in 1 .. Len(ss) : x \in RangeOf(ss[a])
    <3>1. \A n \in 1 .. Len(ss) :
            /\ g[n] \in Seq(S)
            /\ \A x : x \in RangeOf(g[n]) <=> \E a \in 1 .. n : x \in RangeOf(ss[a])
      BY <2>1, FlattensProperties
    <3> QED BY <2>2, <3>1, Zenon
  <2>4. \A lo, hi : TiledBlocks(S, ss, lo, hi) => Tiled(g[Len(ss)], lo, hi)
    BY <2>1, <2>2, FlattensTiled
  <2> QED BY <2>1, <2>3, <2>4
<1> QED BY <1>2, <1>3


-----------------------------------------------------------------------------
(* What the chain of leaves promises.  A chain has the shape               *)
(* WellFormedChain, which InsertWithoutSplit and InsertWithSplit carry     *)
(* over an insertion and SameKeysSameShape over an update of a weight.     *)

\* The other operators that LeafChain has its own copies of.
LEMMA OtherChainOperators ==
  /\ \A chain, d : Chain!Route(chain, d) = Route(chain, d)
  /\ \A leaf : Chain!Keys(leaf) = Keys(leaf)
  /\ \A chain : Chain!AllKeys(chain) = AllKeys(chain)
  /\ \A leaf : Chain!Splits(leaf) = Splits(leaf)
  /\ \A chain, i, e : Chain!InsertIntoLeaf(chain, i, e) = InsertIntoLeaf(chain, i, e)
  /\ \A chain : Chain!AscendingChain(chain) = AscendingChain(chain)
<1>1. \A chain, d : Chain!Route(chain, d) = Route(chain, d)
  BY DEF Chain!Route, Route
<1>2. \A leaf : Chain!Keys(leaf) = Keys(leaf)
  BY DEF Chain!Keys, Keys
<1>3. \A chain : Chain!AllKeys(chain) = AllKeys(chain)
  BY <1>2 DEF Chain!AllKeys, AllKeys
<1>4. \A leaf : Chain!Splits(leaf) = Splits(leaf)
  BY DEF Chain!Splits, Splits
<1>5. \A leaf, e : Chain!InsertSorted(leaf, e) = InsertSorted(leaf, e)
  BY DEF Chain!InsertSorted, InsertSorted, Chain!LowerBound, LowerBound
<1>6. \A leaf : Chain!LeftHalf(leaf) = LeftHalf(leaf) /\ Chain!RightHalf(leaf) = RightHalf(leaf)
  BY DEF Chain!LeftHalf, LeftHalf, Chain!RightHalf, RightHalf
<1>7. \A chain, i, e : Chain!InsertIntoLeaf(chain, i, e) = InsertIntoLeaf(chain, i, e)
  <2> TAKE chain, i, e
  <2>1. Chain!Splits(chain[i]) = Splits(chain[i])
    BY <1>4
  <2>2. Chain!InsertSorted(chain[i], e) = InsertSorted(chain[i], e)
    BY <1>5
  <2>3. \A leaf : Chain!LeftHalf(leaf) = LeftHalf(leaf)
    BY <1>6
  <2>4. \A leaf : Chain!RightHalf(leaf) = RightHalf(leaf)
    BY <1>6
  <2> QED BY <2>1, <2>2, <2>3, <2>4, Zenon DEF Chain!InsertIntoLeaf, InsertIntoLeaf
<1>8. \A leaf : Chain!Ascending(leaf) = Ascending(leaf)
  BY DEF Chain!Ascending, Ascending
<1>9. \A chain : Chain!AscendingChain(chain) = AscendingChain(chain)
  BY <1>8 DEF Chain!AscendingChain, AscendingChain
<1> QED BY <1>1, <1>2, <1>3, <1>4, <1>7, <1>9

LEMMA ChainCardinality == \A S : Chain!Cardinality(S) = Cardinality(S)
BY DEF Chain!Cardinality, Cardinality

ChainIInv ==
  /\ WellFormedChain(Nat, ChainEntries)
  /\ IsFiniteSet(AllKeys(ChainEntries))
  /\ level = Len(ChainEntries)
  /\ size = Cardinality(AllKeys(ChainEntries))

\* One empty leaf.
LEMMA ChainInitIInv == Chain!Init => ChainIInv
<1> SUFFICES ASSUME Chain!Init PROVE ChainIInv
  OBVIOUS
<1>1. /\ ChainEntries \in Seq(Seq(Cell(Nat)))
      /\ Len(ChainEntries) = 1
      /\ DOMAIN ChainEntries = {1}
      /\ ChainEntries[1] = << >>
      /\ Len(ChainEntries[1]) = 0
      /\ DOMAIN ChainEntries[1] = {}
  BY DEF Chain!Init
<1>2. WellFormedChain(Nat, ChainEntries)
  BY <1>1, BPlusTreeOrderAssumption DEF WellFormedChain, AscendingChain, Ascending
<1>3. AllKeys(ChainEntries) = {}
  BY <1>1 DEF AllKeys, Keys
<1> QED BY <1>1, <1>2, <1>3, FS_EmptySet DEF ChainIInv, Chain!Init

\* An insertion adds one key, and one leaf if its leaf splits.
LEMMA ChainInsertIInv ==
  ASSUME ChainIInv, NEW k \in Nat, NEW w \in Nat, Chain!Insert(k, w)
  PROVE  ChainIInv'
<1> DEFINE e == [dst |-> k, weight |-> w]
           r == Route(ChainEntries, k)
<1>1. e \in Cell(Nat) /\ e.dst = k
  BY DEF Cell
<1>2. /\ WellFormedChain(Nat, ChainEntries) /\ IsFiniteSet(AllKeys(ChainEntries))
      /\ level = Len(ChainEntries) /\ size = Cardinality(AllKeys(ChainEntries))
      /\ k \notin AllKeys(ChainEntries)
      /\ ChainEntries' = InsertIntoLeaf(ChainEntries, r, e)
      /\ size' = size + 1
      /\ level' = IF Splits(ChainEntries[r]) THEN level + 1 ELSE level
  <2>1. /\ WellFormedChain(Nat, ChainEntries) /\ IsFiniteSet(AllKeys(ChainEntries))
        /\ level = Len(ChainEntries) /\ size = Cardinality(AllKeys(ChainEntries))
    BY DEF ChainIInv
  <2>2. /\ k \notin Chain!AllKeys(ChainEntries)
        /\ ChainEntries' = Chain!InsertIntoLeaf(ChainEntries, Chain!Route(ChainEntries, k), e)
        /\ size' = size + 1
        /\ level' = IF Chain!Splits(ChainEntries[Chain!Route(ChainEntries, k)])
                    THEN level + 1 ELSE level
    BY DEF Chain!Insert
  <2> HIDE DEF e
  <2>3. /\ Chain!AllKeys(ChainEntries) = AllKeys(ChainEntries)
        /\ Chain!Route(ChainEntries, k) = Route(ChainEntries, k)
        /\ Chain!InsertIntoLeaf(ChainEntries, r, e) = InsertIntoLeaf(ChainEntries, r, e)
        /\ Chain!Splits(ChainEntries[r]) = Splits(ChainEntries[r])
    BY OtherChainOperators
  <2> QED BY <2>1, <2>2, <2>3
<1> HIDE DEF e
<1>3. /\ WellFormedChain(Nat, ChainEntries')
      /\ Len(ChainEntries') = IF Splits(ChainEntries[r]) THEN Len(ChainEntries) + 1
                              ELSE Len(ChainEntries)
  BY <1>1, <1>2, InsertWithoutSplit, InsertWithSplit
<1>4. AllKeys(ChainEntries') = AllKeys(ChainEntries) \cup {k}
  BY <1>1, <1>2, InsertWithoutSplit, InsertWithSplit
<1>5. /\ IsFiniteSet(AllKeys(ChainEntries'))
      /\ Cardinality(AllKeys(ChainEntries')) = Cardinality(AllKeys(ChainEntries)) + 1
  BY <1>2, <1>4, FS_AddElement
<1> QED BY <1>2, <1>3, <1>5 DEF ChainIInv

\* An update changes no key.
LEMMA ChainUpdateIInv ==
  ASSUME ChainIInv, NEW k \in Nat, NEW w \in Nat, Chain!Update(k, w)
  PROVE  ChainIInv'
<1> DEFINE e == [dst |-> k, weight |-> w]
<1>1. /\ WellFormedChain(Nat, ChainEntries)
      /\ ChainEntries \in Seq(Seq(Cell(Nat)))
      /\ ChainEntries' = [n \in DOMAIN ChainEntries |->
                      [i \in DOMAIN ChainEntries[n] |->
                         IF ChainEntries[n][i].dst = k THEN e ELSE ChainEntries[n][i]]]
      /\ UNCHANGED <<size, level>>
  BY DEF ChainIInv, Chain!Update, WellFormedChain
<1>2. e \in Cell(Nat) /\ e.dst = k
  BY DEF Cell
<1> HIDE DEF e
<1>3. /\ Len(ChainEntries) \in Nat
      /\ DOMAIN ChainEntries = 1 .. Len(ChainEntries)
      /\ \A n \in 1 .. Len(ChainEntries) : ChainEntries[n] \in Seq(Cell(Nat))
  BY <1>1, ChainProperties
<1>4. \A n \in 1 .. Len(ChainEntries) :
         /\ Len(ChainEntries[n]) \in Nat
         /\ DOMAIN ChainEntries[n] = 1 .. Len(ChainEntries[n])
         /\ \A i \in 1 .. Len(ChainEntries[n]) : ChainEntries[n][i] \in Cell(Nat)
  BY <1>3, CellProperties
<1>5. ASSUME NEW n \in 1 .. Len(ChainEntries)
      PROVE  /\ ChainEntries'[n] \in Seq(Cell(Nat))
             /\ Len(ChainEntries'[n]) = Len(ChainEntries[n])
             /\ \A i \in 1 .. Len(ChainEntries[n]) :
                  ChainEntries'[n][i].dst = ChainEntries[n][i].dst
  <2>1. ChainEntries'[n] = [i \in 1 .. Len(ChainEntries[n]) |->
                        IF ChainEntries[n][i].dst = k THEN e ELSE ChainEntries[n][i]]
    BY <1>1, <1>3, <1>4
  <2> QED BY <1>2, <1>4, <2>1
<1>6. ChainEntries' \in Seq(Seq(Cell(Nat))) /\ Len(ChainEntries') = Len(ChainEntries)
  <2>1. ChainEntries' = [n \in 1 .. Len(ChainEntries) |-> ChainEntries'[n]]
    BY <1>1, <1>3
  <2> QED BY <1>3, <1>5, <2>1
<1>7. WellFormedChain(Nat, ChainEntries')
  BY <1>1, <1>5, <1>6, SameKeysSameShape, ZenonT(40)
<1>8. AllKeys(ChainEntries') = AllKeys(ChainEntries)
  <2> DEFINE after == ChainEntries'
  <2>1. /\ after \in Seq(Seq(Cell(Nat)))
        /\ Len(after) = Len(ChainEntries)
        /\ \A n \in 1 .. Len(ChainEntries) : Len(after[n]) = Len(ChainEntries[n])
        /\ \A n \in 1 .. Len(ChainEntries) : \A i \in 1 .. Len(ChainEntries[n]) :
              after[n][i].dst = ChainEntries[n][i].dst
    BY <1>5, <1>6
  <2> HIDE DEF after
  <2>2. AllKeys(after) = AllKeys(ChainEntries)
    BY <1>1, <2>1, SameKeys
  <2> QED BY <2>2 DEF after
<1> QED BY <1>1, <1>6, <1>7, <1>8 DEF ChainIInv

LEMMA ChainNextIInv == ChainIInv /\ [Chain!Next]_<<ChainEntries, size, level>> => ChainIInv'
<1>1. ASSUME ChainIInv, Chain!Next PROVE ChainIInv'
  <2>1. PICK c \in Puts : Chain!Insert(c[1], c[2]) \/ Chain!Update(c[1], c[2])
    BY <1>1 DEF Chain!Next, Puts
  <2>2. c[1] \in Nat /\ c[2] \in Nat
    <3>1. CASE c \in PutCalls
      BY <3>1, PutCallsAssumption
    <3>2. CASE c \notin PutCalls
      <4>1. PICK e \in UNION Promotions : c = <<e.dst, e.weight>>
        BY <3>2 DEF Puts
      <4>2. PICK items \in Promotions : e \in items
        OBVIOUS
      <4>3. e \in [dst : Nat, weight : Nat]
        BY <4>2, PromotionsAssumption
      <4> QED BY <4>1, <4>3
    <3> QED BY <3>1, <3>2
  <2>3. CASE Chain!Insert(c[1], c[2])
    BY <1>1, <2>2, <2>3, ChainInsertIInv
  <2>4. CASE Chain!Update(c[1], c[2])
    BY <1>1, <2>2, <2>4, ChainUpdateIInv
  <2> QED BY <2>1, <2>3, <2>4
<1>2. ASSUME ChainIInv, UNCHANGED <<ChainEntries, size, level>> PROVE ChainIInv'
  BY <1>2 DEF ChainIInv
<1> QED BY <1>1, <1>2

\* The chain keeps its shape, and the counts are right, whatever is inserted.
THEOREM ChainInvariant == Chain!Spec => []ChainIInv
BY ChainInitIInv, ChainNextIInv, PTL DEF Chain!Spec

\* The keys ascend along the leaves that the iterations walk, whatever splits
\* bplusInsertLeaf made, and no leaf holds BPlusTreeOrder keys.
THEOREM LeavesStayOrdered == Spec => []LeavesOrdered
<1>1. ChainIInv => LeavesOrdered
  <2> SUFFICES ASSUME ChainIInv PROVE LeavesOrdered
    OBVIOUS
  <2>1. WellFormedChain(Nat, ChainEntries)
    BY DEF ChainIInv
  <2>2. Chain!AscendingChain(ChainEntries) = AscendingChain(ChainEntries)
    BY OtherChainOperators
  <2> QED BY <2>1, <2>2, ChainProperties DEF WellFormedChain, LeavesOrdered, Chain!LeavesOrdered
<1> QED BY <1>1, ChainInvariant, TreeImplementsLeafChain, PTL DEF ImplementsLeafChain

\* findEdgeWeight and tryUpdateExisting look in one leaf and miss nothing.
THEOREM RouteMissesNoKey == Spec => []RouteFindsKeys
<1>1. ChainIInv => RouteFindsKeys
  <2> SUFFICES ASSUME ChainIInv, NEW k \in AllKeys(ChainEntries)
               PROVE  k \in Keys(ChainEntries[Route(ChainEntries, k)])
    <3>1. Chain!AllKeys(ChainEntries) = AllKeys(ChainEntries)
      BY OtherChainOperators
    <3>2. \A d : Chain!Route(ChainEntries, d) = Route(ChainEntries, d)
      BY OtherChainOperators
    <3>3. \A leaf : Chain!Keys(leaf) = Keys(leaf)
      BY OtherChainOperators
    <3> QED BY <3>1, <3>2, <3>3, Zenon DEF RouteFindsKeys, Chain!RouteFindsKeys
  <2>1. WellFormedChain(Nat, ChainEntries)
    BY DEF ChainIInv
  <2>2. PICK n \in 1 .. Len(ChainEntries) : k \in Keys(ChainEntries[n])
    BY <2>1, ChainProperties DEF AllKeys
  <2> QED BY <2>1, <2>2, RouteFindsKey
<1> QED BY <1>1, ChainInvariant, TreeImplementsLeafChain, PTL DEF ImplementsLeafChain

\* VertexEntry.size counts the neighbours and VertexEntry.level the ChainEntries.
THEOREM SizeAndLevelCount == Spec => []CountsMatch
<1>1. ChainIInv => CountsMatch
  <2>1. Chain!AllKeys(ChainEntries) = AllKeys(ChainEntries)
    BY OtherChainOperators
  <2>2. Chain!Cardinality(AllKeys(ChainEntries)) = Cardinality(AllKeys(ChainEntries))
    BY ChainCardinality
  <2> QED BY <2>1, <2>2 DEF ChainIInv, CountsMatch, Chain!CountsMatch
<1> QED BY <1>1, ChainInvariant, TreeImplementsLeafChain, PTL DEF ImplementsLeafChain

\* x is one level below n, within its bounds.
Nested(lo, hi, height, n, x) ==
  /\ height[x] + 1 = height[n]
  /\ lo[n] <= lo[x]
  /\ hi[n] # 0 => hi[x] # 0 /\ hi[x] <= hi[n]

\* The children of n divide its bounds.
Family(nodes, lo, hi, height, n) ==
  /\ nodes[n].children \in Seq(DOMAIN nodes)
  /\ \A x \in RangeOf(nodes[n].children) : Nested(lo, hi, height, n, x)
  /\ Tiled(nodes[n].children, lo, hi)
  /\ ~nodes[n].isLeaf => /\ nodes[n].children[1] \in RangeOf(nodes[n].children)
                         /\ hi[nodes[n].children[1]] # 0

\* What InnerOK says of one child, once no split is under way.
LEMMA ChildOfInner ==
  ASSUME NEW nodes, NEW lo, NEW hi, NEW height,
         BoundsOK(nodes, lo, hi, height), InnerOK(nodes, lo, hi, height, None, None),
         NEW n \in DOMAIN nodes, ~nodes[n].isLeaf,
         NEW i \in 1 .. Len(nodes[n].keys) + 1, NEW x, x = nodes[n].children[i]
  PROVE  /\ x \in DOMAIN nodes
         /\ height[x] + 1 = height[n]
         /\ lo[x] = IF i = 1 THEN lo[n] ELSE nodes[n].keys[i - 1]
         /\ hi[x] = IF i = Len(nodes[n].keys) + 1 THEN hi[n] ELSE nodes[n].keys[i]
<1>1. ChildOK(nodes, lo, hi, height, None, None, n, i)
  BY DEF InnerOK
<1>2. /\ x \in DOMAIN nodes
      /\ height[x] + 1 = height[n]
      /\ lo[x] = IF i = 1 THEN lo[n] ELSE nodes[n].keys[i - 1]
      /\ SeenHi(hi, None, None, x) = IF i = Len(nodes[n].keys) + 1 THEN hi[n]
                                     ELSE nodes[n].keys[i]
  BY <1>1 DEF ChildOK
<1>3. SeenHi(hi, None, None, x) = hi[x]
  BY DEF SeenHi
<1> QED BY <1>2, <1>3

\* The keys of an inner node.
LEMMA KeysOfInner ==
  ASSUME NEW nodes, NEW lo, NEW hi, NEW height,
         BoundsOK(nodes, lo, hi, height), InnerOK(nodes, lo, hi, height, None, None),
         NEW n \in DOMAIN nodes, ~nodes[n].isLeaf
  PROVE  /\ Len(nodes[n].keys) \in Nat /\ Len(nodes[n].keys) >= 1
         /\ \A i \in 1 .. Len(nodes[n].keys) :
              /\ nodes[n].keys[i] \in Nat
              /\ lo[n] < nodes[n].keys[i] /\ Below(nodes[n].keys[i], hi[n])
         /\ \A i, j \in 1 .. Len(nodes[n].keys) : i < j => nodes[n].keys[i] < nodes[n].keys[j]
         /\ nodes[n].children \in Seq(Nat)
         /\ Len(nodes[n].children) = Len(nodes[n].keys) + 1
         /\ lo[n] \in Nat /\ hi[n] \in Nat
<1>1. /\ nodes[n].keys \in Seq(Nat) /\ nodes[n].children \in Seq(Nat)
      /\ lo[n] \in Nat /\ hi[n] \in Nat
  BY NodeFields DEF BoundsOK
<1>2. /\ KeysOK(nodes[n].keys, lo[n], hi[n])
      /\ Len(nodes[n].children) = Len(nodes[n].keys) + 1
  BY DEF InnerOK
<1>3. /\ Len(nodes[n].keys) \in Nat
      /\ \A i \in 1 .. Len(nodes[n].keys) : nodes[n].keys[i] \in Nat
  BY <1>1, LenProperties, ElementOfSeq
<1> QED BY <1>1, <1>2, <1>3 DEF KeysOK

LEMMA ChildIsNested ==
  ASSUME NEW nodes, NEW lo, NEW hi, NEW height,
         BoundsOK(nodes, lo, hi, height), InnerOK(nodes, lo, hi, height, None, None),
         NEW n \in DOMAIN nodes, ~nodes[n].isLeaf,
         NEW i \in 1 .. Len(nodes[n].keys) + 1
  PROVE  /\ nodes[n].children[i] \in DOMAIN nodes
         /\ Nested(lo, hi, height, n, nodes[n].children[i])
         /\ i = 1 => hi[nodes[n].children[i]] # 0
<1>1. PICK x : x = nodes[n].children[i]
  OBVIOUS
<1>2. PICK keys, K : keys = nodes[n].keys /\ K = Len(nodes[n].keys)
  OBVIOUS
<1>3. /\ x \in DOMAIN nodes
      /\ height[x] + 1 = height[n]
      /\ lo[x] = IF i = 1 THEN lo[n] ELSE keys[i - 1]
      /\ hi[x] = IF i = K + 1 THEN hi[n] ELSE keys[i]
  BY <1>1, <1>2, ChildOfInner
<1>4. /\ K \in Nat /\ K >= 1 /\ i \in 1 .. K + 1
      /\ \A k \in 1 .. K : keys[k] \in Nat /\ lo[n] < keys[k] /\ Below(keys[k], hi[n])
      /\ lo[n] \in Nat /\ hi[n] \in Nat
  BY <1>2, KeysOfInner
<1>5. lo[n] <= lo[x]
  <2>1. CASE i = 1
    BY <1>3, <1>4, <2>1
  <2>2. CASE i # 1
    <3>1. i - 1 \in 1 .. K
      BY <1>4, <2>2
    <3> QED BY <1>3, <1>4, <2>2, <3>1
  <2> QED BY <2>1, <2>2
<1>6. /\ hi[n] # 0 => hi[x] # 0 /\ hi[x] <= hi[n]
      /\ i = 1 => hi[x] # 0
  <2>1. CASE i = K + 1
    BY <1>3, <1>4, <2>1
  <2>2. CASE i # K + 1
    <3>1. i \in 1 .. K
      BY <1>4, <2>2
    <3> QED BY <1>3, <1>4, <2>2, <3>1 DEF Below
  <2> QED BY <2>1, <2>2
<1> QED BY <1>1, <1>3, <1>5, <1>6 DEF Nested

LEMMA ChildrenApart ==
  ASSUME NEW nodes, NEW lo, NEW hi, NEW height,
         BoundsOK(nodes, lo, hi, height), InnerOK(nodes, lo, hi, height, None, None),
         NEW n \in DOMAIN nodes, ~nodes[n].isLeaf,
         NEW i \in 1 .. Len(nodes[n].keys) + 1, NEW j \in 1 .. Len(nodes[n].keys) + 1, i < j
  PROVE  Apart(lo, hi, nodes[n].children[i], nodes[n].children[j])
<1>1. PICK x, y : x = nodes[n].children[i] /\ y = nodes[n].children[j]
  OBVIOUS
<1>2. PICK keys, K : keys = nodes[n].keys /\ K = Len(nodes[n].keys)
  OBVIOUS
<1>3. hi[x] = IF i = K + 1 THEN hi[n] ELSE keys[i]
  BY <1>1, <1>2, ChildOfInner
<1>4. lo[y] = IF j = 1 THEN lo[n] ELSE keys[j - 1]
  BY <1>1, <1>2, ChildOfInner
<1>5. /\ K \in Nat /\ i \in 1 .. K + 1 /\ j \in 1 .. K + 1
      /\ \A k \in 1 .. K : keys[k] \in Nat /\ lo[n] < keys[k]
      /\ \A k, l \in 1 .. K : k < l => keys[k] < keys[l]
      /\ lo[n] \in Nat
  BY <1>2, KeysOfInner
<1>6. i \in 1 .. K /\ j - 1 \in 1 .. K /\ i # K + 1 /\ j # 1 /\ (i = j - 1 \/ i < j - 1)
  BY <1>5
<1>7. keys[i] \in Nat /\ keys[i] # 0
  BY <1>5, <1>6
<1>8. keys[i] <= keys[j - 1]
  BY <1>5, <1>6
<1> QED BY <1>1, <1>3, <1>4, <1>6, <1>7, <1>8 DEF Apart

LEMMA Families ==
  ASSUME NEW nodes, NEW lo, NEW hi, NEW height, NEW chain,
         BoundsOK(nodes, lo, hi, height), InnerOK(nodes, lo, hi, height, None, None),
         LeavesOK(nodes, chain), NEW n \in DOMAIN nodes
  PROVE  Family(nodes, lo, hi, height, n)
<1>1. PICK kids : kids = nodes[n].children
  OBVIOUS
<1>2. CASE nodes[n].isLeaf
  <2>1. kids = << >>
    BY <1>1, <1>2 DEF LeavesOK
  <2>2. /\ << >> \in Seq(DOMAIN nodes) /\ RangeOf(<< >>) = {}
        /\ Tiled(<< >>, lo, hi)
    BY EmptySeq DEF RangeOf, Tiled
  <2> QED BY <1>1, <1>2, <2>1, <2>2 DEF Family
<1>3. CASE ~nodes[n].isLeaf
  <2>1. /\ kids \in Seq(Nat) /\ Len(kids) = Len(nodes[n].keys) + 1
        /\ Len(nodes[n].keys) \in Nat
    BY <1>1, <1>3, KeysOfInner
  <2>2. DOMAIN kids = 1 .. Len(kids) /\ Len(kids) \in Nat /\ 1 \in 1 .. Len(kids)
    BY <2>1, LenProperties
  <2>3. \A i \in 1 .. Len(kids) :
           /\ kids[i] \in DOMAIN nodes
           /\ Nested(lo, hi, height, n, kids[i])
           /\ i = 1 => hi[kids[i]] # 0
    BY <1>1, <1>3, <2>1, ChildIsNested
  <2>4. \A i, j \in 1 .. Len(kids) : i < j => Apart(lo, hi, kids[i], kids[j])
    BY <1>1, <1>3, <2>1, ChildrenApart
  <2>5. kids \in Seq(DOMAIN nodes)
    <3>1. kids = [i \in 1 .. Len(kids) |-> kids[i]]
      BY <2>1, <2>2, LenProperties
    <3>2. kids \in [1 .. Len(kids) -> DOMAIN nodes]
      BY <2>3, <3>1, Zenon
    <3> QED BY <2>2, <3>2, FunctionIsSeq
  <2>6. \A x \in RangeOf(kids) : Nested(lo, hi, height, n, x)
    BY <2>2, <2>3 DEF RangeOf
  <2>7. kids[1] \in RangeOf(kids) /\ hi[kids[1]] # 0
    BY <2>2, <2>3 DEF RangeOf
  <2>8. Tiled(kids, lo, hi)
    BY <2>4 DEF Tiled
  <2> QED BY <1>1, <2>5, <2>6, <2>7, <2>8 DEF Family
<1> QED BY <1>2, <1>3

-----------------------------------------------------------------------------
(* One layer after the other.                                              *)

\* The nodes below those of s.
Under(nodes, s) == FlattenSeq([i \in DOMAIN s |-> nodes[s[i]].children])

\* The nodes in s have height h, and their bounds ascend.
LevelOK(nodes, lo, hi, height, s, h) ==
  /\ s \in Seq(DOMAIN nodes)
  /\ Len(s) >= 1
  /\ \A x \in RangeOf(s) : height[x] = h
  /\ Tiled(s, lo, hi)

LEMMA UnderNodes ==
  ASSUME NEW nodes, NEW D, D = DOMAIN nodes,
         \A n \in D : nodes[n].children \in Seq(D), NEW s \in Seq(D)
  PROVE  /\ Under(nodes, s) \in Seq(D)
         /\ \A x : x \in RangeOf(Under(nodes, s)) <=>
                     \E a \in 1 .. Len(s) : x \in RangeOf(nodes[s[a]].children)
         /\ \A lo, hi :
              /\ \A a \in 1 .. Len(s) : Tiled(nodes[s[a]].children, lo, hi)
              /\ \A a, b \in 1 .. Len(s) : a < b =>
                   \A x \in RangeOf(nodes[s[a]].children), y \in RangeOf(nodes[s[b]].children) :
                      Apart(lo, hi, x, y)
              => Tiled(Under(nodes, s), lo, hi)
<1>1. PICK ss : ss = [i \in DOMAIN s |-> nodes[s[i]].children]
  OBVIOUS
<1>2. /\ Len(s) \in Nat /\ DOMAIN s = 1 .. Len(s)
      /\ \A a \in 1 .. Len(s) : s[a] \in D
  BY LenProperties, ElementOfSeq
<1>3. \A a \in 1 .. Len(s) : ss[a] = nodes[s[a]].children /\ ss[a] \in Seq(D)
  BY <1>1, <1>2
<1>4. ss \in [1 .. Len(s) -> Seq(D)]
  BY <1>1, <1>2
<1>5. ss \in Seq(Seq(D)) /\ Len(ss) = Len(s)
  BY <1>2, <1>4, FunctionIsSeq
<1>6. Under(nodes, s) = FlattenSeq(ss)
  BY <1>1 DEF Under
<1>7. FlattenSeq(ss) \in Seq(D)
  BY <1>5, FlattenSeqProperties
<1>8. \A x : x \in RangeOf(FlattenSeq(ss)) <=> \E a \in 1 .. Len(ss) : x \in RangeOf(ss[a])
  BY <1>5, FlattenSeqProperties
<1>9. \A lo, hi : TiledBlocks(D, ss, lo, hi) => Tiled(FlattenSeq(ss), lo, hi)
  BY <1>5, FlattenSeqProperties
<1>10. ASSUME NEW lo, NEW hi,
              \A a \in 1 .. Len(s) : Tiled(nodes[s[a]].children, lo, hi),
              \A a, b \in 1 .. Len(s) : a < b =>
                   \A x \in RangeOf(nodes[s[a]].children), y \in RangeOf(nodes[s[b]].children) :
                      Apart(lo, hi, x, y)
       PROVE  Tiled(FlattenSeq(ss), lo, hi)
  <2>1. TiledBlocks(D, ss, lo, hi)
    BY <1>3, <1>5, <1>10 DEF TiledBlocks
  <2> QED BY <1>9, <2>1
<1>11. \A x : x \in RangeOf(FlattenSeq(ss)) <=>
                 \E a \in 1 .. Len(s) : x \in RangeOf(nodes[s[a]].children)
  BY <1>3, <1>5, <1>8
<1> QED BY <1>6, <1>7, <1>10, <1>11

LEMMA LevelBelow ==
  ASSUME NEW nodes, NEW lo, NEW hi, NEW height, NEW s, NEW h \in Nat, h # 0,
         BoundsOK(nodes, lo, hi, height),
         \A n \in DOMAIN nodes : Family(nodes, lo, hi, height, n),
         LevelOK(nodes, lo, hi, height, s, h)
  PROVE  /\ LevelOK(nodes, lo, hi, height, Under(nodes, s), h - 1)
         /\ \E x \in RangeOf(Under(nodes, s)) : hi[x] # 0
<1> DEFINE D == DOMAIN nodes
<1>1. /\ \A n \in D : nodes[n].children \in Seq(D)
      /\ \A n \in D : \A x \in RangeOf(nodes[n].children) :
            x \in D /\ Nested(lo, hi, height, n, x)
      /\ \A n \in D : Tiled(nodes[n].children, lo, hi)
      /\ \A n \in D : lo[n] \in Nat /\ hi[n] \in Nat /\ height[n] \in Nat
      /\ \A n \in D : nodes[n].isLeaf <=> height[n] = 0
  <2>1. /\ \A n \in D : nodes[n].children \in Seq(D)
        /\ \A n \in D : \A x \in RangeOf(nodes[n].children) : Nested(lo, hi, height, n, x)
        /\ \A n \in D : Tiled(nodes[n].children, lo, hi)
    BY DEF Family
  <2>2. ASSUME NEW n \in D, NEW x \in RangeOf(nodes[n].children) PROVE x \in D
    <3>1. nodes[n].children \in Seq(D)
      BY <2>1
    <3> QED BY <3>1, LenProperties, ElementOfSeq DEF RangeOf
  <2>3. /\ \A n \in D : lo[n] \in Nat /\ hi[n] \in Nat /\ height[n] \in Nat
        /\ \A n \in D : nodes[n].isLeaf <=> height[n] = 0
    BY DEF BoundsOK
  <2> QED BY <2>1, <2>2, <2>3
<1>2. /\ s \in Seq(D) /\ Len(s) \in Nat /\ Len(s) >= 1
      /\ \A a \in 1 .. Len(s) : s[a] \in D /\ height[s[a]] = h
      /\ \A a, b \in 1 .. Len(s) : a < b => Apart(lo, hi, s[a], s[b])
  <2>1. s \in Seq(D) /\ Len(s) >= 1 /\ \A x \in RangeOf(s) : height[x] = h
    BY DEF LevelOK
  <2>2. Len(s) \in Nat /\ DOMAIN s = 1 .. Len(s) /\ \A a \in 1 .. Len(s) : s[a] \in D
    BY <2>1, LenProperties, ElementOfSeq
  <2>3. \A a \in 1 .. Len(s) : s[a] \in RangeOf(s)
    BY <2>2 DEF RangeOf
  <2> QED BY <2>1, <2>2, <2>3 DEF LevelOK, Tiled
<1>3. PICK t : t = Under(nodes, s)
  OBVIOUS
<1>4. /\ t \in Seq(D)
      /\ \A x : x \in RangeOf(t) <=> \E a \in 1 .. Len(s) : x \in RangeOf(nodes[s[a]].children)
  BY <1>1, <1>2, <1>3, UnderNodes
<1>5. \A x \in RangeOf(t) : height[x] = h - 1
  <2> SUFFICES ASSUME NEW x \in RangeOf(t) PROVE height[x] = h - 1
    OBVIOUS
  <2>1. PICK a \in 1 .. Len(s) : x \in RangeOf(nodes[s[a]].children)
    BY <1>4
  <2>2. Nested(lo, hi, height, s[a], x) /\ x \in D /\ s[a] \in D /\ height[s[a]] = h
    BY <1>1, <1>2, <2>1
  <2>3. height[x] \in Nat /\ height[x] + 1 = h
    BY <1>1, <2>2 DEF Nested
  <2> QED BY <2>3
<1>6. /\ nodes[s[1]].children[1] \in RangeOf(t)
      /\ hi[nodes[s[1]].children[1]] # 0
  <2>1. 1 \in 1 .. Len(s)
    BY <1>2
  <2>2. s[1] \in D /\ ~nodes[s[1]].isLeaf
    BY <1>1, <1>2, <2>1
  <2>3. Family(nodes, lo, hi, height, s[1])
    BY <2>2
  <2>4. /\ nodes[s[1]].children[1] \in RangeOf(nodes[s[1]].children)
        /\ hi[nodes[s[1]].children[1]] # 0
    BY <2>2, <2>3 DEF Family
  <2> QED BY <1>4, <2>1, <2>4
<1>7. Len(t) >= 1
  <2>1. Len(t) \in Nat /\ DOMAIN t = 1 .. Len(t)
    BY <1>4, LenProperties
  <2>2. \E k : k \in 1 .. Len(t)
    BY <1>6, <2>1 DEF RangeOf
  <2> QED BY <2>1, <2>2
<1>8. Tiled(t, lo, hi)
  <2>1. \A a \in 1 .. Len(s) : Tiled(nodes[s[a]].children, lo, hi)
    BY <1>1, <1>2
  <2>2. ASSUME NEW a \in 1 .. Len(s), NEW b \in 1 .. Len(s), a < b,
               NEW x \in RangeOf(nodes[s[a]].children), NEW y \in RangeOf(nodes[s[b]].children)
        PROVE  Apart(lo, hi, x, y)
    <3>1. PICK m, n : m = s[a] /\ n = s[b]
      OBVIOUS
    <3>2. m \in D /\ n \in D /\ Apart(lo, hi, m, n)
      BY <1>2, <2>2, <3>1
    <3>3. x \in D /\ Nested(lo, hi, height, m, x)
      BY <1>1, <2>2, <3>1, <3>2
    <3>4. y \in D /\ Nested(lo, hi, height, n, y)
      BY <1>1, <2>2, <3>1, <3>2
    <3>5. /\ lo[n] \in Nat /\ lo[y] \in Nat /\ hi[m] \in Nat /\ hi[x] \in Nat
      BY <1>1, <3>2, <3>3, <3>4
    <3>6. hi[m] # 0 /\ hi[m] <= lo[n]
      BY <3>2 DEF Apart
    <3>7. hi[x] # 0 /\ hi[x] <= hi[m]
      BY <3>3, <3>6 DEF Nested
    <3>8. lo[n] <= lo[y]
      BY <3>4 DEF Nested
    <3> QED BY <3>5, <3>6, <3>7, <3>8 DEF Apart
  <2>3. \A lo2, hi2 :
              /\ \A a \in 1 .. Len(s) : Tiled(nodes[s[a]].children, lo2, hi2)
              /\ \A a, b \in 1 .. Len(s) : a < b =>
                   \A x \in RangeOf(nodes[s[a]].children), y \in RangeOf(nodes[s[b]].children) :
                      Apart(lo2, hi2, x, y)
              => Tiled(t, lo2, hi2)
    BY <1>1, <1>2, <1>3, UnderNodes
  <2>4. \A a, b \in 1 .. Len(s) : a < b =>
           \A x \in RangeOf(nodes[s[a]].children), y \in RangeOf(nodes[s[b]].children) :
              Apart(lo, hi, x, y)
    BY <2>2
  <2> QED BY <2>1, <2>3, <2>4
<1> QED BY <1>3, <1>4, <1>5, <1>6, <1>7, <1>8 DEF LevelOK

-----------------------------------------------------------------------------
(* The layers from the root to the leaves.                                 *)

\* g computes the layers as Layer does.
Layers(g, nodes, root) ==
  g = [d \in 0 .. Len(nodes) |->
         IF d = 0 THEN <<root>>
         ELSE FlattenSeq([i \in DOMAIN g[d - 1] |-> nodes[g[d - 1][i]].children])]

LayersOf(nodes, root) == CHOOSE g : Layers(g, nodes, root)

LEMMA LayerIsLayersOf == Layer = LayersOf(heap, queryPointer)
BY DEF Layer, LayersOf, Layers

\* g holds the layers of the tree under root.
IsLayers(g, nodes, root) ==
  /\ g[0] = <<root>>
  /\ \A d \in 1 .. Len(nodes) : g[d] = Under(nodes, g[d - 1])

LEMMA LayersOfTree ==
  ASSUME NEW nodes \in Seq(Node), NEW root \in DOMAIN nodes,
         \A n \in DOMAIN nodes : nodes[n].children \in Seq(DOMAIN nodes)
  PROVE  IsLayers(LayersOf(nodes, root), nodes, root)
<1> DEFINE N == Len(nodes)
           V == Seq(DOMAIN nodes)
           a == <<root>>
           step == [s \in V |-> Under(nodes, s)]
<1>1. N \in Nat /\ a \in V
  BY LenProperties
<1>2. \A s \in V : Under(nodes, s) \in V
  BY UnderNodes
<1>3. step \in [V -> V]
  BY <1>2
<1>4. PICK h \in [0 .. N -> V] : Iterates(h, N, a, step)
  <2> HIDE DEF V, a, step, N
  <2> QED BY <1>1, <1>3, RecursiveFunction
<1>5. \A k \in 0 .. N : h[k] = IF k = 0 THEN a ELSE step[h[k - 1]]
  <2> HIDE DEF V, a, step, N
  <2> QED BY <1>4, Zenon DEF Iterates
<1>6. ASSUME NEW k \in 0 .. N
      PROVE  h[k] = IF k = 0 THEN <<root>> ELSE Under(nodes, h[k - 1])
  <2>1. CASE k = 0
    BY <1>5, <2>1
  <2>2. CASE k # 0
    <3>1. k - 1 \in 0 .. N
      <4> HIDE DEF N
      <4> QED BY <1>1, <2>2
    <3>2. h[k - 1] \in V
      <4> HIDE DEF V, N
      <4> QED BY <1>4, <3>1
    <3>3. step[h[k - 1]] = Under(nodes, h[k - 1])
      <4> HIDE DEF V
      <4> QED BY <3>2
    <3>4. h[k] = step[h[k - 1]]
      <4> HIDE DEF V, N, step
      <4> QED BY <1>5, <2>2
    <3> QED BY <2>2, <3>3, <3>4
  <2> QED BY <2>1, <2>2
<1>7. Layers(h, nodes, root)
  <2>1. h = [k \in 0 .. N |-> h[k]]
    <3> HIDE DEF V
    <3> QED BY <1>4
  <2>2. h = [k \in 0 .. N |-> IF k = 0 THEN <<root>> ELSE Under(nodes, h[k - 1])]
    <3> HIDE DEF V, step, a
    <3> QED BY <1>6, <2>1, Zenon
  <2> QED BY <2>2 DEF Layers, Under
<1> DEFINE g == LayersOf(nodes, root)
<1>8. Layers(g, nodes, root)
  BY <1>7 DEF LayersOf
<1> HIDE DEF g
<1>9. \A k \in 0 .. N : g[k] = IF k = 0 THEN <<root>> ELSE Under(nodes, g[k - 1])
  <2>1. g = [k \in 0 .. N |-> IF k = 0 THEN <<root>> ELSE Under(nodes, g[k - 1])]
    BY <1>8 DEF Layers, Under
  <2> QED BY <2>1, Zenon
<1>10. g[0] = <<root>>
  <2>1. 0 \in 0 .. N
    BY <1>1
  <2> QED BY <1>9, <2>1
<1>11. \A k \in 1 .. N : g[k] = Under(nodes, g[k - 1])
  <2> TAKE k \in 1 .. N
  <2>1. k \in 0 .. N /\ k # 0
    BY <1>1
  <2> QED BY <1>9, <2>1
<1>12. IsLayers(g, nodes, root)
  BY <1>10, <1>11 DEF IsLayers
<1> QED BY <1>12 DEF g

HeightOf(height, root, H) == H = height[root]

\* The layers down to the height of the root are levels.
LEMMA LayersAreLevels ==
  ASSUME NEW nodes, NEW root, NEW lo, NEW hi, NEW height, NEW g, NEW H, HeightOf(height, root, H),
         BoundsOK(nodes, lo, hi, height), root \in DOMAIN nodes,
         \A n \in DOMAIN nodes : Family(nodes, lo, hi, height, n),
         IsLayers(g, nodes, root)
  PROVE  \A d \in 0 .. H :
            /\ LevelOK(nodes, lo, hi, height, g[d], H - d)
            /\ d # 0 => \E x \in RangeOf(g[d]) : hi[x] # 0
<1>1. H \in Nat /\ Len(nodes) \in Nat /\ H < Len(nodes) /\ height[root] = H
  BY LenProperties DEF BoundsOK, HeightOf
<1> DEFINE Good(d) == /\ LevelOK(nodes, lo, hi, height, g[d], H - d)
                      /\ d # 0 => \E x \in RangeOf(g[d]) : hi[x] # 0
           T == {d \in Nat : d <= H => Good(d)}
<1>2. 0 \in T
  <2>1. /\ <<root>> \in Seq(DOMAIN nodes) /\ Len(<<root>>) = 1
        /\ RangeOf(<<root>>) = {root}
    BY DEF RangeOf
  <2>2. Tiled(<<root>>, lo, hi)
    BY DEF Tiled
  <2>3. LevelOK(nodes, lo, hi, height, <<root>>, H)
    BY <1>1, <2>1, <2>2 DEF LevelOK
  <2>4. g[0] = <<root>> /\ H - 0 = H
    BY <1>1 DEF IsLayers
  <2>5. Good(0)
    BY <2>3, <2>4
  <2> QED BY <2>5
<1>3. ASSUME NEW d \in Nat, d \in T PROVE d + 1 \in T
  <2> SUFFICES ASSUME d + 1 <= H PROVE Good(d + 1)
    OBVIOUS
  <2>1. /\ d <= H /\ H - d \in Nat /\ H - d # 0 /\ (H - d) - 1 = H - (d + 1)
        /\ d + 1 \in 1 .. Len(nodes) /\ (d + 1) - 1 = d
    BY <1>1
  <2>2. LevelOK(nodes, lo, hi, height, g[d], H - d)
    BY <1>3, <2>1
  <2>3. g[d + 1] = Under(nodes, g[d])
    BY <2>1 DEF IsLayers
  <2>4. PICK s, h : s = g[d] /\ h = H - d
    OBVIOUS
  <2>5. /\ LevelOK(nodes, lo, hi, height, Under(nodes, s), h - 1)
        /\ \E x \in RangeOf(Under(nodes, s)) : hi[x] # 0
    BY <2>1, <2>2, <2>4, LevelBelow
  <2> QED BY <2>1, <2>3, <2>4, <2>5
<1>4. Nat \subseteq T
  <2> HIDE DEF T
  <2> QED BY <1>2, <1>3, SetInduction
<1> SUFFICES ASSUME NEW d \in 0 .. H PROVE Good(d)
  OBVIOUS
<1>5. d \in Nat /\ d <= H
  BY <1>1
<1>6. d \in T
  <2> HIDE DEF T
  <2> QED BY <1>4, <1>5
<1> QED BY <1>5, <1>6

\* Every node is in the layer that its height gives.
LEMMA LayersCover ==
  ASSUME NEW nodes, NEW root, NEW lo, NEW hi, NEW height, NEW g,
         NEW H, HeightOf(height, root, H),
         BoundsOK(nodes, lo, hi, height), ParentsOK(nodes, root, lo, hi, None, None),
         \A n \in DOMAIN nodes : Family(nodes, lo, hi, height, n),
         IsLayers(g, nodes, root),
         \A d \in 0 .. H : g[d] \in Seq(DOMAIN nodes)
  PROVE  \A n \in DOMAIN nodes : height[n] <= H /\ n \in RangeOf(g[H - height[n]])
<1> DEFINE D == DOMAIN nodes
           N == Len(nodes)
           Good(n) == height[n] <= H /\ n \in RangeOf(g[H - height[n]])
           T == {k \in Nat : \A n \in D : height[n] + k = N => Good(n)}
<1>1. /\ nodes \in Seq(Node) /\ N \in Nat /\ D = 1 .. N /\ root \in D /\ None \notin D
      /\ height[root] = H /\ H \in Nat /\ H < N
      /\ \A n \in D : height[n] \in Nat /\ height[n] < N
  BY LenProperties DEF BoundsOK, ParentsOK, None, HeightOf
<1>2. ASSUME NEW n \in D, n # root
      PROVE  \E p \in D : n \in RangeOf(nodes[p].children) /\ height[n] + 1 = height[p]
  <2>1. PICK p : p = nodes[n].parent
    OBVIOUS
  <2>2. /\ p \in D /\ ~nodes[p].isLeaf
        /\ \E i \in 1 .. Len(nodes[p].children) : nodes[p].children[i] = n
    BY <1>1, <1>2, <2>1 DEF ParentsOK
  <2>3. Family(nodes, lo, hi, height, p)
    BY <2>2
  <2>4. nodes[p].children \in Seq(D)
    BY <2>3 DEF Family
  <2>5. n \in RangeOf(nodes[p].children)
    BY <2>2, <2>4, LenProperties DEF RangeOf
  <2>6. Nested(lo, hi, height, p, n)
    BY <2>3, <2>5 DEF Family
  <2> QED BY <2>2, <2>5, <2>6 DEF Nested
<1>3. \A n \in D : nodes[n].children \in Seq(D)
  BY DEF Family
<1>4. g[0] = <<root>> /\ \A d \in 1 .. N : g[d] = Under(nodes, g[d - 1])
  BY DEF IsLayers
<1>5. H \in Nat /\ N \in Nat /\ H < N
  BY <1>1
<1>6. \A d \in 0 .. H : g[d] \in Seq(D)
  OBVIOUS
<1> HIDE DEF N
<1>7. Good(root)
  <2>1. H <= H /\ H - H = 0
    BY <1>5
  <2>2. root \in RangeOf(<<root>>)
    BY DEF RangeOf
  <2> QED BY <1>1, <1>4, <2>1, <2>2
<1>8. 0 \in T
  <2>1. \A n \in D : height[n] + 0 # N
    BY <1>1
  <2> QED BY <2>1
<1>9. ASSUME NEW k \in Nat, k \in T PROVE k + 1 \in T
  <2> SUFFICES ASSUME NEW n \in D, height[n] + (k + 1) = N PROVE Good(n)
    OBVIOUS
  <2>1. CASE n = root
    BY <1>7, <2>1
  <2>2. CASE n # root
    <3>1. PICK p \in D : n \in RangeOf(nodes[p].children) /\ height[n] + 1 = height[p]
      BY <1>2, <2>2
    <3>2. PICK hn \in Nat : hn = height[n]
      BY <1>1
    <3>3. PICK hp \in Nat : hp = height[p]
      BY <1>1
    <3>4. hn + 1 = hp
      BY <3>1, <3>2, <3>3
    <3>5. hn + (k + 1) = N
      BY <3>2
    <3>6. hp + k = N
      BY <1>5, <3>4, <3>5
    <3>7. height[p] + k = N
      BY <3>3, <3>6
    <3>8. Good(p)
      BY <1>9, <3>7
    <3>9. hp <= H
      BY <3>3, <3>8
    <3>10. PICK d : d = H - hp
      OBVIOUS
    <3>11. /\ hn <= H /\ d \in 0 .. H /\ d + 1 = H - hn
           /\ d + 1 \in 1 .. N /\ (d + 1) - 1 = d
      BY <1>5, <3>4, <3>9, <3>10
    <3>12. p \in RangeOf(g[d])
      BY <3>3, <3>8, <3>10
    <3>13. g[d] \in Seq(D)
      BY <1>6, <3>11
    <3>14. PICK s : s = g[d]
      OBVIOUS
    <3>15. PICK a \in 1 .. Len(s) : s[a] = p
      BY <3>12, <3>13, <3>14, LenProperties DEF RangeOf
    <3>16. n \in RangeOf(Under(nodes, s))
      <4>1. \A x : x \in RangeOf(Under(nodes, s)) <=>
                     \E b \in 1 .. Len(s) : x \in RangeOf(nodes[s[b]].children)
        BY <1>3, <3>13, <3>14, UnderNodes
      <4> QED BY <3>1, <3>15, <4>1
    <3>17. g[d + 1] = Under(nodes, s)
      <4>1. g[d + 1] = Under(nodes, g[(d + 1) - 1])
        BY <1>4, <3>11
      <4> QED BY <3>11, <3>14, <4>1
    <3>18. n \in RangeOf(g[H - hn])
      BY <3>11, <3>16, <3>17
    <3> QED BY <3>2, <3>11, <3>18
  <2> QED BY <2>1, <2>2
<1>10. Nat \subseteq T
  <2> HIDE DEF T
  <2> QED BY <1>8, <1>9, SetInduction
<1> SUFFICES ASSUME NEW n \in D PROVE Good(n)
  OBVIOUS
<1>11. PICK hn \in Nat : hn = height[n]
  BY <1>1
<1>12. N - hn \in Nat /\ hn + (N - hn) = N
  <2>1. hn < N
    BY <1>1, <1>11
  <2> QED BY <1>5, <1>11, <2>1
<1>13. N - hn \in T
  <2> HIDE DEF T
  <2> QED BY <1>10, <1>12
<1> QED BY <1>11, <1>12, <1>13

-----------------------------------------------------------------------------
(* The last layer is the chain of the leaves.                              *)

\* The lower bounds of the nodes in s ascend.
Rising(s, lo) == \A i, j \in 1 .. Len(s) : i < j => lo[s[i]] < lo[s[j]]

\* s and t agree on their first k elements.
Agree(s, t, k) ==
  \A j \in 1 .. k : /\ j <= Len(s) <=> j <= Len(t)
                    /\ j <= Len(s) => s[j] = t[j]

LEMMA NextAscending ==
  ASSUME NEW D, NEW s \in Seq(D), NEW t \in Seq(D), NEW lo \in [D -> Nat],
         Rising(s, lo), Rising(t, lo), RangeOf(s) = RangeOf(t),
         NEW k \in Nat, Agree(s, t, k), k + 1 <= Len(s)
  PROVE  /\ k + 1 <= Len(t)
         /\ t[k + 1] = s[k + 1] \/ lo[t[k + 1]] < lo[s[k + 1]]
<1>1. /\ Len(s) \in Nat /\ DOMAIN s = 1 .. Len(s)
      /\ Len(t) \in Nat /\ DOMAIN t = 1 .. Len(t)
  BY LenProperties
<1>2. k + 1 \in 1 .. Len(s)
  BY <1>1
<1>3. PICK m \in 1 .. Len(t) : t[m] = s[k + 1]
  BY <1>1, <1>2 DEF RangeOf
<1>4. lo[s[k + 1]] \in Nat
  BY <1>2, ElementOfSeq
<1>5. m > k
  <2> SUFFICES ASSUME m <= k PROVE FALSE
    BY <1>1
  <2>1. m \in 1 .. k /\ m \in 1 .. Len(s) /\ m < k + 1
    BY <1>1, <1>2
  <2>2. s[m] = t[m]
    BY <1>1, <2>1 DEF Agree
  <2>3. lo[s[m]] < lo[s[k + 1]]
    BY <1>2, <2>1 DEF Rising
  <2> QED BY <1>3, <1>4, <2>2, <2>3
<1>6. k + 1 \in 1 .. Len(t) /\ (m = k + 1 \/ k + 1 < m)
  BY <1>1, <1>5
<1>7. k + 1 < m => lo[t[k + 1]] < lo[t[m]]
  BY <1>6 DEF Rising
<1> QED BY <1>1, <1>3, <1>6, <1>7

LEMMA SameAscending ==
  ASSUME NEW D, NEW s \in Seq(D), NEW t \in Seq(D), NEW lo \in [D -> Nat],
         Rising(s, lo), Rising(t, lo), RangeOf(s) = RangeOf(t)
  PROVE  s = t
<1> DEFINE T == {k \in Nat : Agree(s, t, k)}
<1>1. Len(s) \in Nat /\ Len(t) \in Nat
  BY LenProperties
<1>2. 0 \in T
  BY DEF Agree
<1>3. ASSUME NEW k \in Nat, k \in T PROVE k + 1 \in T
  <2>1. Agree(s, t, k) /\ Agree(t, s, k)
    BY <1>3 DEF Agree
  <2>2. k + 1 <= Len(s) => /\ k + 1 <= Len(t)
                           /\ t[k + 1] = s[k + 1] \/ lo[t[k + 1]] < lo[s[k + 1]]
    <3> HIDE DEF T
    <3> QED BY <2>1, NextAscending
  <2>3. k + 1 <= Len(t) => /\ k + 1 <= Len(s)
                           /\ s[k + 1] = t[k + 1] \/ lo[s[k + 1]] < lo[t[k + 1]]
    <3> HIDE DEF T
    <3> QED BY <2>1, NextAscending
  <2>4. k + 1 <= Len(s) /\ k + 1 <= Len(t) =>
           lo[s[k + 1]] \in Nat /\ lo[t[k + 1]] \in Nat
    <3> SUFFICES ASSUME k + 1 <= Len(s), k + 1 <= Len(t)
                 PROVE  lo[s[k + 1]] \in Nat /\ lo[t[k + 1]] \in Nat
      OBVIOUS
    <3>1. k + 1 \in 1 .. Len(s) /\ k + 1 \in 1 .. Len(t)
      BY <1>1
    <3> QED BY <3>1, ElementOfSeq
  <2>5. /\ k + 1 <= Len(s) <=> k + 1 <= Len(t)
        /\ k + 1 <= Len(s) => s[k + 1] = t[k + 1]
    <3>1. k + 1 <= Len(s) <=> k + 1 <= Len(t)
      BY <2>2, <2>3
    <3>2. ASSUME k + 1 <= Len(s) PROVE s[k + 1] = t[k + 1]
      <4>1. PICK a \in Nat : a = lo[s[k + 1]]
        BY <2>4, <3>1, <3>2
      <4>2. PICK b \in Nat : b = lo[t[k + 1]]
        BY <2>4, <3>1, <3>2
      <4>3. s[k + 1] = t[k + 1] \/ (a < b /\ b < a)
        BY <2>2, <2>3, <3>1, <3>2, <4>1, <4>2
      <4>4. ~(a < b /\ b < a)
        OBVIOUS
      <4> QED BY <4>3, <4>4
    <3> QED BY <3>1, <3>2
  <2>6. \A j \in 1 .. k + 1 : j \in 1 .. k \/ j = k + 1
    OBVIOUS
  <2>7. Agree(s, t, k + 1)
    BY <2>1, <2>5, <2>6 DEF Agree
  <2> QED BY <2>7
<1>4. Nat \subseteq T
  <2> HIDE DEF T
  <2> QED BY <1>2, <1>3, SetInduction
<1>5. \A k \in Nat : Agree(s, t, k)
  <2>1. ASSUME NEW k \in Nat PROVE k \in T
    <3> HIDE DEF T
    <3> QED BY <1>4
  <2> QED BY <2>1
<1>6. ~(Len(s) < Len(t))
  <2> SUFFICES ASSUME Len(s) < Len(t) PROVE FALSE
    OBVIOUS
  <2>1. Len(t) \in 1 .. Len(t) /\ Agree(s, t, Len(t))
    BY <1>1, <1>5
  <2>2. Len(t) <= Len(s)
    BY <1>1, <2>1 DEF Agree
  <2> QED BY <1>1, <2>2
<1>7. ~(Len(t) < Len(s))
  <2> SUFFICES ASSUME Len(t) < Len(s) PROVE FALSE
    OBVIOUS
  <2>1. Len(s) \in 1 .. Len(s) /\ Agree(s, t, Len(s))
    BY <1>1, <1>5
  <2>2. Len(s) <= Len(t)
    BY <1>1, <2>1 DEF Agree
  <2> QED BY <1>1, <2>2
<1>8. Len(s) = Len(t)
  BY <1>1, <1>6, <1>7
<1>9. \A i \in 1 .. Len(s) : s[i] = t[i]
  <2>1. Agree(s, t, Len(s))
    BY <1>1, <1>5
  <2> QED BY <1>1, <2>1 DEF Agree
<1> QED BY <1>8, <1>9, SeqEqual

\* The lower bounds of the leaves ascend along the chain.
LEMMA ChainRises ==
  ASSUME NEW nodes, NEW first, NEW lo, NEW hi, NEW height, NEW chain,
         BoundsOK(nodes, lo, hi, height), LinksOK(nodes, first, lo, hi, chain),
         WellFormedChain(Nat, EntriesOf(nodes, chain))
  PROVE  Rising(chain, lo)
<1> SUFFICES ASSUME NEW p \in 1 .. Len(chain), NEW q \in 1 .. Len(chain), p < q
             PROVE  lo[chain[p]] < lo[chain[q]]
  BY DEF Rising
<1>1. Len(chain) \in Nat /\ q # 1
  BY LenProperties DEF LinksOK
<1>2. PICK list : list = EntriesOf(nodes, chain)
  OBVIOUS
<1>3. /\ Len(list) = Len(chain)
      /\ list[p] = nodes[chain[p]].entries /\ list[q] = nodes[chain[q]].entries
  BY <1>1, <1>2 DEF EntriesOf
<1>4. /\ list[p][1].dst \in Nat /\ list[q][1].dst \in Nat
      /\ list[p][1].dst < list[q][1].dst
  BY <1>2, <1>3, FirstKeysAscend
<1>5. lo[chain[q]] = list[q][1].dst
  BY <1>1, <1>3 DEF LinksOK, LeafOK
<1>6. lo[chain[p]] = IF p = 1 THEN 0 ELSE list[p][1].dst
  BY <1>3 DEF LinksOK, LeafOK
<1> QED BY <1>4, <1>5, <1>6

\* g holds the layers 0 to H of a tree: the leaves, in the order of the chain,
\* are all in the last.
Layered(nodes, chain, g, H) ==
  /\ H \in 0 .. Len(nodes)
  /\ \A d \in 0 .. H : g[d] \in Seq(DOMAIN nodes) /\ Len(g[d]) >= 1
  /\ \A d \in 0 .. H : \A i \in 1 .. Len(g[d]) : nodes[g[d][i]].isLeaf <=> d = H
  /\ g[H] = chain
  /\ \A n \in DOMAIN nodes : \E d \in 0 .. H : n \in RangeOf(g[d])
  /\ H # 0 => Len(chain) > 1

LEMMA WholeTreeLayered ==
  ASSUME NEW nodes, NEW root, NEW first, NEW key, NEW lo, NEW hi, NEW height, NEW chain,
         Shape(nodes, root, first, key, None, None, lo, hi, height, chain)
  PROVE  \E H : Layered(nodes, chain, LayersOf(nodes, root), H)
<1> DEFINE D == DOMAIN nodes
<1>1. /\ BoundsOK(nodes, lo, hi, height) /\ LinksOK(nodes, first, lo, hi, chain)
      /\ WellFormedChain(Nat, EntriesOf(nodes, chain)) /\ LeavesOK(nodes, chain)
      /\ InnerOK(nodes, lo, hi, height, None, None)
      /\ ParentsOK(nodes, root, lo, hi, None, None)
  BY DEF Shape
<1>2. \A n \in D : Family(nodes, lo, hi, height, n)
  BY <1>1, Families
<1>3. /\ nodes \in Seq(Node) /\ root \in D
      /\ lo \in [D -> Nat] /\ hi \in [D -> Nat] /\ height \in [D -> Nat]
      /\ \A n \in D : nodes[n].isLeaf <=> height[n] = 0
      /\ \A n \in D : Below(lo[n], hi[n])
      /\ Len(nodes) \in Nat /\ height[root] < Len(nodes)
  BY <1>1, LenProperties DEF BoundsOK, ParentsOK
<1>4. PICK g : g = LayersOf(nodes, root)
  OBVIOUS
<1>5. IsLayers(g, nodes, root)
  <2>1. \A n \in D : nodes[n].children \in Seq(D)
    BY <1>2 DEF Family
  <2> QED BY <1>3, <1>4, <2>1, LayersOfTree
<1>6. PICK H : HeightOf(height, root, H)
  BY DEF HeightOf
<1>7. H \in Nat /\ H < Len(nodes)
  BY <1>3, <1>6 DEF HeightOf
<1>8. \A d \in 0 .. H :
         /\ LevelOK(nodes, lo, hi, height, g[d], H - d)
         /\ d # 0 => \E x \in RangeOf(g[d]) : hi[x] # 0
  <2>1. root \in DOMAIN nodes
    BY <1>3
  <2>2. \A n \in DOMAIN nodes : Family(nodes, lo, hi, height, n)
    BY <1>2
  <2>3. BoundsOK(nodes, lo, hi, height)
    BY <1>1
  <2> HIDE DEF D
  <2> QED BY <1>5, <1>6, <2>1, <2>2, <2>3, LayersAreLevels
<1>9. \A d \in 0 .. H : /\ g[d] \in Seq(D) /\ Len(g[d]) >= 1
                        /\ \A x \in RangeOf(g[d]) : height[x] = H - d
  BY <1>8 DEF LevelOK
<1>10. \A n \in D : height[n] <= H /\ n \in RangeOf(g[H - height[n]])
  BY <1>1, <1>2, <1>5, <1>6, <1>9, LayersCover
<1>11. ASSUME NEW d \in 0 .. H, NEW i \in 1 .. Len(g[d])
       PROVE  nodes[g[d][i]].isLeaf <=> d = H
  <2>1. PICK x : x = g[d][i]
    OBVIOUS
  <2>2. g[d] \in Seq(D)
    BY <1>9
  <2>3. x \in D /\ x \in RangeOf(g[d])
    BY <2>1, <2>2, LenProperties, ElementOfSeq DEF RangeOf
  <2>4. height[x] = H - d
    BY <1>9, <2>3
  <2>5. H - d = 0 <=> d = H
    BY <1>7
  <2> QED BY <1>3, <2>1, <2>3, <2>4, <2>5
<1>12. ASSUME NEW n \in D PROVE \E d \in 0 .. H : n \in RangeOf(g[d])
  <2>1. PICK h \in Nat : h = height[n]
    BY <1>3
  <2>2. h <= H
    BY <1>10, <2>1
  <2>3. H - h \in 0 .. H
    BY <1>7, <2>2
  <2>4. n \in RangeOf(g[H - h])
    BY <1>10, <2>1
  <2> QED BY <2>3, <2>4
<1>13. PICK last : last = g[H]
  OBVIOUS
<1>14. /\ last \in Seq(D) /\ Len(last) >= 1 /\ Tiled(last, lo, hi)
       /\ \A x \in RangeOf(last) : height[x] = 0
       /\ H # 0 => \E x \in RangeOf(last) : hi[x] # 0
  <2>1. H \in 0 .. H /\ H - H = 0
    BY <1>7
  <2>2. LevelOK(nodes, lo, hi, height, last, 0)
    BY <1>8, <1>13, <2>1
  <2>3. H # 0 => \E x \in RangeOf(last) : hi[x] # 0
    BY <1>8, <1>13, <2>1
  <2> QED BY <2>2, <2>3 DEF LevelOK
<1>15. /\ chain \in Seq(D) /\ Len(chain) \in Nat /\ DOMAIN chain = 1 .. Len(chain)
       /\ \A p \in 1 .. Len(chain) : chain[p] \in D /\ nodes[chain[p]].isLeaf
  <2>1. chain \in Seq(D) /\ \A p \in 1 .. Len(chain) : nodes[chain[p]].isLeaf
    BY <1>1 DEF LinksOK, LeafOK
  <2> QED BY <2>1, LenProperties, ElementOfSeq
<1>16. RangeOf(last) = RangeOf(chain)
  <2>1. ASSUME NEW x \in RangeOf(last) PROVE x \in RangeOf(chain)
    <3>1. x \in D /\ nodes[x].isLeaf
      BY <1>3, <1>14, LenProperties, ElementOfSeq DEF RangeOf
    <3>2. PICK p \in 1 .. Len(chain) : chain[p] = x
      BY <1>1, <3>1 DEF LeavesOK
    <3> QED BY <1>15, <3>2 DEF RangeOf
  <2>2. ASSUME NEW x \in RangeOf(chain) PROVE x \in RangeOf(last)
    <3>1. x \in D /\ nodes[x].isLeaf
      BY <1>15 DEF RangeOf
    <3>2. height[x] = 0
      BY <1>3, <3>1
    <3>3. H - 0 = H
      BY <1>7
    <3> QED BY <1>10, <1>13, <3>1, <3>2, <3>3
  <2> QED BY <2>1, <2>2
<1>17. Rising(last, lo)
  <2> SUFFICES ASSUME NEW i \in 1 .. Len(last), NEW j \in 1 .. Len(last), i < j
               PROVE  lo[last[i]] < lo[last[j]]
    BY DEF Rising
  <2>1. PICK x, y : x = last[i] /\ y = last[j]
    OBVIOUS
  <2>2. x \in D /\ y \in D
    BY <1>14, <2>1, ElementOfSeq
  <2>3. Apart(lo, hi, x, y)
    BY <1>14, <2>1 DEF Tiled
  <2>4. Below(lo[x], hi[x]) /\ lo[x] \in Nat /\ lo[y] \in Nat /\ hi[x] \in Nat
    BY <1>3, <2>2
  <2> QED BY <2>1, <2>3, <2>4 DEF Apart, Below
<1>18. Rising(chain, lo)
  BY <1>1, ChainRises
<1>19. last = chain
  BY <1>3, <1>14, <1>15, <1>16, <1>17, <1>18, SameAscending
<1>20. ASSUME H # 0 PROVE Len(chain) > 1
  <2>1. PICK x \in RangeOf(chain) : hi[x] # 0
    BY <1>14, <1>19, <1>20
  <2>2. PICK p \in 1 .. Len(chain) : chain[p] = x
    BY <1>15 DEF RangeOf
  <2>3. LeafOK(nodes, lo, hi, chain, p)
    BY <1>1 DEF LinksOK
  <2>4. p # Len(chain)
    BY <2>1, <2>2, <2>3 DEF LeafOK
  <2>5. Len(chain) \in Nat
    BY <1>15
  <2> QED BY <2>4, <2>5
<1>21. H \in 0 .. Len(nodes)
  BY <1>3, <1>7
<1>22. Layered(nodes, chain, g, H)
  BY <1>9, <1>11, <1>12, <1>13, <1>19, <1>20, <1>21 DEF Layered
<1> QED BY <1>4, <1>22

\* Between calls Layer is the layers of the tree, and Depth the last of them.
LEMMA ReadLayers ==
  ASSUME ControlOK, pc = "idle",
         NEW lo, NEW hi, NEW height, NEW chain, Indexed(lo, hi, height, chain)
  PROVE  Layered(heap, chain, Layer, Depth)
<1>1. Shape(heap, queryPointer, traversalPointer, split.promotedKey, None, None,
            lo, hi, height, chain)
  BY Whole
<1>2. PICK H : Layered(heap, chain, LayersOf(heap, queryPointer), H)
  BY <1>1, WholeTreeLayered
<1>3. PICK g : g = Layer
  OBVIOUS
<1>4. Layered(heap, chain, g, H)
  BY <1>2, <1>3, LayerIsLayersOf
<1>5. /\ H \in Nat /\ H \in 0 .. Len(heap)
      /\ \A e \in 0 .. H : heap[g[e][1]].isLeaf <=> e = H
  <2>1. H \in 0 .. Len(heap)
    BY <1>4 DEF Layered
  <2>2. ASSUME NEW e \in 0 .. H PROVE heap[g[e][1]].isLeaf <=> e = H
    <3>1. g[e] \in Seq(DOMAIN heap) /\ Len(g[e]) >= 1
      BY <1>4 DEF Layered
    <3>2. 1 \in 1 .. Len(g[e])
      BY <3>1, LenProperties
    <3> QED BY <1>4, <3>2 DEF Layered
  <2> QED BY <2>1, <2>2
<1> DEFINE LastLayer(d) == heap[g[d][1]].isLeaf /\ \A e \in 0 .. d - 1 : ~heap[g[e][1]].isLeaf
<1>6. LastLayer(H)
  BY <1>5
<1>7. PICK d : d = Depth
  OBVIOUS
<1>8. d \in 0 .. Len(heap) /\ LastLayer(d)
  <2>1. d = CHOOSE c \in 0 .. Len(heap) : LastLayer(c)
    BY <1>3, <1>7 DEF Depth
  <2> HIDE DEF LastLayer
  <2> QED BY <1>5, <1>6, <2>1
<1>9. ~(d < H)
  BY <1>5, <1>8
<1>10. ~(H < d)
  BY <1>5, <1>8
<1>11. d = H
  BY <1>5, <1>8, <1>9, <1>10
<1> QED BY <1>3, <1>4, <1>7, <1>11

\* No node is too full, in the middle of a split either.
LEMMA RoomForOne ==
  ASSUME IInv, NEW n \in DOMAIN heap
  PROVE  /\ Len(heap[n].entries) < BPlusTreeOrder
         /\ Len(heap[n].keys) < BPlusTreeOrder
         /\ Len(heap[n].children) <= BPlusTreeOrder
         /\ Len(heap[n].keys) \in Nat
         /\ ~heap[n].isLeaf => /\ Len(heap[n].keys) >= 1
                               /\ Len(heap[n].children) = Len(heap[n].keys) + 1
<1>1. PICK lo, hi, height, chain : Indexed(lo, hi, height, chain)
  BY DEF IInv
<1>2. /\ BoundsOK(heap, lo, hi, height) /\ LeavesOK(heap, chain)
      /\ WellFormedChain(Nat, EntriesOf(heap, chain))
      /\ LinksOK(heap, traversalPointer, lo, hi, chain)
      /\ InnerOK(heap, lo, hi, height, Left, split.rightSibling)
  BY <1>1 DEF Indexed, Shape
<1>3. /\ Len(heap[n].keys) \in Nat /\ Len(heap[n].keys) < BPlusTreeOrder
      /\ BPlusTreeOrder \in Nat /\ BPlusTreeOrder >= 3
  <2>1. heap[n].keys \in Seq(Nat)
    BY <1>2, NodeFields DEF BoundsOK
  <2> QED BY <2>1, LenProperties, BPlusTreeOrderAssumption DEF IInv, KeysFit
<1>4. CASE heap[n].isLeaf
  <2>1. PICK p \in 1 .. Len(chain) : chain[p] = n
    BY <1>2, <1>4 DEF LeavesOK
  <2>2. PICK list : list = EntriesOf(heap, chain)
    OBVIOUS
  <2>3. Len(list) = Len(chain) /\ list[p] = heap[n].entries
    <3>1. Len(chain) \in Nat
      BY <1>2, LenProperties DEF LinksOK
    <3> QED BY <2>1, <2>2, <3>1 DEF EntriesOf
  <2>4. Len(list[p]) < BPlusTreeOrder
    BY <1>2, <2>2, <2>3 DEF WellFormedChain
  <2>5. heap[n].children = << >>
    BY <1>2, <1>4 DEF LeavesOK
  <2>6. Len(heap[n].children) = 0
    BY <2>5
  <2> QED BY <1>3, <1>4, <2>3, <2>4, <2>6
<1>5. CASE ~heap[n].isLeaf
  <2>1. /\ heap[n].entries = << >> /\ Len(heap[n].keys) >= 1
        /\ Len(heap[n].children) = Len(heap[n].keys) + 1
    BY <1>2, <1>5 DEF InnerOK, KeysOK
  <2>2. Len(heap[n].entries) = 0
    BY <2>1
  <2> QED BY <1>3, <2>1, <2>2
<1> QED BY <1>4, <1>5

\* Every node has room for the key and the child that are written before it is
\* split; between calls the leaves are all at one depth, the inner nodes have
\* one child more than keys, and no leaf but a single one is empty.
THEOREM TreeStaysBalanced == Spec => []Balanced
<1>1. IInv => Balanced
  <2> SUFFICES ASSUME IInv PROVE Balanced
    OBVIOUS
  <2>1. \A n \in DOMAIN heap :
           /\ Len(heap[n].entries) < BPlusTreeOrder
           /\ Len(heap[n].keys) < BPlusTreeOrder
           /\ Len(heap[n].children) <= BPlusTreeOrder
    BY RoomForOne
  <2>2. PICK L, H : L = Layer /\ H = Depth
    OBVIOUS
  <2>3. ASSUME pc = "idle"
        PROVE  /\ \A i \in DOMAIN L[H] : heap[L[H][i]].isLeaf
               /\ \A e \in 0 .. H - 1 : \A i \in DOMAIN L[e] :
                    /\ ~heap[L[e][i]].isLeaf
                    /\ heap[L[e][i]].keys # << >>
                    /\ Len(heap[L[e][i]].children) = Len(heap[L[e][i]].keys) + 1
               /\ \A i \in DOMAIN L[H] : H > 0 => heap[L[H][i]].entries # << >>
    <3>1. PICK lo, hi, height, chain : Indexed(lo, hi, height, chain)
      BY DEF IInv
    <3>2. Layered(heap, chain, L, H)
      BY <2>2, <2>3, <3>1, ReadLayers DEF IInv
    <3>3. H \in Nat
      BY <3>2 DEF Layered
    <3>4. ASSUME NEW e \in 0 .. H, NEW i \in DOMAIN L[e]
          PROVE  L[e][i] \in DOMAIN heap /\ i \in 1 .. Len(L[e])
                 /\ (heap[L[e][i]].isLeaf <=> e = H)
      <4>1. L[e] \in Seq(DOMAIN heap)
        BY <3>2 DEF Layered
      <4>2. i \in 1 .. Len(L[e]) /\ L[e][i] \in DOMAIN heap
        BY <4>1, LenProperties, ElementOfSeq
      <4> QED BY <3>2, <4>2 DEF Layered
    <3>5. H \in 0 .. H
      BY <3>3
    <3>6. \A i \in DOMAIN L[H] : heap[L[H][i]].isLeaf
      BY <3>4, <3>5
    <3>7. ASSUME NEW e \in 0 .. H - 1, NEW i \in DOMAIN L[e]
          PROVE  /\ ~heap[L[e][i]].isLeaf
                 /\ heap[L[e][i]].keys # << >>
                 /\ Len(heap[L[e][i]].children) = Len(heap[L[e][i]].keys) + 1
      <4>1. e \in 0 .. H /\ e # H
        BY <3>3
      <4>2. PICK n : n = L[e][i]
        OBVIOUS
      <4>3. n \in DOMAIN heap /\ ~heap[n].isLeaf
        BY <3>4, <4>1, <4>2
      <4>4. Len(heap[n].keys) >= 1 /\ Len(heap[n].children) = Len(heap[n].keys) + 1
        BY <4>3, RoomForOne
      <4>5. heap[n].keys # << >>
        BY <4>4
      <4> QED BY <4>2, <4>3, <4>4, <4>5
    <3>8. ASSUME NEW i \in DOMAIN L[H], H > 0 PROVE heap[L[H][i]].entries # << >>
      <4>1. L[H] = chain /\ Len(chain) > 1
        BY <3>2, <3>3, <3>8 DEF Layered
      <4>2. i \in 1 .. Len(chain)
        BY <3>4, <3>5, <4>1
      <4>3. PICK list : list = EntriesOf(heap, chain)
        OBVIOUS
      <4>4. WellFormedChain(Nat, list) /\ chain \in Seq(DOMAIN heap)
        BY <3>1, <4>3 DEF Indexed, Shape, LinksOK
      <4>5. Len(list) = Len(chain) /\ list[i] = heap[chain[i]].entries
        <5>1. Len(chain) \in Nat
          BY <4>4, LenProperties
        <5> QED BY <4>2, <4>3, <5>1 DEF EntriesOf
      <4>6. list[i] # << >>
        BY <4>1, <4>2, <4>4, <4>5 DEF WellFormedChain
      <4> QED BY <4>1, <4>5, <4>6
    <3> QED BY <3>6, <3>7, <3>8
  <2> QED BY <2>1, <2>2, <2>3 DEF Balanced
<1> QED BY <1>1, TreeInvariant, PTL

\* Between calls parent is the inverse of children, and the nodes that follow
\* children from the root are all the nodes ever allocated.
THEOREM ParentsMatchChildren == Spec => []ParentsAndChildrenAgree
<1>1. IInv => ParentsAndChildrenAgree
  <2> SUFFICES ASSUME IInv, pc = "idle"
               PROVE  /\ heap[queryPointer].parent = None
                      /\ \A n \in DOMAIN heap : n # queryPointer =>
                           /\ heap[n].parent # None
                           /\ Cardinality({i \in DOMAIN heap[heap[n].parent].children :
                                 heap[heap[n].parent].children[i] = n}) = 1
                      /\ \A p \in DOMAIN heap : \A i \in DOMAIN heap[p].children :
                           heap[heap[p].children[i]].parent = p
                      /\ UNION {ToSet(Layer[d]) : d \in 0 .. Depth} = DOMAIN heap
    BY DEF ParentsAndChildrenAgree
  <2>1. PICK lo, hi, height, chain : Indexed(lo, hi, height, chain)
    BY DEF IInv
  <2>2. Shape(heap, queryPointer, traversalPointer, split.promotedKey, None, None,
              lo, hi, height, chain)
    BY <2>1, Whole DEF IInv
  <2>3. /\ BoundsOK(heap, lo, hi, height) /\ LeavesOK(heap, chain)
        /\ InnerOK(heap, lo, hi, height, None, None)
        /\ ParentsOK(heap, queryPointer, lo, hi, None, None)
    BY <2>2 DEF Shape
  <2>4. /\ heap \in Seq(Node) /\ lo \in [DOMAIN heap -> Nat]
        /\ None \notin DOMAIN heap
    BY <2>3, NodeFields DEF BoundsOK, None
  <2>5. heap[queryPointer].parent = None
    BY <2>3 DEF ParentsOK
  <2>6. \A p \in DOMAIN heap : /\ heap[p].children \in Seq(Nat)
                               /\ Len(heap[p].children) \in Nat
                               /\ DOMAIN heap[p].children = 1 .. Len(heap[p].children)
    BY <2>4, NodeFields, LenProperties
  <2>7. ASSUME NEW n \in DOMAIN heap, n # queryPointer
        PROVE  /\ heap[n].parent # None
               /\ Cardinality({i \in DOMAIN heap[heap[n].parent].children :
                     heap[heap[n].parent].children[i] = n}) = 1
    <3>1. PICK p : p = heap[n].parent
      OBVIOUS
    <3>2. /\ p \in DOMAIN heap /\ ~heap[p].isLeaf
          /\ \E i \in 1 .. Len(heap[p].children) : heap[p].children[i] = n
      BY <2>3, <2>4, <2>7, <3>1 DEF ParentsOK
    <3>3. PICK i \in 1 .. Len(heap[p].children) : heap[p].children[i] = n
      BY <3>2
    <3>4. Len(heap[p].children) = Len(heap[p].keys) + 1
      BY <2>3, <3>2 DEF InnerOK
    <3>5. \A j \in 1 .. Len(heap[p].children) : heap[p].children[j] = n => j = i
      BY <2>3, <2>4, <3>2, <3>3, <3>4, ChildrenDiffer
    <3>6. {j \in DOMAIN heap[p].children : heap[p].children[j] = n} = {i}
      BY <2>6, <3>2, <3>3, <3>5
    <3>7. Cardinality({i}) = 1
      BY FS_Singleton
    <3> QED BY <2>4, <3>1, <3>2, <3>6, <3>7
  <2>8. ASSUME NEW p \in DOMAIN heap, NEW i \in DOMAIN heap[p].children
        PROVE  heap[heap[p].children[i]].parent = p
    <3>1. i \in 1 .. Len(heap[p].children)
      BY <2>6
    <3>2. ~heap[p].isLeaf
      <4>1. ASSUME heap[p].isLeaf PROVE FALSE
        <5>1. heap[p].children = << >>
          BY <2>3, <4>1 DEF LeavesOK
        <5> QED BY <3>1, <5>1
      <4> QED BY <4>1
    <3>3. i \in 1 .. Len(heap[p].keys) + 1
      BY <2>3, <3>1, <3>2 DEF InnerOK
    <3>4. ChildOK(heap, lo, hi, height, None, None, p, i)
      BY <2>3, <3>2, <3>3 DEF InnerOK
    <3> QED BY <3>4 DEF ChildOK
  <2>9. UNION {ToSet(Layer[d]) : d \in 0 .. Depth} = DOMAIN heap
    <3>1. PICK L, H : L = Layer /\ H = Depth
      OBVIOUS
    <3>2. Layered(heap, chain, L, H)
      BY <2>1, <3>1, ReadLayers DEF IInv
    <3>3. \A d \in 0 .. H : ToSet(L[d]) = RangeOf(L[d])
      BY DEF ToSet, RangeOf
    <3>4. ASSUME NEW d \in 0 .. H PROVE RangeOf(L[d]) \subseteq DOMAIN heap
      <4>1. L[d] \in Seq(DOMAIN heap)
        BY <3>2 DEF Layered
      <4> QED BY <4>1, LenProperties, ElementOfSeq DEF RangeOf
    <3>5. \A n \in DOMAIN heap : \E d \in 0 .. H : n \in RangeOf(L[d])
      BY <3>2 DEF Layered
    <3>6. UNION {ToSet(L[d]) : d \in 0 .. H} = DOMAIN heap
      BY <3>3, <3>4, <3>5
    <3> QED BY <3>1, <3>6
  <2> QED BY <2>5, <2>7, <2>8, <2>9
<1> QED BY <1>1, TreeInvariant, PTL

\* Between calls the walk along next from traversalPointer meets the leaves that
\* the descents reach, all of them, in the same order.
THEOREM ChainIsLastLayer == Spec => []ChainIsFrontier
<1>1. IInv => ChainIsFrontier
  <2> SUFFICES ASSUME IInv, pc = "idle" PROVE NextChain = Layer[Depth]
    BY DEF ChainIsFrontier
  <2>1. PICK lo, hi, height, chain : Indexed(lo, hi, height, chain)
    BY DEF IInv
  <2>2. NextChain = chain
    BY <2>1, ReadEntries
  <2>3. Layered(heap, chain, Layer, Depth)
    BY <2>1, ReadLayers DEF IInv
  <2> QED BY <2>2, <2>3 DEF Layered
<1> QED BY <1>1, TreeInvariant, PTL

=============================================================================
