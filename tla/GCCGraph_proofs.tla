--------------------------- MODULE GCCGraph_proofs ---------------------------
(***************************************************************************)
(* Invariants of GCCGraph for any capacities, vertices, weights and calls, *)
(* in two parts.                                                           *)
(*                                                                         *)
(* The structure.  The inductive invariant IInv says of each VertexEntry   *)
(* that its nodes are well-formed and its size counts their keys           *)
(* (EntryOK), of the items of a running promotion that their keys are new  *)
(* to the tree they go to, and of a chain not marked dirty that it is the  *)
(* one rebuildGTChain would build.                                         *)
(*                                                                         *)
(* The contents.  IInv does not say that a key is in one chunk only (a     *)
(* chain of leaves has that by its order), nor how many items a running    *)
(* promotion still holds; UniqueInv adds both.  Each neighbour is stored   *)
(* once and counted by size, a tree is where the chunks would not suffice, *)
(* and, whatever the layout, the contents are those of a SimpleGraph.      *)
(***************************************************************************)
EXTENDS GCCGraph, GCCNodes_proofs, FunctionTheorems

\* The chunks of a vertex that has not been promoted.
Chunks(nodes) ==
  /\ Len(nodes) <= SmallChunkPromotionThreshold
  /\ \A n \in 1 .. Len(nodes) :
        /\ Ascending(nodes[n])
        /\ Len(nodes[n]) \in 1 .. SmallChunkCapacity
        /\ n < Len(nodes) => Full(nodes[n])

EntryOK(ve) ==
  /\ ve \in VertexEntry
  /\ IsFiniteSet(AllKeys(ve.nodes))
  /\ ve.size = Cardinality(AllKeys(ve.nodes))
  /\ ve.level = 0 => Chunks(ve.nodes)
  /\ ve.level > 0 => WellFormedChain(Weight, ve.nodes) /\ ve.level = Len(ve.nodes)

TableOK(table) ==
  /\ table \in Seq(VertexEntry)
  /\ \A i \in DOMAIN table :
        /\ EntryOK(table[i])
        /\ AllKeys(table[i].nodes) \subseteq DOMAIN table

RegistryOK(reg) ==
  /\ reg.reverseIdMap \in Seq(Vertex)
  /\ DOMAIN reg.idMap = RangeOf(reg.reverseIdMap)
  /\ \A i \in DOMAIN reg.reverseIdMap : reg.idMap[reg.reverseIdMap[i]] = i
  /\ TableOK(reg.vertexTable)
  /\ Len(reg.vertexTable) = Len(reg.reverseIdMap)
  /\ reg.gtChainDirty \in BOOLEAN

CallsOK ==
  /\ todo \in Seq(DirectedInsert)
  /\ Len(todo) <= 2
  /\ \A k \in DOMAIN todo : todo[k].src \in Ids /\ todo[k].dst \in Ids

\* Items of one key each, none of them in the tree yet.
BulkOK ==
  /\ bulk \subseteq Entry
  /\ \A e \in bulk : e.dst \in Ids
  /\ \A e, f \in bulk : e.dst = f.dst => e = f
  /\ bulk # {} => /\ todo # << >>
                  /\ Source.level > 0
                  /\ \A e \in bulk : e.dst \notin AllKeys(Source.nodes)

IInv ==
  /\ isDirected \in BOOLEAN
  /\ RegistryOK(Registry)
  /\ gtHead \in Pointer
  /\ CallsOK
  /\ BulkOK
  /\ CleanChain

-----------------------------------------------------------------------------
(* One VertexEntry.                                                        *)

LEMMA EntryTypes ==
  /\ Entry = Cell(Weight)
  /\ EmptyEntry \in VertexEntry
  /\ NullPointer \in Pointer
  /\ \A ve \in VertexEntry :
        /\ ve.size \in Nat /\ ve.level \in Nat
        /\ ve.nodes \in Seq(Seq(Cell(Weight)))
        /\ ve.gtNext \in Pointer
<1>1. NullPointer \in Pointer
  BY DEF NullPointer, Pointer
<1>2. << >> \in Seq(Seq(Entry))
  BY EmptySeq
<1> QED BY <1>1, <1>2 DEF Entry, Cell, EmptyEntry, VertexEntry

\* What the sequences of nodes are made of.
LEMMA NodesTypes ==
  ASSUME NEW nodes \in Seq(Seq(Cell(Weight)))
  PROVE  /\ Len(nodes) \in Nat
         /\ DOMAIN nodes = 1 .. Len(nodes)
         /\ \A n \in 1 .. Len(nodes) :
               /\ nodes[n] \in Seq(Cell(Weight))
               /\ Len(nodes[n]) \in Nat
               /\ DOMAIN nodes[n] = 1 .. Len(nodes[n])
               /\ \A i \in 1 .. Len(nodes[n]) : nodes[n][i] \in Cell(Weight)
<1>1. Len(nodes) \in Nat /\ DOMAIN nodes = 1 .. Len(nodes)
  BY LenProperties
<1>2. \A n \in 1 .. Len(nodes) : nodes[n] \in Seq(Cell(Weight))
  BY ElementOfSeq
<1> QED BY <1>1, <1>2, CellProperties

\* One more key.
LEMMA OneMoreKey ==
  ASSUME NEW S, NEW T, NEW x, IsFiniteSet(S), x \notin S, T = S \cup {x}
  PROVE  IsFiniteSet(T) /\ Cardinality(T) = Cardinality(S) + 1
<1>1. IsFiniteSet(S \cup {x}) /\ Cardinality(S \cup {x}) = Cardinality(S) + 1
  BY FS_AddElement
<1> QED BY <1>1, Zenon

\* A new vertex has no nodes.
LEMMA EmptyEntryOK == EntryOK(EmptyEntry) /\ AllKeys(EmptyEntry.nodes) = {}
<1>1. /\ EmptyEntry.size = 0
      /\ EmptyEntry.level = 0
      /\ EmptyEntry.nodes = << >>
  BY DEF EmptyEntry
<1>2. AllKeys(EmptyEntry.nodes) = {}
  BY <1>1 DEF AllKeys
<1>3. Chunks(EmptyEntry.nodes)
  BY <1>1, PromotionThresholdAssumption DEF Chunks
<1>4. /\ IsFiniteSet(AllKeys(EmptyEntry.nodes))
      /\ EmptyEntry.size = Cardinality(AllKeys(EmptyEntry.nodes))
  BY <1>1, <1>2, FS_EmptySet
<1>5. EmptyEntry \in VertexEntry
  BY EntryTypes
<1> QED BY <1>1, <1>2, <1>3, <1>4, <1>5 DEF EntryOK

\* Nothing a search compares equal: the key is nowhere in the nodes.
LEMMA NoHitsMeansNew ==
  ASSUME NEW ve, EntryOK(ve), NEW d \in Nat, Hits(ve, d) = {}
  PROVE  d \notin AllKeys(ve.nodes)
<1>1. ve.nodes \in Seq(Seq(Cell(Weight))) /\ ve.level \in Nat
  BY EntryTypes DEF EntryOK
<1>2. DOMAIN ve.nodes = 1 .. Len(ve.nodes)
  BY <1>1, NodesTypes
<1>3. SUFFICES ASSUME NEW n \in 1 .. Len(ve.nodes), d \in Keys(ve.nodes[n])
               PROVE  FALSE
  BY <1>2 DEF AllKeys
<1>4. PICK k \in DOMAIN ve.nodes[n] : ve.nodes[n][k].dst = d
  BY <1>3 DEF Keys
<1> DEFINE scanned == IF ve.level = 0 THEN DOMAIN ve.nodes ELSE {Route(ve.nodes, d)}
           hitsIn(m) == {<<m, i>> : i \in {j \in DOMAIN ve.nodes[m] :
                                             ve.nodes[m][j].dst = d}}
<1>7. Hits(ve, d) = UNION {hitsIn(m) : m \in scanned}
  BY DEF Hits
<1>8. n \notin scanned
  <2>1. <<n, k>> \in hitsIn(n)
    BY <1>4
  <2> HIDE DEF hitsIn, scanned
  <2> QED BY <1>7, <2>1
<1>5. CASE ve.level = 0
  BY <1>2, <1>5, <1>8
<1>6. CASE ve.level > 0
  <2>1. WellFormedChain(Weight, ve.nodes)
    BY <1>6 DEF EntryOK
  <2>2. n = Route(ve.nodes, d)
    BY <1>3, <2>1, RouteFindsKey
  <2> QED BY <1>6, <1>8, <2>2
<1> QED BY <1>1, <1>5, <1>6

\* The last chunk takes one more entry.
LEMMA TailChunkEntryOK ==
  ASSUME NEW ve, EntryOK(ve), ve.level = 0, NEW e \in Entry,
         e.dst \notin AllKeys(ve.nodes),
         Len(ve.nodes) > 0, ~Full(ve.nodes[Len(ve.nodes)]),
         NEW new, new = [ve EXCEPT
           !.nodes = [ve.nodes EXCEPT
                        ![Len(ve.nodes)] = InsertSorted(ve.nodes[Len(ve.nodes)], e)],
           !.size = ve.size + 1]
  PROVE  /\ EntryOK(new)
         /\ AllKeys(new.nodes) = AllKeys(ve.nodes) \cup {e.dst}
<1> DEFINE nodes == ve.nodes
           last == Len(nodes)
           chunk == InsertSorted(nodes[last], e)
           grown == [nodes EXCEPT ![last] = chunk]
<1>1. /\ ve \in VertexEntry
      /\ nodes \in Seq(Seq(Cell(Weight)))
      /\ e \in Cell(Weight)
      /\ ve.size \in Nat /\ ve.level \in Nat
  BY EntryTypes DEF EntryOK
<1>2. /\ last \in Nat /\ last \in 1 .. Len(nodes)
      /\ DOMAIN nodes = 1 .. Len(nodes)
      /\ \A n \in 1 .. Len(nodes) : nodes[n] \in Seq(Cell(Weight))
  BY <1>1, NodesTypes
<1>3. Chunks(nodes)
  BY DEF EntryOK
<1>4. e.dst \notin Keys(nodes[last])
  BY <1>2 DEF AllKeys
<1> HIDE DEF nodes
<1>5. /\ chunk \in Seq(Cell(Weight))
      /\ Len(chunk) = Len(nodes[last]) + 1
  BY <1>1, <1>2, InsertSortedProperties
<1>6. Keys(chunk) = Keys(nodes[last]) \cup {e.dst}
  BY <1>1, <1>2, InsertSortedProperties
<1>7. Ascending(chunk)
  BY <1>1, <1>2, <1>3, <1>4, InsertSortedAscending DEF Chunks
<1>8. Len(nodes[last]) \in 1 .. SmallChunkCapacity /\ Len(nodes[last]) # SmallChunkCapacity
  BY <1>2, <1>3 DEF Chunks, Full, nodes
<1> HIDE DEF chunk
<1>9. /\ grown \in Seq(Seq(Cell(Weight)))
      /\ Len(grown) = Len(nodes)
      /\ grown[last] = chunk
      /\ \A n \in 1 .. Len(nodes) : n # last => grown[n] = nodes[n]
  BY <1>1, <1>2, <1>5, ExceptSeq
<1> HIDE DEF grown
<1>10. Chunks(grown)
  <2>1. ASSUME NEW n \in 1 .. Len(nodes)
        PROVE  /\ Ascending(grown[n])
               /\ Len(grown[n]) \in 1 .. SmallChunkCapacity
               /\ n < Len(nodes) => Full(grown[n])
    <3>1. CASE n = last
      BY <1>5, <1>7, <1>8, <1>9, <3>1, SmallChunkCapacityAssumption
    <3>2. CASE n # last
      BY <1>3, <1>9, <3>2 DEF Chunks
    <3> QED BY <3>1, <3>2
  <2> QED BY <1>3, <1>9, <2>1 DEF Chunks
<1>11. DOMAIN grown = 1 .. Len(nodes)
  BY <1>9, NodesTypes
<1>12. AllKeys(grown) = AllKeys(nodes) \cup {e.dst}
  BY <1>2, <1>6, <1>9, <1>11 DEF AllKeys
<1>13. new = [ve EXCEPT !.nodes = grown, !.size = ve.size + 1]
  BY DEF grown, chunk, nodes
<1>14. /\ new \in VertexEntry
       /\ new.nodes = grown /\ new.size = ve.size + 1 /\ new.level = 0
  <2>1. grown \in Seq(Seq(Entry)) /\ ve.size + 1 \in Nat
    BY <1>1, <1>9, EntryTypes
  <2>2. ve \in [size : Nat, level : Nat, nodes : Seq(Seq(Entry)), gtNext : Pointer]
    BY <1>1 DEF VertexEntry
  <2>3. ve.level = 0
    OBVIOUS
  <2> HIDE DEF last
  <2>4. new \in [size : Nat, level : Nat, nodes : Seq(Seq(Entry)), gtNext : Pointer]
    BY <1>13, <2>1, <2>2
  <2>5. new.nodes = grown /\ new.size = ve.size + 1 /\ new.level = 0
    BY <1>13, <2>1, <2>2, <2>3
  <2> QED BY <2>4, <2>5 DEF VertexEntry
<1>15. /\ IsFiniteSet(AllKeys(nodes)) /\ ve.size = Cardinality(AllKeys(nodes))
       /\ e.dst \notin AllKeys(nodes)
  BY DEF EntryOK, nodes
<1>16. /\ IsFiniteSet(AllKeys(grown))
       /\ Cardinality(AllKeys(grown)) = ve.size + 1
  BY <1>12, <1>15, OneMoreKey
<1>17. EntryOK(new)
  BY <1>10, <1>14, <1>16 DEF EntryOK
<1> QED BY <1>12, <1>14, <1>17 DEF nodes

\* A new chunk is appended when the last one is full.
LEMMA NewChunkEntryOK ==
  ASSUME NEW ve, EntryOK(ve), ve.level = 0, NEW e \in Entry,
         e.dst \notin AllKeys(ve.nodes),
         Len(ve.nodes) > 0 => Full(ve.nodes[Len(ve.nodes)]),
         Len(ve.nodes) < SmallChunkPromotionThreshold,
         NEW new, new = [ve EXCEPT !.nodes = Append(ve.nodes, <<e>>),
                                   !.size = ve.size + 1,
                                   !.gtNext = NullPointer]
  PROVE  /\ EntryOK(new)
         /\ AllKeys(new.nodes) = AllKeys(ve.nodes) \cup {e.dst}
<1> DEFINE nodes == ve.nodes
           chunk == <<e>>
           grown == Append(nodes, chunk)
<1>1. /\ ve \in VertexEntry
      /\ nodes \in Seq(Seq(Cell(Weight)))
      /\ e \in Cell(Weight)
      /\ ve.size \in Nat /\ ve.level \in Nat
      /\ Chunks(nodes)
  BY EntryTypes DEF EntryOK
<1>2. /\ Len(nodes) \in Nat
      /\ DOMAIN nodes = 1 .. Len(nodes)
  BY <1>1, NodesTypes
<1>3. /\ chunk \in Seq(Cell(Weight)) /\ Len(chunk) = 1
      /\ Ascending(chunk) /\ Len(chunk) \in 1 .. SmallChunkCapacity
  BY <1>1, SmallChunkCapacityAssumption DEF Ascending
<1>4. Keys(chunk) = {e.dst}
  BY DEF Keys
<1>5. new = [ve EXCEPT !.nodes = grown, !.size = ve.size + 1, !.gtNext = NullPointer]
  OBVIOUS
<1>6. /\ Len(nodes) > 0 => Full(nodes[Len(nodes)])
      /\ Len(nodes) < SmallChunkPromotionThreshold
      /\ IsFiniteSet(AllKeys(nodes)) /\ ve.size = Cardinality(AllKeys(nodes))
      /\ e.dst \notin AllKeys(nodes)
  BY DEF EntryOK
<1> HIDE DEF nodes, chunk
<1>7. /\ grown \in Seq(Seq(Cell(Weight)))
      /\ Len(grown) = Len(nodes) + 1
      /\ \A n \in 1 .. Len(nodes) : grown[n] = nodes[n]
      /\ grown[Len(nodes) + 1] = chunk
  BY <1>1, <1>3, AppendProperties
<1> HIDE DEF grown
<1>8. Chunks(grown)
  <2>1. ASSUME NEW n \in 1 .. Len(grown)
        PROVE  /\ Ascending(grown[n])
               /\ Len(grown[n]) \in 1 .. SmallChunkCapacity
               /\ n < Len(grown) => Full(grown[n])
    <3>1. CASE n = Len(nodes) + 1
      <4>1. grown[n] = chunk /\ ~(n < Len(grown))
        BY <1>2, <1>7, <3>1
      <4> QED BY <1>3, <4>1
    <3>2. CASE n \in 1 .. Len(nodes)
      BY <1>1, <1>2, <1>6, <1>7, <3>2 DEF Chunks
    <3> QED BY <1>2, <1>7, <3>1, <3>2
  <2> QED BY <1>2, <1>6, <1>7, <2>1, PromotionThresholdAssumption DEF Chunks
<1>9. DOMAIN grown = 1 .. Len(nodes) + 1
  BY <1>7, NodesTypes
<1>10. AllKeys(grown) = AllKeys(nodes) \cup {e.dst}
  <2>1. AllKeys(grown) \subseteq AllKeys(nodes) \cup {e.dst}
    <3> SUFFICES ASSUME NEW k \in AllKeys(grown)
                 PROVE  k \in AllKeys(nodes) \cup {e.dst}
      OBVIOUS
    <3>1. PICK n \in 1 .. Len(nodes) + 1 : k \in Keys(grown[n])
      BY <1>9 DEF AllKeys
    <3>2. CASE n = Len(nodes) + 1
      BY <1>4, <1>7, <3>1, <3>2
    <3>3. CASE n \in 1 .. Len(nodes)
      BY <1>2, <1>7, <3>1, <3>3 DEF AllKeys
    <3> QED BY <1>2, <3>2, <3>3
  <2>2. AllKeys(nodes) \subseteq AllKeys(grown)
    BY <1>2, <1>7, <1>9 DEF AllKeys
  <2>3. e.dst \in AllKeys(grown)
    BY <1>2, <1>4, <1>7, <1>9 DEF AllKeys
  <2> QED BY <2>1, <2>2, <2>3
<1>11. /\ new \in VertexEntry
       /\ new.nodes = grown /\ new.size = ve.size + 1 /\ new.level = 0
  <2>1. grown \in Seq(Seq(Entry)) /\ ve.size + 1 \in Nat /\ NullPointer \in Pointer
    BY <1>1, <1>7, EntryTypes
  <2>2. ve \in [size : Nat, level : Nat, nodes : Seq(Seq(Entry)), gtNext : Pointer]
    BY <1>1 DEF VertexEntry
  <2>3. new \in [size : Nat, level : Nat, nodes : Seq(Seq(Entry)), gtNext : Pointer]
    BY <1>5, <2>1, <2>2
  <2>4. new.nodes = grown /\ new.size = ve.size + 1 /\ new.level = 0
    BY <1>5, <2>1, <2>2
  <2> QED BY <2>3, <2>4 DEF VertexEntry
<1>12. IsFiniteSet(AllKeys(grown)) /\ Cardinality(AllKeys(grown)) = ve.size + 1
  BY <1>6, <1>10, OneMoreKey
<1>13. EntryOK(new)
  <2>1. /\ IsFiniteSet(AllKeys(new.nodes))
        /\ new.size = Cardinality(AllKeys(new.nodes))
        /\ Chunks(new.nodes)
    BY <1>8, <1>11, <1>12
  <2> QED BY <1>11, <2>1 DEF EntryOK
<1> QED BY <1>10, <1>11, <1>13 DEF nodes

\* bplusInsert puts a key in the tree that is not there yet.
LEMMA TreeEntryOK ==
  ASSUME NEW ve, EntryOK(ve), ve.level > 0, NEW e \in Entry,
         e.dst \notin AllKeys(ve.nodes)
  PROVE  /\ EntryOK(BPlusInsert(ve, e))
         /\ BPlusInsert(ve, e).level > 0
         /\ AllKeys(BPlusInsert(ve, e).nodes) = AllKeys(ve.nodes) \cup {e.dst}
<1> DEFINE nodes == ve.nodes
           r == Route(nodes, e.dst)
           grown == InsertIntoLeaf(nodes, r, e)
           new == BPlusInsert(ve, e)
           link == IF Splits(nodes[r]) /\ r = Len(nodes) THEN NullPointer ELSE ve.gtNext
<1>1. /\ ve.size \in Nat /\ ve.level \in Nat
      /\ ve.gtNext \in Pointer /\ NullPointer \in Pointer
      /\ e \in Cell(Weight)
      /\ WellFormedChain(Weight, nodes) /\ ve.level = Len(nodes)
      /\ IsFiniteSet(AllKeys(nodes)) /\ ve.size = Cardinality(AllKeys(nodes))
  BY EntryTypes DEF EntryOK
<1>2. new = [size |-> ve.size + 1,
             level |-> IF Splits(nodes[r]) THEN ve.level + 1 ELSE ve.level,
             nodes |-> grown, gtNext |-> link]
  BY DEF BPlusInsert
<1>3. e.dst \notin AllKeys(nodes)
  OBVIOUS
<1> HIDE DEF nodes, link
<1>4. /\ WellFormedChain(Weight, grown)
      /\ Len(grown) = IF Splits(nodes[r]) THEN Len(nodes) + 1 ELSE Len(nodes)
  BY <1>1, <1>3, InsertWithoutSplit, InsertWithSplit
<1>5. AllKeys(grown) = AllKeys(nodes) \cup {e.dst}
  BY <1>1, <1>3, InsertWithoutSplit, InsertWithSplit
<1>6. link \in Pointer
  BY <1>1 DEF link
<1> HIDE DEF grown, r, new
<1>7. /\ new.nodes = grown /\ new.size = ve.size + 1
      /\ new.level = Len(grown) /\ new.level > 0
  BY <1>1, <1>2, <1>4
<1>8. new \in VertexEntry
  <2>1. grown \in Seq(Seq(Entry)) /\ ve.size + 1 \in Nat
        /\ (IF Splits(nodes[r]) THEN ve.level + 1 ELSE ve.level) \in Nat
    BY <1>1, <1>4, EntryTypes DEF WellFormedChain
  <2> QED BY <1>2, <1>6, <2>1 DEF VertexEntry
<1>9. IsFiniteSet(AllKeys(grown)) /\ Cardinality(AllKeys(grown)) = ve.size + 1
  BY <1>1, <1>3, <1>5, OneMoreKey
<1>10. EntryOK(new)
  BY <1>4, <1>7, <1>8, <1>9 DEF EntryOK
<1> QED BY <1>5, <1>7, <1>10 DEF nodes, new

\* The entry of a vertex after slot i of its node n was overwritten with e.
Overwritten(ve, n, i, e) ==
  [ve EXCEPT !.nodes = [ve.nodes EXCEPT ![n] = [ve.nodes[n] EXCEPT ![i] = e]]]

\* An entry whose weight is overwritten keeps its keys.
LEMMA OverwrittenEntryOK ==
  ASSUME NEW ve, EntryOK(ve), NEW e \in Entry,
         NEW n \in 1 .. Len(ve.nodes), NEW i \in 1 .. Len(ve.nodes[n]),
         ve.nodes[n][i].dst = e.dst
  PROVE  LET new == Overwritten(ve, n, i, e)
         IN  /\ EntryOK(new)
             /\ AllKeys(new.nodes) = AllKeys(ve.nodes)
             /\ new.size = ve.size /\ new.level = ve.level
             /\ new.gtNext = ve.gtNext
<1> DEFINE new == Overwritten(ve, n, i, e)
           nodes == ve.nodes
           node == [nodes[n] EXCEPT ![i] = e]
           after == [nodes EXCEPT ![n] = node]
<1>1. /\ ve \in VertexEntry
      /\ nodes \in Seq(Seq(Cell(Weight)))
      /\ e \in Cell(Weight)
      /\ ve.level \in Nat
  BY EntryTypes DEF EntryOK
<1>2. /\ nodes[n] \in Seq(Cell(Weight))
      /\ \A m \in 1 .. Len(nodes) : nodes[m] \in Seq(Cell(Weight))
  BY <1>1, NodesTypes
<1>3. new = [ve EXCEPT !.nodes = after]
  BY DEF Overwritten
<1> HIDE DEF new
<1>4. /\ n \in 1 .. Len(nodes) /\ i \in 1 .. Len(nodes[n])
      /\ nodes[n][i].dst = e.dst
  OBVIOUS
<1> HIDE DEF nodes
<1>5. /\ node \in Seq(Cell(Weight))
      /\ Len(node) = Len(nodes[n])
      /\ \A j \in 1 .. Len(nodes[n]) : node[j] = IF j = i THEN e ELSE nodes[n][j]
  BY <1>1, <1>2, <1>4, ExceptSeq
<1> HIDE DEF node
<1>6. /\ after \in Seq(Seq(Cell(Weight)))
      /\ Len(after) = Len(nodes)
      /\ \A m \in 1 .. Len(nodes) : after[m] = IF m = n THEN node ELSE nodes[m]
  BY <1>1, <1>4, <1>5, ExceptSeq
<1> HIDE DEF after
<1>7. ASSUME NEW m \in 1 .. Len(nodes)
      PROVE  /\ Len(after[m]) = Len(nodes[m])
             /\ \A j \in 1 .. Len(nodes[m]) : after[m][j].dst = nodes[m][j].dst
  BY <1>4, <1>5, <1>6
<1>8. AllKeys(after) = AllKeys(nodes)
  BY <1>1, <1>6, <1>7, SameKeys
<1>9. WellFormedChain(Weight, nodes) => WellFormedChain(Weight, after)
  BY <1>6, <1>7, SameKeysSameShape
<1>10. Chunks(nodes) => Chunks(after)
  <2> SUFFICES ASSUME Chunks(nodes), NEW m \in 1 .. Len(nodes)
               PROVE  /\ Ascending(after[m])
                      /\ Len(after[m]) \in 1 .. SmallChunkCapacity
                      /\ m < Len(nodes) => Full(after[m])
    BY <1>6 DEF Chunks
  <2>1. DOMAIN after[m] = 1 .. Len(nodes[m]) /\ DOMAIN nodes[m] = 1 .. Len(nodes[m])
    BY <1>1, <1>6, <1>7, NodesTypes
  <2> QED BY <1>7, <2>1 DEF Chunks, Ascending, Full
<1>11. /\ new \in VertexEntry
       /\ new.nodes = after
       /\ new.size = ve.size /\ new.level = ve.level /\ new.gtNext = ve.gtNext
  <2>1. after \in Seq(Seq(Entry))
    BY <1>6, EntryTypes
  <2>2. ve \in [size : Nat, level : Nat, nodes : Seq(Seq(Entry)), gtNext : Pointer]
    BY <1>1 DEF VertexEntry
  <2>3. new \in [size : Nat, level : Nat, nodes : Seq(Seq(Entry)), gtNext : Pointer]
    BY <1>3, <2>1, <2>2
  <2>4. /\ new.nodes = after
        /\ new.size = ve.size /\ new.level = ve.level /\ new.gtNext = ve.gtNext
    BY <1>3, <2>1, <2>2
  <2> QED BY <2>3, <2>4 DEF VertexEntry
<1>12. EntryOK(new)
  BY <1>6, <1>8, <1>9, <1>10, <1>11 DEF EntryOK, nodes
<1> QED BY <1>8, <1>11, <1>12 DEF nodes, new

-----------------------------------------------------------------------------
(* The chain.                                                              *)

\* The chain depends on which vertices have edges and on which are promoted.
LEMMA SameChain ==
  ASSUME NEW table, NEW other, DOMAIN table = DOMAIN other, DOMAIN table \subseteq Nat,
         \A j \in DOMAIN table :
            table[j].size = other[j].size /\ table[j].level = other[j].level
  PROVE  /\ Occupied(other) = Occupied(table)
         /\ \A i : ChainAfter(other, i) = ChainAfter(table, i)
<1>1. Occupied(other) = Occupied(table)
  BY DEF Occupied
<1>2. \A j \in DOMAIN table : HeadNode(other, j) = HeadNode(table, j)
  BY DEF HeadNode
<1>3. ASSUME NEW i
      PROVE  ChainAfter(other, i) = ChainAfter(table, i)
  <2> DEFINE later == {j \in Occupied(table) : j > i}
             next == CHOOSE j \in later : \A k \in later : j <= k
  <2>1. later # {} => next \in DOMAIN table
    <3>1. later \subseteq DOMAIN table /\ later \subseteq Nat
      BY DEF Occupied
    <3>2. later # {} => next \in later
      BY <3>1, LeastElement
    <3> QED BY <3>1, <3>2
  <2>2. ChainAfter(table, i) = IF later = {} THEN NullPointer ELSE HeadNode(table, next)
    BY DEF ChainAfter
  <2>3. ChainAfter(other, i) = IF later = {} THEN NullPointer ELSE HeadNode(other, next)
    BY <1>1 DEF ChainAfter
  <2> QED BY <1>2, <2>1, <2>2, <2>3
<1> QED BY <1>1, <1>3

\* A link of the chain is null or names a later vertex that has edges.
LEMMA ChainAfterProperties ==
  ASSUME NEW table \in Seq(VertexEntry), NEW i \in Nat
  PROVE  /\ ChainAfter(table, i) \in Pointer
         /\ ChainAfter(table, i).kind # "Null" =>
               ChainAfter(table, i).vertexIdx \in {j \in Occupied(table) : j > i}
<1> DEFINE later == {j \in Occupied(table) : j > i}
           next == CHOOSE j \in later : \A k \in later : j <= k
<1>1. DOMAIN table = 1 .. Len(table) /\ Len(table) \in Nat
  BY LenProperties
<1>2. later \subseteq Nat
  BY <1>1 DEF Occupied
<1>3. ChainAfter(table, i) = IF later = {} THEN NullPointer ELSE HeadNode(table, next)
  BY DEF ChainAfter
<1>4. CASE later = {}
  BY <1>3, <1>4 DEF NullPointer, Pointer
<1>5. CASE later # {}
  <2>1. next \in later
    BY <1>2, <1>5, LeastElement
  <2> QED BY <1>2, <1>3, <1>5, <2>1 DEF HeadNode, Pointer
<1> QED BY <1>4, <1>5

-----------------------------------------------------------------------------
(* The registry.                                                           *)

\* Replacing one entry of the table by another good one.
LEMMA ReplacedEntry ==
  ASSUME NEW table, TableOK(table), NEW s \in DOMAIN table, NEW ve, EntryOK(ve),
         AllKeys(ve.nodes) \subseteq DOMAIN table
  PROVE  LET new == [table EXCEPT ![s] = ve]
         IN  /\ TableOK(new)
             /\ DOMAIN new = DOMAIN table
             /\ Len(new) = Len(table)
             /\ new[s] = ve
             /\ \A i \in DOMAIN table : i # s => new[i] = table[i]
<1> DEFINE new == [table EXCEPT ![s] = ve]
<1>1. /\ table \in Seq(VertexEntry) /\ DOMAIN table = 1 .. Len(table)
      /\ ve \in VertexEntry
      /\ \A i \in DOMAIN table :
            EntryOK(table[i]) /\ AllKeys(table[i].nodes) \subseteq DOMAIN table
  BY LenProperties DEF TableOK, EntryOK
<1>2. /\ new \in Seq(VertexEntry) /\ Len(new) = Len(table)
      /\ \A i \in 1 .. Len(table) : new[i] = IF i = s THEN ve ELSE table[i]
  BY <1>1, ExceptSeq
<1>3. DOMAIN new = DOMAIN table
  BY <1>1, <1>2, LenProperties
<1>4. new[s] = ve /\ \A i \in DOMAIN table : i # s => new[i] = table[i]
  BY <1>1, <1>2
<1>5. \A i \in DOMAIN new :
         EntryOK(new[i]) /\ AllKeys(new[i].nodes) \subseteq DOMAIN new
  BY <1>1, <1>3, <1>4
<1> QED BY <1>2, <1>3, <1>4, <1>5 DEF TableOK

\* The fields that getOrRegisterVertex reads are the state's.
LEMMA RegistryFields ==
  /\ Registry.idMap = idMap
  /\ Registry.reverseIdMap = reverseIdMap
  /\ Registry.vertexTable = vertexTable
  /\ Registry.gtChainDirty = gtChainDirty
BY DEF Registry

LEMMA RegistryState ==
  RegistryOK(Registry) <=>
    /\ reverseIdMap \in Seq(Vertex)
    /\ DOMAIN idMap = RangeOf(reverseIdMap)
    /\ \A i \in DOMAIN reverseIdMap : idMap[reverseIdMap[i]] = i
    /\ TableOK(vertexTable)
    /\ Len(vertexTable) = Len(reverseIdMap)
    /\ gtChainDirty \in BOOLEAN
BY RegistryFields DEF RegistryOK

\* getOrRegisterVertex keeps the two maps inverse to each other, moves no
\* vertex to another id, and changes the table only when it marks the chain.
LEMMA Registration ==
  ASSUME NEW reg, RegistryOK(reg), NEW x \in Vertex
  PROVE  LET new == GetOrRegisterVertex(reg, x)
         IN  /\ RegistryOK(new)
             /\ x \in DOMAIN new.idMap
             /\ \A y \in DOMAIN new.idMap : new.idMap[y] \in DOMAIN new.vertexTable
             /\ \A y \in DOMAIN reg.idMap :
                   y \in DOMAIN new.idMap /\ new.idMap[y] = reg.idMap[y]
             /\ \/ new = reg
                \/ new.gtChainDirty
<1> DEFINE new == GetOrRegisterVertex(reg, x)
           id == Len(reg.reverseIdMap) + 1
<1>1. /\ reg.reverseIdMap \in Seq(Vertex)
      /\ Len(reg.reverseIdMap) \in Nat
      /\ DOMAIN reg.reverseIdMap = 1 .. Len(reg.reverseIdMap)
      /\ DOMAIN reg.idMap = RangeOf(reg.reverseIdMap)
      /\ \A i \in DOMAIN reg.reverseIdMap : reg.idMap[reg.reverseIdMap[i]] = i
      /\ reg.vertexTable \in Seq(VertexEntry)
      /\ DOMAIN reg.vertexTable = 1 .. Len(reg.reverseIdMap)
      /\ Len(reg.vertexTable) = Len(reg.reverseIdMap)
      /\ \A i \in DOMAIN reg.vertexTable :
            EntryOK(reg.vertexTable[i])
              /\ AllKeys(reg.vertexTable[i].nodes) \subseteq DOMAIN reg.vertexTable
  BY LenProperties DEF RegistryOK, TableOK
<1>2. \A y \in DOMAIN reg.idMap : reg.idMap[y] \in DOMAIN reg.vertexTable
  BY <1>1 DEF RangeOf
<1>3. CASE x \in DOMAIN reg.idMap
  <2>1. new = reg
    BY <1>3 DEF GetOrRegisterVertex
  <2> QED BY <1>2, <1>3, <2>1
<1>4. CASE x \notin DOMAIN reg.idMap
  <2>1. /\ new.idMap = [y \in DOMAIN reg.idMap \cup {x} |->
                          IF y = x THEN id ELSE reg.idMap[y]]
        /\ new.reverseIdMap = Append(reg.reverseIdMap, x)
        /\ new.vertexTable = Append(reg.vertexTable, EmptyEntry)
        /\ new.gtChainDirty = TRUE
    BY <1>4 DEF GetOrRegisterVertex
  <2> HIDE DEF new
  <2>2. /\ new.reverseIdMap \in Seq(Vertex)
        /\ Len(new.reverseIdMap) = id
        /\ DOMAIN new.reverseIdMap = 1 .. id
        /\ \A i \in 1 .. Len(reg.reverseIdMap) :
              new.reverseIdMap[i] = reg.reverseIdMap[i]
        /\ new.reverseIdMap[id] = x
    BY <1>1, <2>1, AppendProperties, LenProperties
  <2>3. /\ new.vertexTable \in Seq(VertexEntry)
        /\ Len(new.vertexTable) = id
        /\ DOMAIN new.vertexTable = 1 .. id
        /\ \A i \in 1 .. Len(reg.reverseIdMap) :
              new.vertexTable[i] = reg.vertexTable[i]
        /\ new.vertexTable[id] = EmptyEntry
    BY <1>1, <2>1, EntryTypes, AppendProperties, LenProperties
  <2>4. TableOK(new.vertexTable)
    <3>1. ASSUME NEW i \in 1 .. id
          PROVE  /\ EntryOK(new.vertexTable[i])
                 /\ AllKeys(new.vertexTable[i].nodes) \subseteq 1 .. id
      <4>1. CASE i = id
        BY <2>3, <4>1, EmptyEntryOK
      <4>2. CASE i \in 1 .. Len(reg.reverseIdMap)
        <5>1. /\ new.vertexTable[i] = reg.vertexTable[i]
              /\ i \in DOMAIN reg.vertexTable
          BY <1>1, <2>3, <4>2
        <5>2. /\ EntryOK(reg.vertexTable[i])
              /\ AllKeys(reg.vertexTable[i].nodes) \subseteq DOMAIN reg.vertexTable
          BY <1>1, <5>1
        <5>3. DOMAIN reg.vertexTable \subseteq 1 .. id
          BY <1>1
        <5> HIDE DEF id
        <5> QED BY <5>1, <5>2, <5>3
      <4> QED BY <1>1, <4>1, <4>2
    <3> QED BY <2>3, <3>1 DEF TableOK
  <2>5. DOMAIN new.idMap = DOMAIN reg.idMap \cup {x}
    BY <2>1
  <2>6. RangeOf(new.reverseIdMap) = RangeOf(reg.reverseIdMap) \cup {x}
    <3>1. RangeOf(new.reverseIdMap) \subseteq RangeOf(reg.reverseIdMap) \cup {x}
      BY <1>1, <2>2 DEF RangeOf
    <3>2. RangeOf(reg.reverseIdMap) \subseteq RangeOf(new.reverseIdMap)
      BY <1>1, <2>2 DEF RangeOf
    <3>3. x \in RangeOf(new.reverseIdMap)
      BY <1>1, <2>2 DEF RangeOf
    <3> QED BY <3>1, <3>2, <3>3
  <2>7. \A i \in 1 .. id : new.idMap[new.reverseIdMap[i]] = i
    <3> SUFFICES ASSUME NEW i \in 1 .. id
                 PROVE  new.idMap[new.reverseIdMap[i]] = i
      OBVIOUS
    <3>1. CASE i = id
      BY <2>1, <2>2, <3>1
    <3>2. CASE i \in 1 .. Len(reg.reverseIdMap)
      <4>1. reg.reverseIdMap[i] \in DOMAIN reg.idMap
        BY <1>1, <3>2 DEF RangeOf
      <4> QED BY <1>1, <1>4, <2>1, <2>2, <3>2, <4>1
    <3> QED BY <1>1, <3>1, <3>2
  <2>8. RegistryOK(new)
    BY <1>1, <2>1, <2>2, <2>3, <2>4, <2>5, <2>6, <2>7 DEF RegistryOK
  <2>9. \A y \in DOMAIN new.idMap : new.idMap[y] \in DOMAIN new.vertexTable
    BY <1>1, <1>2, <2>1, <2>3, <2>5
  <2>10. \A y \in DOMAIN reg.idMap :
            y \in DOMAIN new.idMap /\ new.idMap[y] = reg.idMap[y]
    BY <1>4, <2>1, <2>5
  <2> QED BY <2>1, <2>5, <2>8, <2>9, <2>10 DEF new
<1> QED BY <1>3, <1>4

-----------------------------------------------------------------------------
(* The steps.                                                              *)

LEMMA InitIInv == Init => IInv
<1> SUFFICES ASSUME Init PROVE IInv
  OBVIOUS
<1>1. /\ reverseIdMap = << >> /\ vertexTable = << >> /\ idMap = << >>
      /\ gtChainDirty = TRUE /\ todo = << >> /\ bulk = {}
      /\ isDirected \in BOOLEAN /\ gtHead \in Pointer
  BY EntryTypes DEF Init
<1>2. TableOK(vertexTable)
  BY <1>1 DEF TableOK
<1>3. DOMAIN idMap = RangeOf(reverseIdMap)
  BY <1>1 DEF RangeOf
<1>4. RegistryOK(Registry)
  BY <1>1, <1>2, <1>3, RegistryState
<1>5. CallsOK
  BY <1>1 DEF CallsOK
<1>6. BulkOK
  BY <1>1 DEF BulkOK
<1>7. CleanChain
  BY <1>1 DEF CleanChain
<1> QED BY <1>1, <1>4, <1>5, <1>6, <1>7 DEF IInv

\* The entry point of a call registers vertices and may leave insertions.
LEMMA CallIInv ==
  ASSUME IInv, todo = << >>, NEW reg, RegistryOK(reg),
         reg = Registry \/ reg.gtChainDirty, Adopt(reg), CallsOK',
         UNCHANGED <<isDirected, gtHead, bulk>>
  PROVE  IInv'
<1>1. /\ bulk = {} /\ bulk' = {}
      /\ isDirected' \in BOOLEAN /\ gtHead' \in Pointer
  BY DEF IInv, BulkOK
<1>2. /\ idMap' = reg.idMap /\ reverseIdMap' = reg.reverseIdMap
      /\ vertexTable' = reg.vertexTable /\ gtChainDirty' = reg.gtChainDirty
  BY DEF Adopt
<1>3. RegistryOK(Registry)'
  BY <1>2 DEF RegistryOK, Registry
<1>4. BulkOK'
  BY <1>1 DEF BulkOK
<1>5. CleanChain'
  <2> SUFFICES ASSUME ~gtChainDirty'
               PROVE  CleanChain'
    BY DEF CleanChain
  <2>1. vertexTable' = vertexTable /\ gtChainDirty' = gtChainDirty
    BY <1>2, RegistryFields
  <2> QED BY <1>1, <2>1 DEF IInv, CleanChain
<1> QED BY <1>1, <1>3, <1>4, <1>5 DEF IInv

LEMMA AddVertexIInv ==
  ASSUME IInv, NEW x \in Vertex, AddVertex(x)
  PROVE  IInv'
<1> DEFINE reg == GetOrRegisterVertex(Registry, x)
<1>1. RegistryOK(reg) /\ (reg = Registry \/ reg.gtChainDirty)
  BY Registration DEF IInv
<1>2. CallsOK'
  BY DEF AddVertex, CallsOK
<1>3. /\ todo = << >> /\ Adopt(reg)
      /\ UNCHANGED <<isDirected, gtHead, bulk>>
  BY DEF AddVertex
<1> HIDE DEF reg
<1> QED BY <1>1, <1>2, <1>3, CallIInv

LEMMA AddEdgeIInv ==
  ASSUME IInv, NEW u \in Vertex, NEW v \in Vertex, NEW w \in Weight, AddEdge(u, v, w)
  PROVE  IInv'
<1> DEFINE first == GetOrRegisterVertex(Registry, u)
           reg == GetOrRegisterVertex(first, v)
           forward == [src |-> reg.idMap[u], dst |-> reg.idMap[v], weight |-> w]
           reverse == [src |-> reg.idMap[v], dst |-> reg.idMap[u], weight |-> w]
<1>1. /\ RegistryOK(first) /\ u \in DOMAIN first.idMap
      /\ first = Registry \/ first.gtChainDirty
  BY Registration DEF IInv
<1>2. /\ todo = << >> /\ Adopt(reg)
      /\ todo' = <<forward>> \/ todo' = <<forward, reverse>>
      /\ UNCHANGED <<isDirected, gtHead, bulk>>
  BY DEF AddEdge, Insertions
<1> HIDE DEF first
<1>3. /\ RegistryOK(reg) /\ v \in DOMAIN reg.idMap
      /\ reg = first \/ reg.gtChainDirty
      /\ \A y \in DOMAIN reg.idMap : reg.idMap[y] \in DOMAIN reg.vertexTable
      /\ u \in DOMAIN reg.idMap
  BY <1>1, Registration
<1> HIDE DEF reg
<1>4. reg = Registry \/ reg.gtChainDirty
  BY <1>1, <1>3
<1>5. /\ reg.idMap[u] \in DOMAIN reg.vertexTable
      /\ reg.idMap[v] \in DOMAIN reg.vertexTable
      /\ DOMAIN reg.vertexTable = Ids'
      /\ DOMAIN reg.vertexTable \subseteq Nat
  BY <1>2, <1>3, LenProperties DEF RegistryOK, TableOK, Adopt, Ids
<1>6. forward \in DirectedInsert /\ reverse \in DirectedInsert
  BY <1>5 DEF DirectedInsert
<1>7. CallsOK'
  <2>1. /\ forward.src \in Ids' /\ forward.dst \in Ids'
        /\ reverse.src \in Ids' /\ reverse.dst \in Ids'
    BY <1>5
  <2> HIDE DEF forward, reverse
  <2>2. CASE todo' = <<forward>>
    BY <1>6, <2>1, <2>2 DEF CallsOK
  <2>3. CASE todo' = <<forward, reverse>>
    BY <1>6, <2>1, <2>3 DEF CallsOK
  <2> QED BY <1>2, <2>2, <2>3
<1> QED BY <1>2, <1>3, <1>4, <1>7, CallIInv

\* The insertion at the head of todo concerns registered vertices.
LEMMA RunningInsertion ==
  ASSUME IInv, todo # << >>
  PROVE  /\ Insertion.src \in Ids
         /\ Source = vertexTable[Insertion.src]
         /\ EntryOK(Source)
         /\ AllKeys(Source.nodes) \subseteq Ids
         /\ NewEntry \in Entry
         /\ NewEntry.dst = Insertion.dst
         /\ NewEntry.dst \in Nat /\ NewEntry.dst \in Ids
         /\ Tail(todo) \in Seq(DirectedInsert)
         /\ Len(Tail(todo)) <= 2
         /\ \A k \in DOMAIN Tail(todo) :
               Tail(todo)[k].src \in Ids /\ Tail(todo)[k].dst \in Ids
<1>1. /\ todo \in Seq(DirectedInsert) /\ Len(todo) <= 2 /\ Len(todo) \in Nat
      /\ \A k \in 1 .. Len(todo) : todo[k].src \in Ids /\ todo[k].dst \in Ids
      /\ TableOK(vertexTable)
  BY RegistryState, LenProperties DEF IInv, CallsOK
<1>2. Len(todo) >= 1
  BY <1>1, EmptySeq
<1>3. /\ Insertion \in DirectedInsert
      /\ Insertion.src \in Ids /\ Insertion.dst \in Ids
  BY <1>1, <1>2, HeadTailProperties DEF Insertion
<1>4. EntryOK(Source) /\ AllKeys(Source.nodes) \subseteq Ids
  BY <1>1, <1>3 DEF Source, TableOK, Ids
<1>5. /\ NewEntry \in Entry /\ NewEntry.dst = Insertion.dst
      /\ Insertion.dst \in Nat
  BY <1>3 DEF DirectedInsert, NewEntry, Entry
<1>6. /\ Tail(todo) \in Seq(DirectedInsert)
      /\ Len(Tail(todo)) = Len(todo) - 1
      /\ \A k \in 1 .. Len(Tail(todo)) : Tail(todo)[k] = todo[k + 1]
      /\ DOMAIN Tail(todo) = 1 .. Len(Tail(todo))
  BY <1>1, HeadTailProperties, LenProperties
<1>7. /\ Len(Tail(todo)) <= 2
      /\ \A k \in DOMAIN Tail(todo) :
            Tail(todo)[k].src \in Ids /\ Tail(todo)[k].dst \in Ids
  BY <1>1, <1>6
<1>8. Source = vertexTable[Insertion.src]
  BY DEF Source
<1>9. NewEntry.dst \in Nat /\ NewEntry.dst \in Ids
  BY <1>3, <1>5
<1> QED BY <1>3, <1>4, <1>5, <1>6, <1>7, <1>8, <1>9

\* A slot that tryUpdateExisting compares equal.
LEMMA HitsAreSlots ==
  ASSUME NEW ve, EntryOK(ve), NEW d \in Nat, NEW p \in Hits(ve, d)
  PROVE  /\ p[1] \in 1 .. Len(ve.nodes)
         /\ p[2] \in 1 .. Len(ve.nodes[p[1]])
         /\ ve.nodes[p[1]][p[2]].dst = d
<1>1. ve.nodes \in Seq(Seq(Cell(Weight))) /\ ve.level \in Nat
  BY EntryTypes DEF EntryOK
<1> DEFINE scanned == IF ve.level = 0 THEN DOMAIN ve.nodes ELSE {Route(ve.nodes, d)}
           hitsIn(m) == {<<m, i>> : i \in {j \in DOMAIN ve.nodes[m] :
                                             ve.nodes[m][j].dst = d}}
<1>2. PICK m \in scanned : p \in hitsIn(m)
  BY DEF Hits
<1>3. PICK i \in DOMAIN ve.nodes[m] : p = <<m, i>> /\ ve.nodes[m][i].dst = d
  BY <1>2
<1>4. m \in 1 .. Len(ve.nodes)
  <2>1. CASE ve.level = 0
    BY <1>1, <1>2, <2>1, NodesTypes
  <2>2. CASE ve.level > 0
    <3>1. WellFormedChain(Weight, ve.nodes)
      BY <2>2 DEF EntryOK
    <3>2. m = Route(ve.nodes, d)
      BY <1>2, <2>2
    <3> QED BY <3>1, <3>2, RouteProperties
  <2> QED BY <1>1, <2>1, <2>2
<1>5. i \in 1 .. Len(ve.nodes[m])
  BY <1>1, <1>3, <1>4, NodesTypes
<1> QED BY <1>3, <1>4, <1>5

\* insertDirectedEdge marks the chain dirty and returns.
LEMMA ReturnIInv ==
  ASSUME IInv, Inserting, NEW ve, EntryOK(ve), AllKeys(ve.nodes) \subseteq Ids,
         vertexTable' = [vertexTable EXCEPT ![Insertion.src] = ve],
         InsertReturns, UNCHANGED <<registryVars, gtHead, bulk>>
  PROVE  IInv'
<1>1. /\ Insertion.src \in Ids
      /\ Tail(todo) \in Seq(DirectedInsert) /\ Len(Tail(todo)) <= 2
      /\ \A k \in DOMAIN Tail(todo) :
            Tail(todo)[k].src \in Ids /\ Tail(todo)[k].dst \in Ids
      /\ bulk = {}
  BY RunningInsertion DEF Inserting
<1>2. /\ reverseIdMap \in Seq(Vertex)
      /\ DOMAIN idMap = RangeOf(reverseIdMap)
      /\ \A i \in DOMAIN reverseIdMap : idMap[reverseIdMap[i]] = i
      /\ TableOK(vertexTable)
      /\ Len(vertexTable) = Len(reverseIdMap)
      /\ isDirected \in BOOLEAN /\ gtHead \in Pointer
  BY RegistryState DEF IInv
<1>3. /\ UNCHANGED <<isDirected, idMap, reverseIdMap, gtHead, bulk>>
      /\ gtChainDirty' = TRUE /\ todo' = Tail(todo)
  BY DEF registryVars, InsertReturns
<1>4. /\ TableOK(vertexTable') /\ Ids' = Ids
      /\ Len(vertexTable') = Len(vertexTable)
  <2>1. /\ Insertion.src \in DOMAIN vertexTable
        /\ AllKeys(ve.nodes) \subseteq DOMAIN vertexTable
    BY <1>1 DEF Ids
  <2>2. /\ TableOK(vertexTable')
        /\ DOMAIN vertexTable' = DOMAIN vertexTable
        /\ Len(vertexTable') = Len(vertexTable)
    BY <1>2, <2>1, ReplacedEntry
  <2> QED BY <2>2 DEF Ids
<1>5. RegistryOK(Registry)'
  BY <1>2, <1>3, <1>4 DEF RegistryOK, Registry
<1>6. CallsOK'
  BY <1>1, <1>3, <1>4 DEF CallsOK
<1>7. BulkOK'
  BY <1>1, <1>3 DEF BulkOK
<1>8. CleanChain'
  BY <1>3 DEF CleanChain
<1> QED BY <1>2, <1>3, <1>5, <1>6, <1>7, <1>8 DEF IInv

\* insertDirectedEdge on chunks.
LEMMA InsertIntoTailChunkIInv == IInv /\ InsertIntoTailChunk => IInv'
<1> SUFFICES ASSUME IInv, InsertIntoTailChunk PROVE IInv'
  OBVIOUS
<1> DEFINE ve == [Source EXCEPT
              !.nodes = [Source.nodes EXCEPT
                 ![Len(Source.nodes)] = InsertSorted(Source.nodes[Len(Source.nodes)], NewEntry)],
              !.size = Source.size + 1]
<1>1. /\ Inserting /\ Hits(Source, Insertion.dst) = {} /\ Source.level = 0
      /\ Len(Source.nodes) > 0 /\ ~Full(Source.nodes[Len(Source.nodes)])
      /\ InsertReturns /\ UNCHANGED <<registryVars, gtHead, bulk>>
  BY DEF InsertIntoTailChunk, InsertsNew, TailHasRoom, NumChunks
<1>2. /\ EntryOK(Source) /\ NewEntry \in Entry /\ NewEntry.dst = Insertion.dst
      /\ NewEntry.dst \in Nat /\ NewEntry.dst \in Ids
      /\ AllKeys(Source.nodes) \subseteq Ids /\ Insertion.src \in Ids
  BY <1>1, RunningInsertion DEF Inserting
<1>3. NewEntry.dst \notin AllKeys(Source.nodes)
  BY <1>1, <1>2, NoHitsMeansNew
<1>4. EntryOK(ve)
  BY <1>1, <1>2, <1>3, TailChunkEntryOK
<1>5. AllKeys(ve.nodes) = AllKeys(Source.nodes) \cup {NewEntry.dst}
  BY <1>1, <1>2, <1>3, TailChunkEntryOK
<1>6. vertexTable' = [vertexTable EXCEPT ![Insertion.src] = ve]
  BY DEF InsertIntoTailChunk, NumChunks, Source
<1> HIDE DEF ve
<1>7. AllKeys(ve.nodes) \subseteq Ids
  BY <1>2, <1>5
<1> QED BY <1>1, <1>4, <1>6, <1>7, ReturnIInv

LEMMA InsertIntoNewChunkIInv == IInv /\ InsertIntoNewChunk => IInv'
<1> SUFFICES ASSUME IInv, InsertIntoNewChunk PROVE IInv'
  OBVIOUS
<1> DEFINE ve == [Source EXCEPT !.nodes = Append(Source.nodes, <<NewEntry>>),
                                !.size = Source.size + 1,
                                !.gtNext = NullPointer]
<1>1. /\ Inserting /\ Hits(Source, Insertion.dst) = {} /\ Source.level = 0
      /\ Len(Source.nodes) > 0 => Full(Source.nodes[Len(Source.nodes)])
      /\ Len(Source.nodes) < SmallChunkPromotionThreshold
      /\ InsertReturns /\ UNCHANGED <<registryVars, gtHead, bulk>>
  BY DEF InsertIntoNewChunk, InsertsNew, TailHasRoom, NumChunks
<1>2. /\ EntryOK(Source) /\ NewEntry \in Entry /\ NewEntry.dst = Insertion.dst
      /\ NewEntry.dst \in Nat /\ NewEntry.dst \in Ids
      /\ AllKeys(Source.nodes) \subseteq Ids /\ Insertion.src \in Ids
  BY <1>1, RunningInsertion DEF Inserting
<1>3. NewEntry.dst \notin AllKeys(Source.nodes)
  BY <1>1, <1>2, NoHitsMeansNew
<1>4. EntryOK(ve)
  BY <1>1, <1>2, <1>3, NewChunkEntryOK
<1>5. AllKeys(ve.nodes) = AllKeys(Source.nodes) \cup {NewEntry.dst}
  BY <1>1, <1>2, <1>3, NewChunkEntryOK
<1>6. vertexTable' = [vertexTable EXCEPT ![Insertion.src] = ve]
  BY DEF InsertIntoNewChunk, Source
<1> HIDE DEF ve
<1>7. AllKeys(ve.nodes) \subseteq Ids
  BY <1>2, <1>5
<1> QED BY <1>1, <1>4, <1>6, <1>7, ReturnIInv

\* insertDirectedEdge on a tree.
LEMMA InsertIntoTreeIInv == IInv /\ InsertIntoTree => IInv'
<1> SUFFICES ASSUME IInv, InsertIntoTree PROVE IInv'
  OBVIOUS
<1> DEFINE ve == BPlusInsert(Source, NewEntry)
<1>1. /\ Inserting /\ Hits(Source, Insertion.dst) = {} /\ Source.level > 0
      /\ InsertReturns /\ UNCHANGED <<registryVars, gtHead, bulk>>
  BY DEF InsertIntoTree, InsertsNew
<1>2. /\ EntryOK(Source) /\ NewEntry \in Entry /\ NewEntry.dst = Insertion.dst
      /\ NewEntry.dst \in Nat /\ NewEntry.dst \in Ids
      /\ AllKeys(Source.nodes) \subseteq Ids /\ Insertion.src \in Ids
  BY <1>1, RunningInsertion DEF Inserting
<1>3. NewEntry.dst \notin AllKeys(Source.nodes)
  BY <1>1, <1>2, NoHitsMeansNew
<1>4. EntryOK(ve)
  BY <1>1, <1>2, <1>3, TreeEntryOK
<1>5. AllKeys(ve.nodes) = AllKeys(Source.nodes) \cup {NewEntry.dst}
  BY <1>1, <1>2, <1>3, TreeEntryOK
<1>6. vertexTable' = [vertexTable EXCEPT ![Insertion.src] = ve]
  BY DEF InsertIntoTree, Source
<1> HIDE DEF ve
<1>7. AllKeys(ve.nodes) \subseteq Ids
  BY <1>2, <1>5
<1> QED BY <1>1, <1>4, <1>6, <1>7, ReturnIInv

\* An overwritten weight leaves the chain as it is.
LEMMA UpdateExistingIInv == IInv /\ UpdateExisting => IInv'
<1> SUFFICES ASSUME IInv, UpdateExisting PROVE IInv'
  OBVIOUS
<1>1. /\ Inserting /\ bulk = {} /\ todo' = Tail(todo)
      /\ UNCHANGED <<isDirected, idMap, reverseIdMap, gtHead, gtChainDirty, bulk>>
  BY DEF UpdateExisting, Inserting, registryVars
<1>2. PICK p \in Hits(Source, Insertion.dst) :
         vertexTable' = [vertexTable EXCEPT ![Insertion.src].nodes[p[1]][p[2]] = NewEntry]
  BY DEF UpdateExisting
<1>3. /\ EntryOK(Source) /\ NewEntry \in Entry /\ NewEntry.dst = Insertion.dst
      /\ Insertion.dst \in Nat
      /\ AllKeys(Source.nodes) \subseteq Ids /\ Insertion.src \in Ids
      /\ Tail(todo) \in Seq(DirectedInsert) /\ Len(Tail(todo)) <= 2
      /\ \A k \in DOMAIN Tail(todo) :
            Tail(todo)[k].src \in Ids /\ Tail(todo)[k].dst \in Ids
  BY <1>1, RunningInsertion DEF Inserting
<1>4. /\ p[1] \in 1 .. Len(Source.nodes)
      /\ p[2] \in 1 .. Len(Source.nodes[p[1]])
      /\ Source.nodes[p[1]][p[2]].dst = NewEntry.dst
  BY <1>3, HitsAreSlots
<1> DEFINE row == p[1]
           slot == p[2]
           ve == Overwritten(Source, row, slot, NewEntry)
<1>7. vertexTable' = [vertexTable EXCEPT ![Insertion.src] = ve]
  BY <1>2 DEF Source, Overwritten
<1>14. /\ row \in 1 .. Len(Source.nodes)
       /\ slot \in 1 .. Len(Source.nodes[row])
       /\ Source.nodes[row][slot].dst = NewEntry.dst
  BY <1>4
<1> HIDE DEF row, slot
<1>15. /\ EntryOK(ve)
       /\ AllKeys(ve.nodes) = AllKeys(Source.nodes)
       /\ ve.size = Source.size /\ ve.level = Source.level
       /\ ve.gtNext = Source.gtNext
  <2>1. EntryOK(Source) /\ NewEntry \in Entry
    BY <1>3
  <2> QED BY <2>1, <1>14, OverwrittenEntryOK
<1>5. EntryOK(ve)
  BY <1>15
<1>6. AllKeys(ve.nodes) = AllKeys(Source.nodes)
  BY <1>15
<1> HIDE DEF ve
<1>8. /\ reverseIdMap \in Seq(Vertex)
      /\ DOMAIN idMap = RangeOf(reverseIdMap)
      /\ \A i \in DOMAIN reverseIdMap : idMap[reverseIdMap[i]] = i
      /\ TableOK(vertexTable)
      /\ Len(vertexTable) = Len(reverseIdMap)
      /\ gtChainDirty \in BOOLEAN
      /\ isDirected \in BOOLEAN /\ gtHead \in Pointer
  BY RegistryState DEF IInv
<1>9. /\ TableOK(vertexTable') /\ DOMAIN vertexTable' = DOMAIN vertexTable
      /\ Len(vertexTable') = Len(vertexTable)
      /\ vertexTable'[Insertion.src] = ve
      /\ \A i \in DOMAIN vertexTable :
            i # Insertion.src => vertexTable'[i] = vertexTable[i]
  <2>1. /\ Insertion.src \in DOMAIN vertexTable
        /\ AllKeys(ve.nodes) \subseteq DOMAIN vertexTable
    BY <1>3, <1>6 DEF Ids
  <2>2. EntryOK(ve) /\ TableOK(vertexTable)
    BY <1>5, <1>8
  <2>3. /\ TableOK(vertexTable') /\ DOMAIN vertexTable' = DOMAIN vertexTable
        /\ Len(vertexTable') = Len(vertexTable)
    <3> DEFINE after == [vertexTable EXCEPT ![Insertion.src] = ve]
    <3>1. /\ TableOK(after)
          /\ DOMAIN after = DOMAIN vertexTable
          /\ Len(after) = Len(vertexTable)
      BY <2>1, <2>2, ReplacedEntry
    <3> QED BY <1>7, <3>1
  <2>4. /\ vertexTable'[Insertion.src] = ve
        /\ \A i \in DOMAIN vertexTable :
              i # Insertion.src => vertexTable'[i] = vertexTable[i]
    BY <1>7, <2>1
  <2> QED BY <2>3, <2>4
<1>10. RegistryOK(Registry)'
  BY <1>1, <1>8, <1>9 DEF RegistryOK, Registry
<1>11. CallsOK'
  BY <1>1, <1>3, <1>9 DEF CallsOK, Ids
<1>12. BulkOK'
  BY <1>1 DEF BulkOK
<1>13. CleanChain'
  <2> SUFFICES ASSUME ~gtChainDirty
               PROVE  /\ gtHead = ChainAfter(vertexTable', 0)
                      /\ \A i \in Occupied(vertexTable') :
                            vertexTable'[i].gtNext = ChainAfter(vertexTable', i)
    BY <1>1 DEF CleanChain
  <2>1. \A i \in DOMAIN vertexTable :
           /\ vertexTable[i].size = vertexTable'[i].size
           /\ vertexTable[i].level = vertexTable'[i].level
           /\ vertexTable[i].gtNext = vertexTable'[i].gtNext
    BY <1>9, <1>15 DEF Source
  <2>2. DOMAIN vertexTable \subseteq Nat
    BY <1>8, LenProperties DEF TableOK
  <2>3. Occupied(vertexTable') = Occupied(vertexTable)
    BY <1>9, <2>1, <2>2, SameChain
  <2>4. \A i : ChainAfter(vertexTable', i) = ChainAfter(vertexTable, i)
    BY <1>9, <2>1, <2>2, SameChain
  <2>5. /\ gtHead = ChainAfter(vertexTable, 0)
        /\ \A i \in Occupied(vertexTable) :
              vertexTable[i].gtNext = ChainAfter(vertexTable, i)
    BY <1>1 DEF IInv, CleanChain
  <2> QED BY <2>1, <2>3, <2>4, <2>5 DEF Occupied
<1> QED BY <1>1, <1>8, <1>10, <1>11, <1>12, <1>13 DEF IInv

\* The items of a promotion: one per key, the new entry among them.
LEMMA PromotedItems ==
  ASSUME NEW items \in SUBSET Entry, NEW e \in items,
         \A f \in items : f.dst = e.dst => f = e
  PROVE  /\ LeastPerKey(items) \subseteq items
         /\ e \in LeastPerKey(items)
         /\ \A f, g \in LeastPerKey(items) : f.dst = g.dst => f = g
<1>1. \A f \in items : f.weight \in Nat /\ f.dst \in Nat
  BY WeightAssumption DEF Entry
<1>2. LeastPerKey(items) \subseteq items
  BY DEF LeastPerKey
<1>3. e \in LeastPerKey(items)
  BY <1>1 DEF LeastPerKey
<1>4. ASSUME NEW f \in LeastPerKey(items), NEW g \in LeastPerKey(items),
             f.dst = g.dst
      PROVE  f = g
  <2>1. f \in items /\ g \in items
    BY <1>2
  <2>2. f.weight <= g.weight /\ g.weight <= f.weight
    BY <1>4, <2>1 DEF LeastPerKey
  <2>3. f.weight = g.weight
    BY <1>1, <2>1, <2>2
  <2>4. f \in Entry /\ g \in Entry
    BY <2>1
  <2> QED BY <1>4, <2>3, <2>4 DEF Entry
<1> QED BY <1>2, <1>3, <1>4

\* promoteToBPlusTree starts with an empty leaf and a set of items.
LEMMA PromoteIInv == IInv /\ PromoteToBPlusTree => IInv'
<1> SUFFICES ASSUME IInv, PromoteToBPlusTree PROVE IInv'
  OBVIOUS
<1> DEFINE ve == [size |-> 0, level |-> 1, nodes |-> << << >> >>,
                  gtNext |-> NullPointer]
           items == AllEntries(Source.nodes) \cup {NewEntry}
<1>1. /\ Inserting /\ Hits(Source, Insertion.dst) = {} /\ Source.level = 0
      /\ bulk' = LeastPerKey(items)
      /\ vertexTable' = [vertexTable EXCEPT ![Insertion.src] = ve]
      /\ UNCHANGED <<isDirected, idMap, reverseIdMap, gtHead, gtChainDirty, todo>>
  BY DEF PromoteToBPlusTree, InsertsNew, registryVars
<1>2. /\ EntryOK(Source) /\ NewEntry \in Entry /\ NewEntry.dst = Insertion.dst
      /\ NewEntry.dst \in Nat /\ NewEntry.dst \in Ids
      /\ AllKeys(Source.nodes) \subseteq Ids /\ Insertion.src \in Ids
      /\ todo # << >>
  BY <1>1, RunningInsertion DEF Inserting
<1>3. /\ Source.nodes \in Seq(Seq(Cell(Weight)))
      /\ DOMAIN Source.nodes = 1 .. Len(Source.nodes)
      /\ \A n \in 1 .. Len(Source.nodes) :
            /\ DOMAIN Source.nodes[n] = 1 .. Len(Source.nodes[n])
            /\ \A i \in 1 .. Len(Source.nodes[n]) :
                  Source.nodes[n][i] \in Entry
  BY <1>2, EntryTypes, NodesTypes DEF EntryOK
<1>4. \A f \in AllEntries(Source.nodes) : f \in Entry /\ f.dst \in AllKeys(Source.nodes)
  BY <1>3 DEF AllEntries, AllKeys, RangeOf, Keys
<1>5. NewEntry.dst \notin AllKeys(Source.nodes)
  BY <1>1, <1>2, NoHitsMeansNew
<1>6. /\ items \in SUBSET Entry /\ NewEntry \in items
      /\ \A f \in items : f.dst = NewEntry.dst => f = NewEntry
      /\ \A f \in items : f.dst \in Ids
  BY <1>2, <1>4, <1>5
<1> HIDE DEF items
<1>7. /\ bulk' \subseteq items /\ NewEntry \in bulk'
      /\ \A f, g \in bulk' : f.dst = g.dst => f = g
  BY <1>1, <1>6, PromotedItems
<1>8. /\ ve.nodes \in Seq(Seq(Cell(Weight)))
      /\ Len(ve.nodes) = 1 /\ DOMAIN ve.nodes = {1}
      /\ ve.nodes[1] = << >> /\ DOMAIN ve.nodes[1] = {} /\ Len(ve.nodes[1]) = 0
      /\ ve.size = 0 /\ ve.level = 1
  OBVIOUS
<1>9. AllKeys(ve.nodes) = {}
  BY <1>8 DEF AllKeys, Keys
<1>10. ve \in VertexEntry
  BY <1>8, EntryTypes DEF VertexEntry
<1> HIDE DEF ve
<1>11. EntryOK(ve)
  <2>1. WellFormedChain(Weight, ve.nodes)
    BY <1>8, BPlusTreeOrderAssumption DEF WellFormedChain, AscendingChain, Ascending
  <2>2. IsFiniteSet(AllKeys(ve.nodes)) /\ ve.size = Cardinality(AllKeys(ve.nodes))
    BY <1>8, <1>9, FS_EmptySet
  <2> QED BY <1>8, <1>10, <2>1, <2>2 DEF EntryOK
<1>12. /\ reverseIdMap \in Seq(Vertex)
       /\ DOMAIN idMap = RangeOf(reverseIdMap)
       /\ \A i \in DOMAIN reverseIdMap : idMap[reverseIdMap[i]] = i
       /\ TableOK(vertexTable)
       /\ Len(vertexTable) = Len(reverseIdMap)
       /\ gtChainDirty \in BOOLEAN
       /\ isDirected \in BOOLEAN /\ gtHead \in Pointer
       /\ CallsOK
  BY RegistryState DEF IInv
<1>13. /\ TableOK(vertexTable') /\ Ids' = Ids
       /\ Len(vertexTable') = Len(vertexTable)
       /\ vertexTable'[Insertion.src] = ve
  <2>1. /\ Insertion.src \in DOMAIN vertexTable
        /\ AllKeys(ve.nodes) \subseteq DOMAIN vertexTable
    BY <1>2, <1>9 DEF Ids
  <2>2. /\ TableOK(vertexTable')
        /\ DOMAIN vertexTable' = DOMAIN vertexTable
        /\ Len(vertexTable') = Len(vertexTable)
        /\ vertexTable'[Insertion.src] = ve
    BY <1>1, <1>11, <1>12, <2>1, ReplacedEntry
  <2> QED BY <2>2 DEF Ids
<1>14. RegistryOK(Registry)'
  BY <1>1, <1>12, <1>13 DEF RegistryOK, Registry
<1>15. CallsOK'
  BY <1>1, <1>12, <1>13 DEF CallsOK
<1>16. BulkOK'
  <2>1. Source' = ve
    BY <1>1, <1>13 DEF Source, Insertion
  <2>2. /\ bulk' \subseteq Entry
        /\ \A e \in bulk' : e.dst \in Ids'
    BY <1>6, <1>7, <1>13
  <2> QED BY <1>1, <1>2, <1>7, <1>8, <1>9, <2>1, <2>2 DEF BulkOK
<1>17. CleanChain'
  BY <1>7 DEF CleanChain
<1> QED BY <1>1, <1>12, <1>14, <1>15, <1>16, <1>17 DEF IInv

\* One turn of the loop of promoteToBPlusTree; the last one returns.
LEMMA InsertPromotedItemIInv == IInv /\ InsertPromotedItem => IInv'
<1> SUFFICES ASSUME IInv, InsertPromotedItem PROVE IInv'
  OBVIOUS
<1>1. PICK e \in bulk :
         /\ bulk' = bulk \ {e}
         /\ vertexTable' = [vertexTable EXCEPT ![Insertion.src] = BPlusInsert(@, e)]
         /\ IF bulk' = {} THEN InsertReturns ELSE UNCHANGED <<gtChainDirty, todo>>
         /\ UNCHANGED <<isDirected, idMap, reverseIdMap, gtHead>>
  BY DEF InsertPromotedItem, registryVars
<1>2. /\ bulk # {} /\ todo # << >> /\ Source.level > 0
      /\ bulk \subseteq Entry
      /\ \A f \in bulk : f.dst \in Ids
      /\ \A f, g \in bulk : f.dst = g.dst => f = g
      /\ \A f \in bulk : f.dst \notin AllKeys(Source.nodes)
  BY DEF IInv, BulkOK
<1>3. /\ Insertion.src \in Ids
      /\ EntryOK(Source) /\ AllKeys(Source.nodes) \subseteq Ids
      /\ Tail(todo) \in Seq(DirectedInsert) /\ Len(Tail(todo)) <= 2
      /\ \A k \in DOMAIN Tail(todo) :
            Tail(todo)[k].src \in Ids /\ Tail(todo)[k].dst \in Ids
  BY <1>2, RunningInsertion
<1> DEFINE ve == BPlusInsert(Source, e)
<1>4. e \in Entry /\ e.dst \notin AllKeys(Source.nodes) /\ e.dst \in Ids
  BY <1>2
<1>5. EntryOK(ve) /\ ve.level > 0
  BY <1>2, <1>3, <1>4, TreeEntryOK
<1>6. AllKeys(ve.nodes) = AllKeys(Source.nodes) \cup {e.dst}
  BY <1>2, <1>3, <1>4, TreeEntryOK
<1>7. vertexTable' = [vertexTable EXCEPT ![Insertion.src] = ve]
  BY <1>1 DEF Source
<1> HIDE DEF ve
<1>8. /\ reverseIdMap \in Seq(Vertex)
      /\ DOMAIN idMap = RangeOf(reverseIdMap)
      /\ \A i \in DOMAIN reverseIdMap : idMap[reverseIdMap[i]] = i
      /\ TableOK(vertexTable)
      /\ Len(vertexTable) = Len(reverseIdMap)
      /\ gtChainDirty \in BOOLEAN
      /\ isDirected \in BOOLEAN /\ gtHead \in Pointer
      /\ CallsOK
  BY RegistryState DEF IInv
<1>9. /\ TableOK(vertexTable') /\ Ids' = Ids
      /\ Len(vertexTable') = Len(vertexTable)
      /\ vertexTable'[Insertion.src] = ve
  <2> DEFINE after == [vertexTable EXCEPT ![Insertion.src] = ve]
  <2>1. /\ Insertion.src \in DOMAIN vertexTable
        /\ AllKeys(ve.nodes) \subseteq DOMAIN vertexTable
    BY <1>3, <1>4, <1>6 DEF Ids
  <2>2. EntryOK(ve) /\ TableOK(vertexTable)
    BY <1>5, <1>8
  <2>3. /\ TableOK(after)
        /\ DOMAIN after = DOMAIN vertexTable
        /\ Len(after) = Len(vertexTable)
    BY <2>1, <2>2, ReplacedEntry
  <2>4. after[Insertion.src] = ve
    BY <2>1
  <2> QED BY <1>7, <2>3, <2>4 DEF Ids
<1>10. gtChainDirty' \in BOOLEAN /\ (todo' = todo \/ (bulk' = {} /\ todo' = Tail(todo)))
  BY <1>1, <1>8 DEF InsertReturns
<1>11. RegistryOK(Registry)'
  BY <1>1, <1>8, <1>9, <1>10 DEF RegistryOK, Registry
<1>12. CallsOK'
  <2>1. CASE todo' = todo
    BY <1>8, <1>9, <2>1 DEF CallsOK
  <2>2. CASE todo' = Tail(todo)
    BY <1>3, <1>9, <2>2 DEF CallsOK
  <2> QED BY <1>10, <2>1, <2>2
<1>13. BulkOK'
  <2>1. /\ bulk' \subseteq Entry
        /\ \A f \in bulk' : f.dst \in Ids'
        /\ \A f, g \in bulk' : f.dst = g.dst => f = g
    BY <1>1, <1>2, <1>9
  <2>2. ASSUME bulk' # {}
        PROVE  /\ todo' # << >> /\ Source'.level > 0
               /\ \A f \in bulk' : f.dst \notin AllKeys(Source'.nodes)
    <3>1. todo' = todo /\ Source' = ve
      BY <1>1, <1>9, <2>2 DEF Source, Insertion
    <3>2. \A f \in bulk' : f \in bulk /\ f.dst # e.dst
      BY <1>1, <1>2
    <3> QED BY <1>2, <1>5, <1>6, <3>1, <3>2
  <2> QED BY <2>1, <2>2 DEF BulkOK
<1>14. CleanChain'
  BY <1>1 DEF CleanChain, InsertReturns
<1> QED BY <1>1, <1>8, <1>11, <1>12, <1>13, <1>14 DEF IInv

\* rebuildGTChain changes only links, and leaves a chain that is clean.
LEMMA TraverseIInv == IInv /\ TraverseEntireGraph => IInv'
<1> SUFFICES ASSUME IInv, TraverseEntireGraph PROVE IInv'
  OBVIOUS
<1> DEFINE linked(i) == [vertexTable[i] EXCEPT !.gtNext = ChainAfter(vertexTable, i)]
<1>1. /\ todo = << >> /\ gtHead' = ChainAfter(vertexTable, 0)
      /\ vertexTable' = [i \in DOMAIN vertexTable |->
            IF i \in Occupied(vertexTable) THEN linked(i) ELSE vertexTable[i]]
      /\ gtChainDirty' = FALSE
      /\ UNCHANGED <<isDirected, idMap, reverseIdMap, todo, bulk>>
  BY DEF TraverseEntireGraph, registryVars, Ids
<1>2. /\ reverseIdMap \in Seq(Vertex)
      /\ DOMAIN idMap = RangeOf(reverseIdMap)
      /\ \A i \in DOMAIN reverseIdMap : idMap[reverseIdMap[i]] = i
      /\ TableOK(vertexTable)
      /\ Len(vertexTable) = Len(reverseIdMap)
      /\ isDirected \in BOOLEAN /\ CallsOK /\ bulk = {}
  BY <1>1, RegistryState DEF IInv, BulkOK
<1>3. /\ vertexTable \in Seq(VertexEntry) /\ Len(vertexTable) \in Nat
      /\ DOMAIN vertexTable = 1 .. Len(vertexTable)
      /\ \A i \in DOMAIN vertexTable :
            /\ EntryOK(vertexTable[i]) /\ vertexTable[i] \in VertexEntry
            /\ AllKeys(vertexTable[i].nodes) \subseteq DOMAIN vertexTable
  BY <1>2, LenProperties DEF TableOK, EntryOK
<1>4. \A i \in Nat : ChainAfter(vertexTable, i) \in Pointer
  BY <1>3, ChainAfterProperties
<1>5. ASSUME NEW i \in DOMAIN vertexTable
      PROVE  /\ linked(i) \in VertexEntry
             /\ linked(i).size = vertexTable[i].size
             /\ linked(i).level = vertexTable[i].level
             /\ linked(i).nodes = vertexTable[i].nodes
             /\ linked(i).gtNext = ChainAfter(vertexTable, i)
  <2>1. /\ vertexTable[i] \in [size : Nat, level : Nat, nodes : Seq(Seq(Entry)),
                              gtNext : Pointer]
        /\ ChainAfter(vertexTable, i) \in Pointer
    BY <1>3, <1>4 DEF VertexEntry
  <2>2. linked(i) \in VertexEntry
    BY <2>1 DEF VertexEntry
  <2> QED BY <2>1, <2>2
<1> HIDE DEF linked
<1>6. /\ DOMAIN vertexTable' = DOMAIN vertexTable
      /\ \A i \in DOMAIN vertexTable :
            /\ vertexTable'[i] \in VertexEntry
            /\ vertexTable'[i].size = vertexTable[i].size
            /\ vertexTable'[i].level = vertexTable[i].level
            /\ vertexTable'[i].nodes = vertexTable[i].nodes
            /\ i \in Occupied(vertexTable) =>
                  vertexTable'[i].gtNext = ChainAfter(vertexTable, i)
  BY <1>1, <1>3, <1>5
<1>7. vertexTable' \in Seq(VertexEntry) /\ Len(vertexTable') = Len(vertexTable)
  <2>1. vertexTable' = [i \in 1 .. Len(vertexTable) |-> vertexTable'[i]]
    BY <1>1, <1>3
  <2> QED BY <1>3, <1>6, <2>1
<1>8. TableOK(vertexTable')
  <2>1. \A i \in DOMAIN vertexTable : EntryOK(vertexTable'[i])
    BY <1>3, <1>6 DEF EntryOK
  <2> QED BY <1>3, <1>6, <1>7, <2>1 DEF TableOK
<1>9. RegistryOK(Registry)'
  BY <1>1, <1>2, <1>7, <1>8 DEF RegistryOK, Registry
<1>10. CallsOK'
  BY <1>1, <1>2, <1>6 DEF CallsOK, Ids
<1>11. BulkOK'
  BY <1>1, <1>2 DEF BulkOK
<1>12. gtHead' \in Pointer
  BY <1>1, <1>4
<1>13. CleanChain'
  <2>1. DOMAIN vertexTable \subseteq Nat
    BY <1>3
  <2>2. Occupied(vertexTable') = Occupied(vertexTable)
    BY <1>6, <2>1, SameChain
  <2>3. \A i : ChainAfter(vertexTable', i) = ChainAfter(vertexTable, i)
    BY <1>6, <2>1, SameChain
  <2> QED BY <1>1, <1>6, <2>2, <2>3 DEF CleanChain, Occupied
<1> QED BY <1>1, <1>2, <1>9, <1>10, <1>11, <1>12, <1>13 DEF IInv

LEMMA NextIInv == IInv /\ [Next]_vars => IInv'
<1> SUFFICES ASSUME IInv, [Next]_vars PROVE IInv'
  OBVIOUS
<1>1. ASSUME NEW x \in VertexCalls, AddVertex(x) PROVE IInv'
  BY <1>1, CallsAssumption, AddVertexIInv
<1>2. ASSUME NEW c \in EdgeCalls, AddEdge(c[1], c[2], c[3]) PROVE IInv'
  <2>1. c[1] \in Vertex /\ c[2] \in Vertex /\ c[3] \in Weight
    BY CallsAssumption
  <2> QED BY <1>2, <2>1, AddEdgeIInv
<1>3. CASE InsertDirectedEdge
  BY <1>3, UpdateExistingIInv, InsertIntoTailChunkIInv, InsertIntoNewChunkIInv,
     PromoteIInv, InsertPromotedItemIInv, InsertIntoTreeIInv DEF InsertDirectedEdge
<1>4. CASE TraverseEntireGraph
  BY <1>4, TraverseIInv
<1>5. CASE UNCHANGED vars
  BY <1>5 DEF vars, IInv, RegistryOK, Registry, CallsOK, BulkOK, CleanChain, Ids,
              Source, Insertion
<1> QED BY <1>1, <1>2, <1>3, <1>4, <1>5 DEF Next

-----------------------------------------------------------------------------
(* The theorems.                                                           *)

\* The shape of the structure is kept by every sequence of calls.
THEOREM GraphInvariant == Spec => []IInv
BY InitIInv, NextIInv, PTL DEF Spec

\* No id kept in a node, a chain pointer or a pending insertion is one of an
\* unregistered vertex, so that no access to vertexTable or reverseIdMap is
\* out of bounds, and idMap and reverseIdMap stay inverse to each other.
THEOREM TypeCorrect == Spec => []TypeOK
<1>1. IInv => TypeOK
  BY RegistryState, LenProperties DEF IInv, TypeOK, CallsOK, BulkOK, TableOK, Ids
<1> QED BY <1>1, GraphInvariant, PTL

\* A chain that traverseEntireGraph does not rebuild is the one a rebuild
\* would make: every operation that changes which vertices have edges, or in
\* what kind of node they are stored, marks the chain dirty before it returns.
THEOREM ChainIsCurrent == Spec => []CleanChain
<1>1. IInv => CleanChain
  BY DEF IInv
<1> QED BY <1>1, GraphInvariant, PTL

\* Chunks and leaves keep the order and the fill that the binary searches,
\* the descents and the choice of the chunk to insert into rely on.
THEOREM NodesStayWellFormed == Spec => []NodesWellFormed
<1>1. IInv => NodesWellFormed
  <2> SUFFICES ASSUME IInv, NEW i \in Ids
               PROVE  LET ve == vertexTable[i]
                          nodes == ve.nodes
                      IN  IF ve.level = 0
                            THEN /\ Len(nodes) <= SmallChunkPromotionThreshold
                                 /\ \A n \in DOMAIN nodes :
                                       /\ Ascending(nodes[n])
                                       /\ Len(nodes[n]) \in 1 .. SmallChunkCapacity
                                       /\ n < Len(nodes) => Full(nodes[n])
                            ELSE /\ ve.level = Len(nodes)
                                 /\ AscendingChain(nodes)
                                 /\ \A n \in DOMAIN nodes :
                                       /\ Len(nodes[n]) < BPlusTreeOrder
                                       /\ Len(nodes) > 1 => nodes[n] # << >>
    BY DEF NodesWellFormed
  <2>1. EntryOK(vertexTable[i])
    BY RegistryState DEF IInv, TableOK, Ids
  <2>2. /\ vertexTable[i].level \in Nat
        /\ DOMAIN vertexTable[i].nodes = 1 .. Len(vertexTable[i].nodes)
    BY <2>1, EntryTypes, NodesTypes DEF EntryOK
  <2>3. CASE vertexTable[i].level = 0
    BY <2>1, <2>2, <2>3 DEF EntryOK, Chunks
  <2>4. CASE vertexTable[i].level > 0
    BY <2>1, <2>2, <2>4 DEF EntryOK, WellFormedChain
  <2> QED BY <2>2, <2>3, <2>4
<1> QED BY <1>1, GraphInvariant, PTL

-----------------------------------------------------------------------------
(* What the nodes contain.                                                 *)

\* No key is in two nodes.
DisjointNodes(nodes) ==
  \A m, n \in 1 .. Len(nodes) : m # n => Keys(nodes[m]) \cap Keys(nodes[n]) = {}

\* The most entries that chunks hold.
ChunkRoom == SmallChunkCapacity * SmallChunkPromotionThreshold

\* The items a running promotion still has to insert into the tree of i.
Outstanding(i) ==
  IF bulk # {} /\ i = Insertion.src THEN Cardinality(bulk) ELSE 0

UniqueInv ==
  /\ \A i \in Ids : DisjointNodes(vertexTable[i].nodes)
  /\ \A k, l \in DOMAIN todo : k # l => todo[k].src # todo[l].src
  /\ IsFiniteSet(bulk)
  /\ \A i \in Ids : vertexTable[i].level > 0 =>
        vertexTable[i].size + Outstanding(i) > ChunkRoom

-----------------------------------------------------------------------------
(* The entries of one vertex.                                              *)

\* The keys are those of the entries.
LEMMA KeysOfEntries ==
  \A nodes : AllKeys(nodes) = {e.dst : e \in AllEntries(nodes)}
BY DEF AllKeys, AllEntries, Keys, RangeOf

\* What is stored at a slot.
LEMMA EntriesInNodes ==
  ASSUME NEW nodes \in Seq(Seq(Cell(Weight)))
  PROVE  /\ \A n \in 1 .. Len(nodes) : \A i \in 1 .. Len(nodes[n]) :
               /\ nodes[n][i] \in AllEntries(nodes)
               /\ nodes[n][i].dst \in Keys(nodes[n])
         /\ \A e \in AllEntries(nodes) :
               /\ e \in Entry
               /\ \E n \in 1 .. Len(nodes) : \E i \in 1 .. Len(nodes[n]) :
                     e = nodes[n][i]
<1>1. /\ DOMAIN nodes = 1 .. Len(nodes)
      /\ \A n \in 1 .. Len(nodes) :
            /\ DOMAIN nodes[n] = 1 .. Len(nodes[n])
            /\ \A i \in 1 .. Len(nodes[n]) : nodes[n][i] \in Entry
  BY NodesTypes, EntryTypes
<1>2. \A n \in 1 .. Len(nodes) : \A i \in 1 .. Len(nodes[n]) :
         /\ nodes[n][i] \in RangeOf(nodes[n])
         /\ nodes[n][i].dst \in Keys(nodes[n])
  BY <1>1 DEF RangeOf, Keys
<1>3. AllEntries(nodes) = UNION {RangeOf(nodes[n]) : n \in 1 .. Len(nodes)}
  BY <1>1 DEF AllEntries
<1>4. ASSUME NEW e \in AllEntries(nodes)
      PROVE  /\ e \in Entry
             /\ \E n \in 1 .. Len(nodes) : \E i \in 1 .. Len(nodes[n]) : e = nodes[n][i]
  <2>1. PICK n \in 1 .. Len(nodes) : e \in RangeOf(nodes[n])
    BY <1>3
  <2>2. PICK i \in 1 .. Len(nodes[n]) : e = nodes[n][i]
    BY <1>1, <2>1 DEF RangeOf
  <2> QED BY <1>1, <2>2
<1> QED BY <1>2, <1>3, <1>4

\* The nodes of a vertex, in either representation.
LEMMA EntryNodes ==
  ASSUME NEW ve, EntryOK(ve)
  PROVE  /\ ve.nodes \in Seq(Seq(Cell(Weight)))
         /\ ve.size \in Nat /\ ve.level \in Nat
         /\ \A n \in 1 .. Len(ve.nodes) : Ascending(ve.nodes[n])
         /\ ve.level > 0 => DisjointNodes(ve.nodes)
<1>1. /\ ve.nodes \in Seq(Seq(Cell(Weight)))
      /\ ve.size \in Nat /\ ve.level \in Nat
  BY EntryTypes DEF EntryOK
<1>2. CASE ve.level = 0
  BY <1>1, <1>2 DEF EntryOK, Chunks
<1>3. CASE ve.level > 0
  <2> DEFINE nodes == ve.nodes
  <2>1. WellFormedChain(Weight, nodes)
    BY <1>3 DEF EntryOK
  <2>2. nodes \in Seq(Seq(Cell(Weight)))
    BY <1>1
  <2> HIDE DEF nodes
  <2>3. /\ \A n \in 1 .. Len(nodes) : Ascending(nodes[n])
        /\ \A m, n \in 1 .. Len(nodes) : m < n =>
              \A k \in Keys(nodes[m]), l \in Keys(nodes[n]) : k < l
    BY <2>1, <2>2, ChainByKeys DEF WellFormedChain
  <2>4. \A n \in 1 .. Len(nodes) : Keys(nodes[n]) \subseteq Nat
    BY <2>1, ChainProperties
  <2>5. ASSUME NEW m \in 1 .. Len(nodes), NEW n \in 1 .. Len(nodes), m # n,
               NEW k \in Keys(nodes[m]), k \in Keys(nodes[n])
        PROVE  FALSE
    <3>1. k \in Nat /\ Len(nodes) \in Nat
      BY <2>1, <2>4, ChainProperties
    <3>2. m < n \/ n < m
      BY <2>5, <3>1
    <3> QED BY <2>3, <2>5, <3>1, <3>2
  <2>6. DisjointNodes(nodes)
    BY <2>5 DEF DisjointNodes
  <2> QED BY <1>1, <2>3, <2>6 DEF nodes
<1> QED BY <1>1, <1>2, <1>3

IsSlot(nodes, n, i) == n \in 1 .. Len(nodes) /\ i \in 1 .. Len(nodes[n])

\* A key is at one slot, and so in one entry.
LEMMA OneSlotPerKey ==
  ASSUME NEW ve, EntryOK(ve), DisjointNodes(ve.nodes)
  PROVE  \A m, i, n, j :
            IsSlot(ve.nodes, m, i) /\ IsSlot(ve.nodes, n, j)
              /\ ve.nodes[m][i].dst = ve.nodes[n][j].dst => m = n /\ i = j
<1> SUFFICES ASSUME NEW m \in 1 .. Len(ve.nodes), NEW n \in 1 .. Len(ve.nodes),
                    NEW i \in 1 .. Len(ve.nodes[m]), NEW j \in 1 .. Len(ve.nodes[n]),
                    ve.nodes[m][i].dst = ve.nodes[n][j].dst
             PROVE  m = n /\ i = j
  BY DEF IsSlot
<1> DEFINE nodes == ve.nodes
<1>1. /\ nodes \in Seq(Seq(Cell(Weight)))
      /\ Ascending(nodes[m])
      /\ DisjointNodes(nodes)
      /\ nodes[m][i].dst = nodes[n][j].dst
      /\ m \in 1 .. Len(nodes) /\ n \in 1 .. Len(nodes)
      /\ i \in 1 .. Len(nodes[m]) /\ j \in 1 .. Len(nodes[n])
  BY EntryNodes
<1> HIDE DEF nodes
<1>2. /\ nodes[m][i].dst \in Keys(nodes[m])
      /\ nodes[n][j].dst \in Keys(nodes[n])
  BY <1>1, EntriesInNodes
<1>3. m = n
  BY <1>1, <1>2 DEF DisjointNodes
<1>4. /\ DOMAIN nodes[m] = 1 .. Len(nodes[m]) /\ Len(nodes[m]) \in Nat
      /\ \A k \in 1 .. Len(nodes[m]) : nodes[m][k] \in Cell(Weight)
  BY <1>1, NodesTypes
<1>5. \A k \in 1 .. Len(nodes[m]) : nodes[m][k].dst \in Nat
  BY <1>4 DEF Cell
<1>6. /\ j \in 1 .. Len(nodes[m])
      /\ nodes[m][i].dst = nodes[m][j].dst
      /\ i \in 1 .. Len(nodes[m])
  BY <1>1, <1>3
<1>7. \A k, l \in 1 .. Len(nodes[m]) : k < l => nodes[m][k].dst < nodes[m][l].dst
  BY <1>1, <1>4 DEF Ascending
<1>8. ~(i < j) /\ ~(j < i)
  BY <1>5, <1>6, <1>7
<1> QED BY <1>3, <1>4, <1>6, <1>8

LEMMA OneEntryPerKey ==
  ASSUME NEW ve, EntryOK(ve), DisjointNodes(ve.nodes),
         NEW e \in AllEntries(ve.nodes), NEW f \in AllEntries(ve.nodes),
         e.dst = f.dst
  PROVE  e = f
<1>1. ve.nodes \in Seq(Seq(Cell(Weight)))
  BY EntryNodes
<1>2. PICK m \in 1 .. Len(ve.nodes) : \E i \in 1 .. Len(ve.nodes[m]) :
              e = ve.nodes[m][i]
  BY <1>1, EntriesInNodes
<1>3. PICK i \in 1 .. Len(ve.nodes[m]) : e = ve.nodes[m][i]
  BY <1>2
<1>4. PICK n \in 1 .. Len(ve.nodes) : \E j \in 1 .. Len(ve.nodes[n]) :
              f = ve.nodes[n][j]
  BY <1>1, EntriesInNodes
<1>5. PICK j \in 1 .. Len(ve.nodes[n]) : f = ve.nodes[n][j]
  BY <1>4
<1>6. /\ IsSlot(ve.nodes, m, i) /\ IsSlot(ve.nodes, n, j)
      /\ ve.nodes[m][i].dst = ve.nodes[n][j].dst
  BY <1>3, <1>5 DEF IsSlot
<1>7. m = n /\ i = j
  BY <1>6, OneSlotPerKey
<1> QED BY <1>3, <1>5, <1>7

\* An entry with a new key goes to the last chunk.
LEMMA TailChunkStores ==
  ASSUME NEW nodes \in Seq(Seq(Cell(Weight))), DisjointNodes(nodes), Len(nodes) > 0,
         NEW e \in Entry, e.dst \notin AllKeys(nodes)
  PROVE  LET grown == [nodes EXCEPT ![Len(nodes)] = InsertSorted(nodes[Len(nodes)], e)]
         IN  /\ DisjointNodes(grown)
             /\ AllEntries(grown) = AllEntries(nodes) \cup {e}
<1> DEFINE last == Len(nodes)
           chunk == InsertSorted(nodes[last], e)
           grown == [nodes EXCEPT ![last] = chunk]
<1>1. /\ last \in Nat /\ last \in 1 .. last /\ Len(nodes) = last
      /\ DOMAIN nodes = 1 .. last
      /\ \A n \in 1 .. last : nodes[n] \in Seq(Cell(Weight))
      /\ nodes[last] \in Seq(Cell(Weight))
      /\ e \in Cell(Weight)
  BY NodesTypes, EntryTypes
<1> HIDE DEF last
<1>2. /\ chunk \in Seq(Cell(Weight))
      /\ RangeOf(chunk) = RangeOf(nodes[last]) \cup {e}
      /\ Keys(chunk) = Keys(nodes[last]) \cup {e.dst}
  <2>1. chunk \in Seq(Cell(Weight))
    BY <1>1, InsertSortedProperties
  <2>2. RangeOf(chunk) = RangeOf(nodes[last]) \cup {e}
    BY <1>1, InsertSortedProperties
  <2>3. Keys(chunk) = Keys(nodes[last]) \cup {e.dst}
    BY <1>1, InsertSortedProperties
  <2> QED BY <2>1, <2>2, <2>3
<1> HIDE DEF chunk
<1>3. /\ grown \in Seq(Seq(Cell(Weight)))
      /\ Len(grown) = last
      /\ grown[last] = chunk
      /\ \A n \in 1 .. last : n # last => grown[n] = nodes[n]
  BY <1>1, <1>2, ExceptSeq
<1>4. DOMAIN grown = 1 .. last
  BY <1>1
<1> HIDE DEF grown
<1>5. \A n \in 1 .. last : e.dst \notin Keys(nodes[n])
  BY <1>1 DEF AllKeys
<1>6. ASSUME NEW m \in 1 .. last, NEW n \in 1 .. last, m # n
      PROVE  Keys(grown[m]) \cap Keys(grown[n]) = {}
  <2>1. Keys(nodes[m]) \cap Keys(nodes[n]) = {}
    BY <1>1, <1>6 DEF DisjointNodes
  <2>2. CASE m = last
    BY <1>2, <1>3, <1>5, <1>6, <2>1, <2>2
  <2>3. CASE n = last
    BY <1>2, <1>3, <1>5, <1>6, <2>1, <2>3
  <2>4. CASE m # last /\ n # last
    BY <1>3, <2>1, <2>4
  <2> QED BY <2>2, <2>3, <2>4
<1>7. DisjointNodes(grown)
  BY <1>3, <1>6 DEF DisjointNodes
<1>8. AllEntries(grown) = AllEntries(nodes) \cup {e}
  <2>1. AllEntries(nodes) = UNION {RangeOf(nodes[n]) : n \in 1 .. last}
    BY <1>1 DEF AllEntries
  <2>2. AllEntries(grown) = UNION {RangeOf(grown[n]) : n \in 1 .. last}
    BY <1>4 DEF AllEntries
  <2>3. \A n \in 1 .. last : RangeOf(grown[n]) =
           IF n = last THEN RangeOf(nodes[n]) \cup {e} ELSE RangeOf(nodes[n])
    BY <1>2, <1>3
  <2>4. ASSUME NEW f \in AllEntries(grown), f # e
        PROVE  f \in AllEntries(nodes)
    <3>1. PICK n \in 1 .. last : f \in RangeOf(grown[n])
      BY <2>2
    <3>2. f \in RangeOf(nodes[n])
      BY <2>3, <2>4, <3>1
    <3> QED BY <2>1, <3>2
  <2>5. AllEntries(nodes) \subseteq AllEntries(grown)
    BY <2>1, <2>2, <2>3
  <2>6. e \in RangeOf(grown[last])
    BY <1>1, <2>3
  <2>7. e \in AllEntries(grown)
    BY <1>1, <2>2, <2>6
  <2> QED BY <2>4, <2>5, <2>7
<1> QED BY <1>7, <1>8 DEF grown, chunk, last

\* An entry with a new key gets a chunk of its own.
LEMMA NewChunkStores ==
  ASSUME NEW nodes \in Seq(Seq(Cell(Weight))), DisjointNodes(nodes),
         NEW e \in Entry, e.dst \notin AllKeys(nodes)
  PROVE  /\ DisjointNodes(Append(nodes, <<e>>))
         /\ AllEntries(Append(nodes, <<e>>)) = AllEntries(nodes) \cup {e}
<1> DEFINE last == Len(nodes) + 1
           chunk == <<e>>
           grown == Append(nodes, chunk)
<1>1. /\ Len(nodes) \in Nat /\ last \in Nat /\ last \notin 1 .. Len(nodes)
      /\ 1 .. last = (1 .. Len(nodes)) \cup {last}
      /\ DOMAIN nodes = 1 .. Len(nodes)
      /\ e \in Cell(Weight)
  BY NodesTypes, EntryTypes
<1>2. /\ chunk \in Seq(Cell(Weight))
      /\ RangeOf(chunk) = {e} /\ Keys(chunk) = {e.dst}
  BY <1>1 DEF RangeOf, Keys
<1> HIDE DEF chunk
<1>3. /\ grown \in Seq(Seq(Cell(Weight)))
      /\ Len(grown) = last
      /\ grown[last] = chunk
      /\ \A n \in 1 .. Len(nodes) : grown[n] = nodes[n]
  BY <1>2, AppendProperties
<1> HIDE DEF grown
<1>4. DOMAIN grown = 1 .. last
  BY <1>3, NodesTypes
<1> HIDE DEF last
<1>5. \A n \in 1 .. Len(nodes) : e.dst \notin Keys(nodes[n])
  BY <1>1 DEF AllKeys
<1>6. ASSUME NEW m \in 1 .. last, NEW n \in 1 .. last, m # n
      PROVE  Keys(grown[m]) \cap Keys(grown[n]) = {}
  <2>1. CASE m = last
    <3>1. n \in 1 .. Len(nodes)
      BY <1>1, <1>6, <2>1
    <3>2. Keys(grown[m]) = {e.dst} /\ Keys(grown[n]) = Keys(nodes[n])
      BY <1>2, <1>3, <2>1, <3>1
    <3> QED BY <1>5, <3>1, <3>2
  <2>2. CASE n = last
    <3>1. m \in 1 .. Len(nodes)
      BY <1>1, <1>6, <2>2
    <3>2. Keys(grown[n]) = {e.dst} /\ Keys(grown[m]) = Keys(nodes[m])
      BY <1>2, <1>3, <2>2, <3>1
    <3> QED BY <1>5, <3>1, <3>2
  <2>3. CASE m # last /\ n # last
    BY <1>1, <1>3, <1>6, <2>3 DEF DisjointNodes
  <2> QED BY <2>1, <2>2, <2>3
<1>7. DisjointNodes(grown)
  BY <1>3, <1>6 DEF DisjointNodes
<1>8. AllEntries(grown) = AllEntries(nodes) \cup {e}
  <2>1. AllEntries(nodes) = UNION {RangeOf(nodes[n]) : n \in 1 .. Len(nodes)}
    BY <1>1 DEF AllEntries
  <2>2. AllEntries(grown) = UNION {RangeOf(grown[n]) : n \in 1 .. last}
    BY <1>4 DEF AllEntries
  <2>3. \A n \in 1 .. Len(nodes) : RangeOf(grown[n]) = RangeOf(nodes[n])
    BY <1>3
  <2>4. RangeOf(grown[last]) = {e}
    BY <1>2, <1>3
  <2>5. 1 .. last = 1 .. Len(nodes) \cup {last} /\ last \notin 1 .. Len(nodes)
    BY <1>1
  <2>6. ASSUME NEW f
        PROVE  f \in AllEntries(grown) <=> f \in AllEntries(nodes) \/ f = e
    <3>1. f \in AllEntries(grown) <=> \E n \in 1 .. last : f \in RangeOf(grown[n])
      BY <2>2
    <3>2. f \in AllEntries(nodes) <=> \E n \in 1 .. Len(nodes) : f \in RangeOf(grown[n])
      BY <2>1, <2>3
    <3> QED BY <2>4, <2>5, <3>1, <3>2
  <2> QED BY <2>6
<1> QED BY <1>7, <1>8 DEF grown, chunk

\* An entry with a new key goes to the leaf that the descent reaches.
LEMMA TreeStores ==
  ASSUME NEW ve, EntryOK(ve), ve.level > 0, NEW e \in Entry,
         e.dst \notin AllKeys(ve.nodes)
  PROVE  LET new == BPlusInsert(ve, e)
         IN  /\ DisjointNodes(new.nodes)
             /\ AllEntries(new.nodes) = AllEntries(ve.nodes) \cup {e}
             /\ new.size = ve.size + 1
<1> DEFINE nodes == ve.nodes
           new == BPlusInsert(ve, e)
           grown == InsertIntoLeaf(nodes, Route(nodes, e.dst), e)
<1>1. EntryOK(new) /\ new.level > 0
  BY TreeEntryOK
<1>2. DisjointNodes(new.nodes)
  <2> HIDE DEF new
  <2> QED BY <1>1, EntryNodes
<1>3. WellFormedChain(Weight, nodes) /\ e \in Cell(Weight) /\ e.dst \notin AllKeys(nodes)
  BY EntryTypes DEF EntryOK
<1>4. new.nodes = grown /\ new.size = ve.size + 1
  BY DEF BPlusInsert
<1> HIDE DEF nodes
<1>5. AllEntries(grown) = AllEntries(nodes) \cup {e}
  BY <1>3, InsertWithoutSplit, InsertWithSplit
<1> HIDE DEF grown, new
<1>6. AllEntries(new.nodes) = AllEntries(nodes) \cup {e}
  BY <1>4, <1>5
<1> QED BY <1>2, <1>4, <1>6 DEF nodes, new

\* The new weight takes the place of the old one.
LEMMA OverwrittenStores ==
  ASSUME NEW ve, EntryOK(ve), DisjointNodes(ve.nodes), NEW e \in Entry,
         NEW n \in 1 .. Len(ve.nodes), NEW i \in 1 .. Len(ve.nodes[n]),
         ve.nodes[n][i].dst = e.dst
  PROVE  LET new == Overwritten(ve, n, i, e)
         IN  /\ DisjointNodes(new.nodes)
             /\ AllEntries(new.nodes) =
                   {f \in AllEntries(ve.nodes) : f.dst # e.dst} \cup {e}
<1> DEFINE new == Overwritten(ve, n, i, e)
           nodes == ve.nodes
           node == [nodes[n] EXCEPT ![i] = e]
           after == [nodes EXCEPT ![n] = node]
<1>1. /\ nodes \in Seq(Seq(Cell(Weight)))
      /\ e \in Cell(Weight)
      /\ \A m \in 1 .. Len(nodes) : nodes[m] \in Seq(Cell(Weight))
  BY EntryNodes, EntryTypes, NodesTypes
<1>2. /\ n \in 1 .. Len(nodes) /\ i \in 1 .. Len(nodes[n])
      /\ nodes[n][i].dst = e.dst
      /\ DisjointNodes(nodes)
  OBVIOUS
<1>3. \A m \in 1 .. Len(nodes) : \A j \in 1 .. Len(nodes[m]) :
         nodes[m][j].dst = e.dst => m = n /\ j = i
  <2>1. \A m, j : IsSlot(nodes, m, j) /\ IsSlot(nodes, n, i)
                     /\ nodes[m][j].dst = nodes[n][i].dst => m = n /\ j = i
    BY OneSlotPerKey
  <2> HIDE DEF nodes
  <2> QED BY <1>2, <2>1 DEF IsSlot
<1>4. new.nodes = after
  <2>1. ve \in [size : Nat, level : Nat, nodes : Seq(Seq(Entry)), gtNext : Pointer]
    BY DEF EntryOK, VertexEntry
  <2> QED BY <2>1 DEF Overwritten
<1> HIDE DEF new, nodes
<1>5. /\ node \in Seq(Cell(Weight))
      /\ Len(node) = Len(nodes[n])
      /\ \A j \in 1 .. Len(nodes[n]) : node[j] = IF j = i THEN e ELSE nodes[n][j]
  BY <1>1, <1>2, ExceptSeq
<1> HIDE DEF node
<1>6. /\ after \in Seq(Seq(Cell(Weight)))
      /\ Len(after) = Len(nodes)
      /\ \A m \in 1 .. Len(nodes) : after[m] = IF m = n THEN node ELSE nodes[m]
  BY <1>1, <1>2, <1>5, ExceptSeq
<1> HIDE DEF after
<1>7. \A m \in 1 .. Len(nodes) :
         /\ Len(after[m]) = Len(nodes[m])
         /\ \A j \in 1 .. Len(nodes[m]) :
               after[m][j] = IF m = n /\ j = i THEN e ELSE nodes[m][j]
  BY <1>5, <1>6
<1>8. \A m \in 1 .. Len(nodes) : Keys(after[m]) = Keys(nodes[m])
  <2> SUFFICES ASSUME NEW m \in 1 .. Len(nodes)
               PROVE  Keys(after[m]) = Keys(nodes[m])
    OBVIOUS
  <2>1. DOMAIN after[m] = 1 .. Len(nodes[m]) /\ DOMAIN nodes[m] = 1 .. Len(nodes[m])
    BY <1>1, <1>6, <1>7, NodesTypes
  <2>2. \A j \in 1 .. Len(nodes[m]) : after[m][j].dst = nodes[m][j].dst
    BY <1>2, <1>7
  <2> QED BY <2>1, <2>2 DEF Keys
<1>9. DisjointNodes(after)
  BY <1>2, <1>6, <1>8 DEF DisjointNodes
<1>10. AllEntries(after) \subseteq {f \in AllEntries(nodes) : f.dst # e.dst} \cup {e}
  <2> SUFFICES ASSUME NEW f \in AllEntries(after), f # e
               PROVE  f \in AllEntries(nodes) /\ f.dst # e.dst
    OBVIOUS
  <2>1. PICK m \in 1 .. Len(nodes) : \E j \in 1 .. Len(after[m]) : f = after[m][j]
    BY <1>6, EntriesInNodes
  <2>2. PICK j \in 1 .. Len(nodes[m]) : f = after[m][j]
    BY <1>7, <2>1
  <2>3. f = nodes[m][j] /\ ~(m = n /\ j = i)
    BY <1>7, <2>2
  <2> QED BY <1>1, <1>3, <2>3, EntriesInNodes
<1>11. {f \in AllEntries(nodes) : f.dst # e.dst} \cup {e} \subseteq AllEntries(after)
  <2>1. \A m \in 1 .. Len(nodes) : \A j \in 1 .. Len(nodes[m]) :
           after[m][j] \in AllEntries(after)
    BY <1>6, <1>7, EntriesInNodes
  <2>2. e \in AllEntries(after)
    BY <1>2, <1>7, <2>1
  <2>3. ASSUME NEW f \in AllEntries(nodes), f.dst # e.dst
        PROVE  f \in AllEntries(after)
    <3>1. PICK m \in 1 .. Len(nodes) : \E j \in 1 .. Len(nodes[m]) : f = nodes[m][j]
      BY <1>1, EntriesInNodes
    <3>2. PICK j \in 1 .. Len(nodes[m]) : f = nodes[m][j]
      BY <3>1
    <3>3. after[m][j] = f
      BY <1>2, <1>7, <2>3, <3>2
    <3> QED BY <2>1, <3>3
  <2> QED BY <2>2, <2>3
<1> QED BY <1>4, <1>9, <1>10, <1>11 DEF new, nodes

-----------------------------------------------------------------------------
(* Counting.                                                               *)

LEMMA OneToOneCount ==
  ASSUME NEW S, NEW T, IsFiniteSet(T), NEW f \in [S -> T],
         \A a, b \in S : f[a] = f[b] => a = b,
         \A t \in T : \E s \in S : f[s] = t
  PROVE  IsFiniteSet(S) /\ Cardinality(S) = Cardinality(T)
<1>1. f \in Bijection(S, T)
  BY Fun_IsBij
<1>2. f \in Injection(S, T) /\ f \in Surjection(S, T)
  BY <1>1, Fun_BijectionProperties
<1> QED BY <1>2, FS_Injection

Slots(nodes) == UNION {{<<n, k>> : k \in DOMAIN nodes[n]} : n \in DOMAIN nodes}

LEMMA SlotsOfNodes ==
  ASSUME NEW nodes \in Seq(Seq(Cell(Weight)))
  PROVE  /\ \A n \in 1 .. Len(nodes) : \A k \in 1 .. Len(nodes[n]) :
               <<n, k>> \in Slots(nodes)
         /\ \A p \in Slots(nodes) :
               /\ p[1] \in 1 .. Len(nodes)
               /\ p[2] \in 1 .. Len(nodes[p[1]])
               /\ p = <<p[1], p[2]>>
<1>1. /\ DOMAIN nodes = 1 .. Len(nodes)
      /\ \A n \in 1 .. Len(nodes) : DOMAIN nodes[n] = 1 .. Len(nodes[n])
  BY NodesTypes
<1> DEFINE row(n) == {<<n, k>> : k \in 1 .. Len(nodes[n])}
<1>2. Slots(nodes) = UNION {row(n) : n \in 1 .. Len(nodes)}
  BY <1>1 DEF Slots
<1>3. \A n \in 1 .. Len(nodes) : \A k \in 1 .. Len(nodes[n]) : <<n, k>> \in row(n)
  OBVIOUS
<1>4. ASSUME NEW p \in Slots(nodes)
      PROVE  /\ p[1] \in 1 .. Len(nodes)
             /\ p[2] \in 1 .. Len(nodes[p[1]])
             /\ p = <<p[1], p[2]>>
  <2>1. PICK n \in 1 .. Len(nodes) : p \in row(n)
    BY <1>2
  <2>2. PICK k \in 1 .. Len(nodes[n]) : p = <<n, k>>
    BY <2>1
  <2> QED BY <2>2
<1> HIDE DEF row
<1> QED BY <1>2, <1>3, <1>4

\* size counts the slots in use as well as the entries.
LEMMA SizeCounts ==
  ASSUME NEW ve, EntryOK(ve), DisjointNodes(ve.nodes)
  PROVE  /\ IsFiniteSet(Slots(ve.nodes)) /\ Cardinality(Slots(ve.nodes)) = ve.size
         /\ IsFiniteSet(AllEntries(ve.nodes)) /\ Cardinality(AllEntries(ve.nodes)) = ve.size
<1> DEFINE nodes == ve.nodes
           S == Slots(nodes)
           E == AllEntries(nodes)
           K == AllKeys(nodes)
           keyAt == [p \in S |-> nodes[p[1]][p[2]].dst]
           keyOf == [e \in E |-> e.dst]
<1>1. /\ nodes \in Seq(Seq(Cell(Weight)))
      /\ IsFiniteSet(K) /\ Cardinality(K) = ve.size
  BY EntryNodes DEF EntryOK
<1>2. \A e, f \in E : e.dst = f.dst => e = f
  BY OneEntryPerKey
<1>3. \A m, i, n, j : IsSlot(nodes, m, i) /\ IsSlot(nodes, n, j)
                         /\ nodes[m][i].dst = nodes[n][j].dst => m = n /\ i = j
  BY OneSlotPerKey
<1>4. K = {e.dst : e \in E}
  BY KeysOfEntries
<1> HIDE DEF nodes, K, E
<1>5. /\ keyOf \in [E -> K]
      /\ \A a, b \in E : keyOf[a] = keyOf[b] => a = b
      /\ \A t \in K : \E s \in E : keyOf[s] = t
  BY <1>2, <1>4
<1>6. IsFiniteSet(E) /\ Cardinality(E) = ve.size
  <2> HIDE DEF keyOf
  <2> QED BY <1>1, <1>5, OneToOneCount
<1>7. /\ \A n \in 1 .. Len(nodes) : \A k \in 1 .. Len(nodes[n]) :
            /\ <<n, k>> \in S
            /\ nodes[n][k] \in E
      /\ \A p \in S :
            /\ p[1] \in 1 .. Len(nodes)
            /\ p[2] \in 1 .. Len(nodes[p[1]])
            /\ p = <<p[1], p[2]>>
      /\ \A e \in E : \E n \in 1 .. Len(nodes) : \E k \in 1 .. Len(nodes[n]) : e = nodes[n][k]
  BY <1>1, SlotsOfNodes, EntriesInNodes DEF E
<1> HIDE DEF S
<1>8. keyAt \in [S -> K]
  BY <1>4, <1>7
<1>9. ASSUME NEW a \in S, NEW b \in S, keyAt[a] = keyAt[b]
      PROVE  a = b
  <2>1. nodes[a[1]][a[2]].dst = nodes[b[1]][b[2]].dst
    BY <1>9
  <2>2. a[1] = b[1] /\ a[2] = b[2]
    <3>1. IsSlot(nodes, a[1], a[2]) /\ IsSlot(nodes, b[1], b[2])
      BY <1>7 DEF IsSlot
    <3> QED BY <1>3, <2>1, <3>1
  <2> QED BY <1>7, <2>2
<1>10. ASSUME NEW t \in K
       PROVE  \E s \in S : keyAt[s] = t
  <2>1. PICK e \in E : t = e.dst
    BY <1>4
  <2>2. PICK n \in 1 .. Len(nodes) : \E k \in 1 .. Len(nodes[n]) : e = nodes[n][k]
    BY <1>7
  <2>3. PICK k \in 1 .. Len(nodes[n]) : e = nodes[n][k]
    BY <2>2
  <2>4. <<n, k>> \in S /\ keyAt[<<n, k>>] = t
    BY <1>7, <2>1, <2>3
  <2> QED BY <2>4
<1> HIDE DEF keyAt
<1>11. IsFiniteSet(S) /\ Cardinality(S) = ve.size
  BY <1>1, <1>8, <1>9, <1>10, OneToOneCount
<1> QED BY <1>6, <1>11 DEF nodes, S, E

\* Chunks hold no more than ChunkRoom entries, and full chunks hold as many.
LEMMA ChunksBoundSize ==
  ASSUME NEW ve, EntryOK(ve), DisjointNodes(ve.nodes), ve.level = 0
  PROVE  /\ ChunkRoom \in Nat
         /\ ve.size <= ChunkRoom
         /\ Len(ve.nodes) >= SmallChunkPromotionThreshold
               /\ Full(ve.nodes[Len(ve.nodes)]) => ve.size = ChunkRoom
<1> DEFINE nodes == ve.nodes
           S == Slots(nodes)
           R == 1 .. SmallChunkPromotionThreshold
           C == 1 .. SmallChunkCapacity
<1>1. /\ IsFiniteSet(R) /\ Cardinality(R) = SmallChunkPromotionThreshold
      /\ IsFiniteSet(C) /\ Cardinality(C) = SmallChunkCapacity
      /\ SmallChunkPromotionThreshold \in Nat /\ SmallChunkCapacity \in Nat
      /\ SmallChunkPromotionThreshold >= 1
  <2>1. IsFiniteSet(R) /\ Cardinality(R) = SmallChunkPromotionThreshold
    BY FS_Interval, PromotionThresholdAssumption
  <2>2. IsFiniteSet(C) /\ Cardinality(C) = SmallChunkCapacity
    BY FS_Interval, SmallChunkCapacityAssumption
  <2> QED BY <2>1, <2>2, SmallChunkCapacityAssumption, PromotionThresholdAssumption
<1>2. IsFiniteSet(R \X C) /\ Cardinality(R \X C) = Cardinality(R) * Cardinality(C)
  <2> HIDE DEF R, C
  <2> QED BY <1>1, FS_Product
<1>3. ChunkRoom = Cardinality(R \X C)
  BY <1>1, <1>2 DEF ChunkRoom
<1>4. ChunkRoom \in Nat
  BY <1>2, <1>3, FS_CardinalityType
<1>5. /\ nodes \in Seq(Seq(Cell(Weight)))
      /\ Chunks(nodes)
      /\ IsFiniteSet(S) /\ Cardinality(S) = ve.size
  BY EntryNodes, SizeCounts DEF EntryOK
<1>6. /\ Len(nodes) \in Nat
      /\ \A n \in 1 .. Len(nodes) : Len(nodes[n]) \in Nat
  BY <1>5, NodesTypes
<1>7. /\ \A n \in 1 .. Len(nodes) : \A k \in 1 .. Len(nodes[n]) : <<n, k>> \in S
      /\ \A p \in S :
            /\ p[1] \in 1 .. Len(nodes)
            /\ p[2] \in 1 .. Len(nodes[p[1]])
            /\ p = <<p[1], p[2]>>
  BY <1>5, SlotsOfNodes
<1>8. /\ Len(nodes) <= SmallChunkPromotionThreshold
      /\ \A n \in 1 .. Len(nodes) :
            /\ Len(nodes[n]) \in 1 .. SmallChunkCapacity
            /\ n < Len(nodes) => Len(nodes[n]) = SmallChunkCapacity
  BY <1>5 DEF Chunks, Full
<1> HIDE DEF nodes, S
<1>9. S \in SUBSET (R \X C)
  <2> SUFFICES ASSUME NEW p \in S PROVE p \in R \X C
    OBVIOUS
  <2>1. p[1] \in R
    BY <1>1, <1>6, <1>7, <1>8
  <2>2. p[2] \in C
    BY <1>1, <1>6, <1>7, <1>8
  <2> QED BY <1>7, <2>1, <2>2
<1>10. ve.size <= ChunkRoom
  BY <1>2, <1>3, <1>5, <1>9, FS_Subset
<1>11. ASSUME Len(nodes) >= SmallChunkPromotionThreshold, Full(nodes[Len(nodes)])
       PROVE  ve.size = ChunkRoom
  <2>1. Len(nodes) = SmallChunkPromotionThreshold
    BY <1>1, <1>6, <1>8, <1>11
  <2>2. \A n \in 1 .. Len(nodes) : Len(nodes[n]) = SmallChunkCapacity
    BY <1>6, <1>8, <1>11 DEF Full
  <2>3. R \X C \subseteq S
    <3> SUFFICES ASSUME NEW n \in R, NEW k \in C PROVE <<n, k>> \in S
      OBVIOUS
    <3> QED BY <1>7, <2>1, <2>2
  <2>4. S = R \X C
    BY <1>9, <2>3
  <2> QED BY <1>3, <1>5, <2>4
<1> QED BY <1>4, <1>10, <1>11 DEF nodes

-----------------------------------------------------------------------------
(* What one step of insertDirectedEdge stores.                             *)

\* Entry e is stored with the source of the running insertion, in place of
\* the one with its key if there is one.
StoresEntry(e) ==
  /\ DOMAIN vertexTable' = DOMAIN vertexTable
  /\ \A i \in Ids : i # Insertion.src => vertexTable'[i] = vertexTable[i]
  /\ AllEntries(vertexTable'[Insertion.src].nodes) =
        {f \in AllEntries(Source.nodes) : f.dst # e.dst} \cup {e}
  /\ DisjointNodes(vertexTable'[Insertion.src].nodes)

\* Replacing the source's entry in the table.
LEMMA SourceReplaced ==
  ASSUME IInv, todo # << >>, NEW ve, vertexTable' = [vertexTable EXCEPT ![Insertion.src] = ve]
  PROVE  /\ DOMAIN vertexTable' = DOMAIN vertexTable
         /\ \A i \in Ids : i # Insertion.src => vertexTable'[i] = vertexTable[i]
         /\ vertexTable'[Insertion.src] = ve
BY RunningInsertion DEF Ids

\* A key the search did not find.
LEMMA AddedEntry ==
  ASSUME NEW nodes, NEW e, e.dst \notin AllKeys(nodes)
  PROVE  AllEntries(nodes) \cup {e} =
            {f \in AllEntries(nodes) : f.dst # e.dst} \cup {e}
BY KeysOfEntries

LEMMA UpdateStores ==
  ASSUME IInv, UniqueInv, UpdateExisting
  PROVE  /\ StoresEntry(NewEntry)
         /\ vertexTable'[Insertion.src].size = Source.size
         /\ vertexTable'[Insertion.src].level = Source.level
<1>1. PICK p \in Hits(Source, Insertion.dst) :
         vertexTable' = [vertexTable EXCEPT ![Insertion.src].nodes[p[1]][p[2]] = NewEntry]
  BY DEF UpdateExisting
<1>2. todo # << >>
  BY DEF UpdateExisting, Inserting
<1>3. /\ EntryOK(Source) /\ NewEntry \in Entry /\ NewEntry.dst = Insertion.dst
      /\ Insertion.dst \in Nat /\ Insertion.src \in Ids
      /\ Source = vertexTable[Insertion.src]
  BY <1>2, RunningInsertion
<1>4. DisjointNodes(Source.nodes)
  BY <1>3 DEF UniqueInv
<1>5. /\ p[1] \in 1 .. Len(Source.nodes)
      /\ p[2] \in 1 .. Len(Source.nodes[p[1]])
      /\ Source.nodes[p[1]][p[2]].dst = Insertion.dst
  <2>1. EntryOK(Source) /\ Insertion.dst \in Nat /\ p \in Hits(Source, Insertion.dst)
    BY <1>3
  <2> QED BY ONLY <2>1, HitsAreSlots
<1> DEFINE row == p[1]
           slot == p[2]
           ve == Overwritten(Source, row, slot, NewEntry)
<1>6. /\ row \in 1 .. Len(Source.nodes)
      /\ slot \in 1 .. Len(Source.nodes[row])
      /\ Source.nodes[row][slot].dst = NewEntry.dst
  BY <1>3, <1>5
<1>7. vertexTable' = [vertexTable EXCEPT ![Insertion.src] = ve]
  BY <1>1 DEF Source, Overwritten
<1> HIDE DEF row, slot
<1>8. /\ DisjointNodes(ve.nodes)
      /\ AllEntries(ve.nodes) =
            {f \in AllEntries(Source.nodes) : f.dst # NewEntry.dst} \cup {NewEntry}
  <2>1. /\ EntryOK(Source) /\ DisjointNodes(Source.nodes) /\ NewEntry \in Entry
        /\ row \in 1 .. Len(Source.nodes) /\ slot \in 1 .. Len(Source.nodes[row])
        /\ Source.nodes[row][slot].dst = NewEntry.dst
    BY <1>3, <1>4, <1>6
  <2> QED BY ONLY <2>1, OverwrittenStores
<1>9. ve.size = Source.size /\ ve.level = Source.level
  BY <1>3, <1>6, OverwrittenEntryOK
<1> HIDE DEF ve
<1>10. /\ DOMAIN vertexTable' = DOMAIN vertexTable
       /\ \A i \in Ids : i # Insertion.src => vertexTable'[i] = vertexTable[i]
       /\ vertexTable'[Insertion.src] = ve
  BY <1>2, <1>7, SourceReplaced
<1>11. /\ vertexTable'[Insertion.src].nodes = ve.nodes
       /\ vertexTable'[Insertion.src].size = Source.size
       /\ vertexTable'[Insertion.src].level = Source.level
  BY <1>9, <1>10
<1> QED BY <1>8, <1>10, <1>11 DEF StoresEntry

\* What the three ways of inserting a new entry have in common.
LEMMA InsertStores ==
  ASSUME IInv, UniqueInv,
         InsertIntoTailChunk \/ InsertIntoNewChunk \/ InsertIntoTree
  PROVE  /\ StoresEntry(NewEntry)
         /\ vertexTable'[Insertion.src].size = Source.size + 1
         /\ vertexTable'[Insertion.src].level > 0 => Source.level > 0
<1>1. /\ todo # << >>
      /\ Hits(Source, Insertion.dst) = {}
  BY DEF InsertIntoTailChunk, InsertIntoNewChunk, InsertIntoTree, InsertsNew, Inserting
<1>2. /\ EntryOK(Source) /\ NewEntry \in Entry /\ NewEntry.dst = Insertion.dst
      /\ NewEntry.dst \in Nat /\ Insertion.src \in Ids
      /\ Source = vertexTable[Insertion.src]
  BY <1>1, RunningInsertion
<1>3. /\ DisjointNodes(Source.nodes)
      /\ NewEntry.dst \notin AllKeys(Source.nodes)
  BY <1>1, <1>2, NoHitsMeansNew DEF UniqueInv
<1>4. /\ Source.nodes \in Seq(Seq(Cell(Weight)))
      /\ Source \in [size : Nat, level : Nat, nodes : Seq(Seq(Entry)), gtNext : Pointer]
  BY <1>2, EntryNodes DEF EntryOK, VertexEntry
<1>5. \E ve : /\ vertexTable' = [vertexTable EXCEPT ![Insertion.src] = ve]
              /\ DisjointNodes(ve.nodes)
              /\ AllEntries(ve.nodes) = AllEntries(Source.nodes) \cup {NewEntry}
              /\ ve.size = Source.size + 1
              /\ ve.level > 0 => Source.level > 0
  <2>1. CASE InsertIntoTailChunk
    <3> DEFINE grown == [Source.nodes EXCEPT
                  ![Len(Source.nodes)] = InsertSorted(Source.nodes[Len(Source.nodes)], NewEntry)]
               ve == [Source EXCEPT !.nodes = grown, !.size = Source.size + 1]
    <3>1. Len(Source.nodes) > 0
      BY <2>1 DEF InsertIntoTailChunk, TailHasRoom, NumChunks
    <3>2. /\ DisjointNodes(grown)
          /\ AllEntries(grown) = AllEntries(Source.nodes) \cup {NewEntry}
      BY <1>2, <1>3, <1>4, <3>1, TailChunkStores
    <3>3. vertexTable' = [vertexTable EXCEPT ![Insertion.src] = ve]
      BY <2>1 DEF InsertIntoTailChunk, NumChunks, Source
    <3> HIDE DEF grown
    <3>4. ve.nodes = grown /\ ve.size = Source.size + 1 /\ ve.level = Source.level
      BY <1>4
    <3> HIDE DEF ve
    <3> QED BY <3>2, <3>3, <3>4
  <2>2. CASE InsertIntoNewChunk
    <3> DEFINE grown == Append(Source.nodes, <<NewEntry>>)
               ve == [Source EXCEPT !.nodes = grown, !.size = Source.size + 1,
                                    !.gtNext = NullPointer]
    <3>1. /\ DisjointNodes(grown)
          /\ AllEntries(grown) = AllEntries(Source.nodes) \cup {NewEntry}
      BY <1>2, <1>3, <1>4, NewChunkStores
    <3>2. vertexTable' = [vertexTable EXCEPT ![Insertion.src] = ve]
      BY <2>2 DEF InsertIntoNewChunk, Source
    <3> HIDE DEF grown
    <3>3. ve.nodes = grown /\ ve.size = Source.size + 1 /\ ve.level = Source.level
      BY <1>4
    <3> HIDE DEF ve
    <3> QED BY <3>1, <3>2, <3>3
  <2>3. CASE InsertIntoTree
    <3> DEFINE ve == BPlusInsert(Source, NewEntry)
    <3>1. Source.level > 0
      BY <2>3 DEF InsertIntoTree
    <3>2. /\ DisjointNodes(ve.nodes)
          /\ AllEntries(ve.nodes) = AllEntries(Source.nodes) \cup {NewEntry}
          /\ ve.size = Source.size + 1
      BY <1>2, <1>3, <3>1, TreeStores
    <3>3. vertexTable' = [vertexTable EXCEPT ![Insertion.src] = ve]
      BY <2>3 DEF InsertIntoTree, Source
    <3> HIDE DEF ve
    <3> QED BY <3>1, <3>2, <3>3
  <2> QED BY <2>1, <2>2, <2>3
<1>6. PICK ve : /\ vertexTable' = [vertexTable EXCEPT ![Insertion.src] = ve]
                /\ DisjointNodes(ve.nodes)
                /\ AllEntries(ve.nodes) = AllEntries(Source.nodes) \cup {NewEntry}
                /\ ve.size = Source.size + 1
                /\ ve.level > 0 => Source.level > 0
  BY <1>5
<1>7. /\ DOMAIN vertexTable' = DOMAIN vertexTable
      /\ \A i \in Ids : i # Insertion.src => vertexTable'[i] = vertexTable[i]
      /\ vertexTable'[Insertion.src] = ve
  BY <1>1, <1>6, SourceReplaced
<1> QED BY <1>3, <1>6, <1>7, AddedEntry DEF StoresEntry

LEMMA PromotedItemStores ==
  ASSUME IInv, UniqueInv, InsertPromotedItem
  PROVE  \E e \in bulk :
           /\ StoresEntry(e)
           /\ vertexTable'[Insertion.src].size = Source.size + 1
           /\ bulk' = bulk \ {e}
           /\ e \in Entry
           /\ todo' = IF bulk' = {} THEN Tail(todo) ELSE todo
           /\ UNCHANGED registryVars
<1>1. PICK e \in bulk :
         /\ bulk' = bulk \ {e}
         /\ vertexTable' = [vertexTable EXCEPT ![Insertion.src] = BPlusInsert(@, e)]
         /\ IF bulk' = {} THEN InsertReturns ELSE UNCHANGED <<gtChainDirty, todo>>
         /\ UNCHANGED registryVars
  BY DEF InsertPromotedItem
<1>2. /\ todo # << >> /\ Source.level > 0
      /\ e \in Entry /\ e.dst \notin AllKeys(Source.nodes)
  BY DEF IInv, BulkOK
<1>3. EntryOK(Source)
  BY <1>2, RunningInsertion
<1> DEFINE ve == BPlusInsert(Source, e)
<1>4. /\ DisjointNodes(ve.nodes)
      /\ AllEntries(ve.nodes) = AllEntries(Source.nodes) \cup {e}
      /\ ve.size = Source.size + 1
  BY <1>2, <1>3, TreeStores
<1>5. vertexTable' = [vertexTable EXCEPT ![Insertion.src] = ve]
  BY <1>1 DEF Source
<1> HIDE DEF ve
<1>6. /\ DOMAIN vertexTable' = DOMAIN vertexTable
      /\ \A i \in Ids : i # Insertion.src => vertexTable'[i] = vertexTable[i]
      /\ vertexTable'[Insertion.src] = ve
  BY <1>2, <1>5, SourceReplaced
<1>7. StoresEntry(e)
  BY <1>2, <1>4, <1>6, AddedEntry DEF StoresEntry
<1>8. todo' = IF bulk' = {} THEN Tail(todo) ELSE todo
  BY <1>1 DEF InsertReturns
<1> QED BY <1>1, <1>2, <1>4, <1>6, <1>7, <1>8

\* The promotion of a vertex whose chunks are full.
LEMMA PromoteStores ==
  ASSUME IInv, UniqueInv, PromoteToBPlusTree
  PROVE  /\ DOMAIN vertexTable' = DOMAIN vertexTable
         /\ \A i \in Ids : i # Insertion.src => vertexTable'[i] = vertexTable[i]
         /\ AllEntries(vertexTable'[Insertion.src].nodes) = {}
         /\ DisjointNodes(vertexTable'[Insertion.src].nodes)
         /\ vertexTable'[Insertion.src].size = 0
         /\ bulk' = AllEntries(Source.nodes) \cup {NewEntry}
         /\ NewEntry.dst \notin AllKeys(Source.nodes)
         /\ IsFiniteSet(bulk') /\ Cardinality(bulk') > ChunkRoom
         /\ bulk = {} /\ todo # << >>
<1> DEFINE ve == [size |-> 0, level |-> 1, nodes |-> << << >> >>,
                  gtNext |-> NullPointer]
           stored == AllEntries(Source.nodes)
           items == stored \cup {NewEntry}
<1>1. /\ todo # << >> /\ bulk = {}
      /\ Hits(Source, Insertion.dst) = {} /\ Source.level = 0
      /\ bulk' = LeastPerKey(items)
      /\ vertexTable' = [vertexTable EXCEPT ![Insertion.src] = ve]
  BY DEF PromoteToBPlusTree, InsertsNew, Inserting
<1>2. /\ EntryOK(Source) /\ NewEntry \in Entry /\ NewEntry.dst = Insertion.dst
      /\ NewEntry.dst \in Nat /\ Insertion.src \in Ids
      /\ Source = vertexTable[Insertion.src]
  BY <1>1, RunningInsertion
<1>3. /\ DisjointNodes(Source.nodes)
      /\ NewEntry.dst \notin AllKeys(Source.nodes)
  BY <1>1, <1>2, NoHitsMeansNew DEF UniqueInv
<1>4. /\ Len(Source.nodes) >= SmallChunkPromotionThreshold
      /\ Full(Source.nodes[Len(Source.nodes)])
  <2>1. Len(Source.nodes) \in Nat
    BY <1>2, EntryNodes, NodesTypes
  <2> QED BY <2>1, PromotionThresholdAssumption
       DEF PromoteToBPlusTree, NumChunks, TailHasRoom
<1>5. ChunkRoom \in Nat /\ Source.size = ChunkRoom
  BY <1>1, <1>2, <1>3, <1>4, ChunksBoundSize
<1>6. IsFiniteSet(stored) /\ Cardinality(stored) = ChunkRoom
  BY <1>2, <1>3, <1>5, SizeCounts
<1>7. NewEntry \notin stored
  BY <1>3, KeysOfEntries
<1>8. IsFiniteSet(items) /\ Cardinality(items) = ChunkRoom + 1
  <2> HIDE DEF stored
  <2> QED BY <1>6, <1>7, FS_AddElement
<1>9. LeastPerKey(items) = items
  <2>1. \A e, f \in stored : e.dst = f.dst => e = f
    BY <1>2, <1>3, OneEntryPerKey
  <2>2. \A e \in stored : e.dst # NewEntry.dst
    BY <1>3, KeysOfEntries
  <2>3. \A e \in stored : e \in Entry
    BY <1>2, EntryNodes, EntriesInNodes
  <2>4. \A e \in items : e.weight \in Nat
    BY <1>2, <2>3, WeightAssumption DEF Entry
  <2>5. \A e, f \in items : f.dst = e.dst => f = e
    BY <2>1, <2>2
  <2> HIDE DEF items
  <2>6. \A e, f \in items : f.dst = e.dst => e.weight <= f.weight
    BY <2>4, <2>5
  <2> QED BY <2>6 DEF LeastPerKey
<1>10. /\ ve.nodes = << << >> >> /\ ve.size = 0
       /\ DOMAIN ve.nodes = {1} /\ Len(ve.nodes) = 1
       /\ DOMAIN ve.nodes[1] = {}
  OBVIOUS
<1> HIDE DEF ve, items
<1>11. AllEntries(ve.nodes) = {} /\ DisjointNodes(ve.nodes)
  BY <1>10 DEF AllEntries, RangeOf, DisjointNodes
<1>12. /\ DOMAIN vertexTable' = DOMAIN vertexTable
       /\ \A i \in Ids : i # Insertion.src => vertexTable'[i] = vertexTable[i]
       /\ vertexTable'[Insertion.src] = ve
  BY <1>1, SourceReplaced
<1>13. IsFiniteSet(bulk') /\ Cardinality(bulk') > ChunkRoom
  BY <1>1, <1>5, <1>8, <1>9
<1> QED BY <1>1, <1>3, <1>9, <1>10, <1>11, <1>12, <1>13 DEF items

-----------------------------------------------------------------------------
(* UniqueInv is kept.                                                      *)

\* A registry that has all of another one, and beyond that empty vertices.
ExtendedBy(reg, new) ==
  /\ DOMAIN reg.vertexTable \subseteq DOMAIN new.vertexTable
  /\ \A i \in DOMAIN reg.vertexTable :
        /\ new.vertexTable[i] = reg.vertexTable[i]
        /\ new.reverseIdMap[i] = reg.reverseIdMap[i]
  /\ \A i \in DOMAIN new.vertexTable :
        i \notin DOMAIN reg.vertexTable => new.vertexTable[i] = EmptyEntry

LEMMA RegistrationExtends ==
  ASSUME NEW reg, RegistryOK(reg), NEW x \in Vertex
  PROVE  /\ ExtendedBy(reg, GetOrRegisterVertex(reg, x))
         /\ DOMAIN GetOrRegisterVertex(reg, x).idMap = DOMAIN reg.idMap \cup {x}
<1> DEFINE new == GetOrRegisterVertex(reg, x)
           n == Len(reg.vertexTable)
<1>1. /\ reg.reverseIdMap \in Seq(Vertex)
      /\ reg.vertexTable \in Seq(VertexEntry)
      /\ Len(reg.reverseIdMap) = n /\ n \in Nat
      /\ DOMAIN reg.vertexTable = 1 .. n
  BY LenProperties DEF RegistryOK, TableOK
<1>2. CASE x \in DOMAIN reg.idMap
  BY <1>2 DEF GetOrRegisterVertex, ExtendedBy
<1>3. CASE x \notin DOMAIN reg.idMap
  <2>1. /\ DOMAIN new.idMap = DOMAIN reg.idMap \cup {x}
        /\ new.reverseIdMap = Append(reg.reverseIdMap, x)
        /\ new.vertexTable = Append(reg.vertexTable, EmptyEntry)
    BY <1>3 DEF GetOrRegisterVertex
  <2> HIDE DEF new, n
  <2>2. \A i \in 1 .. n : new.reverseIdMap[i] = reg.reverseIdMap[i]
    BY <1>1, <2>1, AppendProperties
  <2>3. /\ \A i \in 1 .. n : new.vertexTable[i] = reg.vertexTable[i]
        /\ new.vertexTable[n + 1] = EmptyEntry
        /\ DOMAIN new.vertexTable = 1 .. n + 1
    BY <1>1, <2>1, EntryTypes, AppendProperties, LenProperties DEF n
  <2>4. 1 .. n \subseteq 1 .. n + 1 /\ \A i \in 1 .. n + 1 : i \notin 1 .. n => i = n + 1
    BY <1>1
  <2>5. ExtendedBy(reg, new)
    BY <1>1, <2>2, <2>3, <2>4 DEF ExtendedBy
  <2> QED BY <2>1, <2>5 DEF new
<1> QED BY <1>2, <1>3

LEMMA ExtendsTransitive ==
  ASSUME NEW a, NEW b, NEW c, ExtendedBy(a, b), ExtendedBy(b, c)
  PROVE  ExtendedBy(a, c)
<1>1. ASSUME NEW i \in DOMAIN c.vertexTable, i \notin DOMAIN a.vertexTable
      PROVE  c.vertexTable[i] = EmptyEntry
  <2>1. CASE i \in DOMAIN b.vertexTable
    <3>1. c.vertexTable[i] = b.vertexTable[i]
      BY <2>1 DEF ExtendedBy
    <3>2. b.vertexTable[i] = EmptyEntry
      BY <1>1, <2>1 DEF ExtendedBy
    <3> QED BY <3>1, <3>2
  <2>2. CASE i \notin DOMAIN b.vertexTable
    BY <2>2 DEF ExtendedBy
  <2> QED BY <2>1, <2>2
<1>2. ASSUME NEW i \in DOMAIN a.vertexTable
      PROVE  /\ c.vertexTable[i] = a.vertexTable[i]
             /\ c.reverseIdMap[i] = a.reverseIdMap[i]
             /\ i \in DOMAIN c.vertexTable
  BY DEF ExtendedBy
<1> QED BY <1>1, <1>2 DEF ExtendedBy

\* The rest of the insertions of a call.
LEMMA TailOfTodo ==
  ASSUME IInv, todo # << >>
  PROVE  /\ 1 \in DOMAIN todo
         /\ \A k \in DOMAIN Tail(todo) : k + 1 \in DOMAIN todo /\ Tail(todo)[k] = todo[k + 1]
         /\ \A k \in DOMAIN todo : k # 1 => k - 1 \in DOMAIN Tail(todo) /\ Tail(todo)[k - 1] = todo[k]
         /\ \A k \in DOMAIN Tail(todo) : k \in Nat /\ k + 1 # 1
         /\ Insertion = todo[1]
<1>1. /\ todo \in Seq(DirectedInsert) /\ Len(todo) \in Nat
      /\ DOMAIN todo = 1 .. Len(todo)
  BY LenProperties DEF IInv, CallsOK
<1>2. Len(todo) >= 1
  BY <1>1, EmptySeq
<1>3. /\ Tail(todo) \in Seq(DirectedInsert)
      /\ Len(Tail(todo)) = Len(todo) - 1
      /\ \A k \in 1 .. Len(Tail(todo)) : Tail(todo)[k] = todo[k + 1]
      /\ DOMAIN Tail(todo) = 1 .. Len(Tail(todo))
  BY <1>1, HeadTailProperties, LenProperties
<1>4. Insertion = todo[1]
  BY <1>1 DEF Insertion
<1>5. \A k \in DOMAIN todo : k # 1 => k - 1 \in DOMAIN Tail(todo) /\ Tail(todo)[k - 1] = todo[k]
  <2> SUFFICES ASSUME NEW k \in DOMAIN todo, k # 1
               PROVE  k - 1 \in DOMAIN Tail(todo) /\ Tail(todo)[k - 1] = todo[k]
    OBVIOUS
  <2>1. k - 1 \in 1 .. Len(Tail(todo)) /\ (k - 1) + 1 = k
    BY <1>1, <1>3
  <2> QED BY <1>3, <2>1
<1> QED BY <1>1, <1>2, <1>3, <1>4, <1>5

\* The entry point of a call changes no vertex that is registered.
LEMMA CallUnique ==
  ASSUME IInv, UniqueInv, todo = << >>, NEW reg, ExtendedBy(Registry, reg), Adopt(reg),
         \A k, l \in DOMAIN todo' : k # l => todo'[k].src # todo'[l].src,
         UNCHANGED bulk
  PROVE  UniqueInv'
<1>1. bulk = {} /\ bulk' = {} /\ vertexTable' = reg.vertexTable
  BY DEF IInv, BulkOK, Adopt
<1>2. ASSUME NEW i \in Ids'
      PROVE  vertexTable'[i] = EmptyEntry \/ (i \in Ids /\ vertexTable'[i] = vertexTable[i])
  BY <1>1, RegistryFields DEF ExtendedBy, Ids
<1>3. EmptyEntry.level = 0 /\ DisjointNodes(EmptyEntry.nodes)
  BY DEF EmptyEntry, DisjointNodes
<1>4. \A i \in Ids : DisjointNodes(vertexTable[i].nodes)
  BY DEF UniqueInv
<1>5. \A i \in Ids' : DisjointNodes(vertexTable'[i].nodes)
  BY <1>2, <1>3, <1>4
<1>6. \A i : Outstanding(i) = 0 /\ Outstanding(i)' = 0
  BY <1>1 DEF Outstanding
<1>7. \A i \in Ids : vertexTable[i].level > 0 => vertexTable[i].size + 0 > ChunkRoom
  BY <1>6 DEF UniqueInv
<1>8. \A i \in Ids' : vertexTable'[i].level > 0 => vertexTable'[i].size + 0 > ChunkRoom
  BY <1>2, <1>3, <1>7
<1>9. IsFiniteSet(bulk')
  BY <1>1, FS_EmptySet
<1> QED BY <1>5, <1>6, <1>8, <1>9 DEF UniqueInv

LEMMA AddVertexUnique ==
  ASSUME IInv, UniqueInv, NEW x \in Vertex, AddVertex(x)
  PROVE  UniqueInv'
<1> DEFINE reg == GetOrRegisterVertex(Registry, x)
<1>1. ExtendedBy(Registry, reg)
  BY RegistrationExtends DEF IInv
<1>2. /\ todo = << >> /\ todo' = << >> /\ Adopt(reg) /\ UNCHANGED bulk
  BY DEF AddVertex
<1> HIDE DEF reg
<1>3. \A k, l \in DOMAIN todo' : k # l => todo'[k].src # todo'[l].src
  BY <1>2
<1> QED BY <1>1, <1>2, <1>3, CallUnique

LEMMA AddEdgeUnique ==
  ASSUME IInv, UniqueInv, NEW u \in Vertex, NEW v \in Vertex, NEW w \in Weight,
         AddEdge(u, v, w)
  PROVE  UniqueInv'
<1> DEFINE first == GetOrRegisterVertex(Registry, u)
           reg == GetOrRegisterVertex(first, v)
           i == reg.idMap[u]
           j == reg.idMap[v]
           forward == [src |-> i, dst |-> j, weight |-> w]
           reverse == [src |-> j, dst |-> i, weight |-> w]
<1>1. ExtendedBy(Registry, first) /\ RegistryOK(first)
  BY RegistrationExtends, Registration DEF IInv
<1>2. /\ todo = << >> /\ Adopt(reg) /\ UNCHANGED bulk
      /\ todo' = IF isDirected \/ i = j THEN <<forward>> ELSE <<forward, reverse>>
  BY DEF AddEdge, Insertions
<1> HIDE DEF first
<1>3. ExtendedBy(first, reg)
  BY <1>1, RegistrationExtends
<1> HIDE DEF reg
<1>4. ExtendedBy(Registry, reg)
  BY <1>1, <1>3, ExtendsTransitive
<1>5. \A k, l \in DOMAIN todo' : k # l => todo'[k].src # todo'[l].src
  <2> HIDE DEF i, j
  <2>1. CASE todo' = <<forward>>
    BY <2>1
  <2>2. CASE todo' = <<forward, reverse>> /\ i # j
    <3>1. DOMAIN todo' = {1, 2} /\ todo'[1].src = i /\ todo'[2].src = j
      BY <2>2
    <3> QED BY <2>2, <3>1
  <2> QED BY <1>2, <2>1, <2>2
<1> QED BY <1>2, <1>4, <1>5, CallUnique

\* A step of the running insertion concerns its source only.
LEMMA SourceUnique ==
  ASSUME IInv, UniqueInv, todo # << >>,
         DOMAIN vertexTable' = DOMAIN vertexTable,
         \A i \in Ids : i # Insertion.src => vertexTable'[i] = vertexTable[i],
         DisjointNodes(vertexTable'[Insertion.src].nodes),
         todo' = todo \/ (todo' = Tail(todo) /\ bulk' = {}),
         IsFiniteSet(bulk'),
         vertexTable'[Insertion.src].level > 0 =>
            vertexTable'[Insertion.src].size
              + (IF bulk' # {} THEN Cardinality(bulk') ELSE 0) > ChunkRoom
  PROVE  UniqueInv'
<1>1. Ids' = Ids
  BY DEF Ids
<1>2. \A i \in Ids' : DisjointNodes(vertexTable'[i].nodes)
  BY <1>1 DEF UniqueInv
<1>3. \A k, l \in DOMAIN todo' : k # l => todo'[k].src # todo'[l].src
  <2>1. \A k, l \in DOMAIN todo : k # l => todo[k].src # todo[l].src
    BY DEF UniqueInv
  <2>2. CASE todo' = todo
    BY <2>1, <2>2
  <2>3. CASE todo' = Tail(todo)
    <3> SUFFICES ASSUME NEW k \in DOMAIN Tail(todo), NEW l \in DOMAIN Tail(todo), k # l
                 PROVE  Tail(todo)[k].src # Tail(todo)[l].src
      BY <2>3
    <3>1. /\ k + 1 \in DOMAIN todo /\ Tail(todo)[k] = todo[k + 1]
          /\ l + 1 \in DOMAIN todo /\ Tail(todo)[l] = todo[l + 1]
          /\ k \in Nat /\ l \in Nat
      BY TailOfTodo
    <3>2. k + 1 # l + 1
      BY <3>1
    <3> QED BY <2>1, <3>1, <3>2
  <2> QED BY <2>2, <2>3
<1>4. ASSUME NEW i \in Ids', vertexTable'[i].level > 0
      PROVE  vertexTable'[i].size + Outstanding(i)' > ChunkRoom
  <2>1. bulk' # {} => Insertion' = Insertion
    BY DEF Insertion
  <2>2. CASE i = Insertion.src
    <3>1. Outstanding(i)' = IF bulk' # {} THEN Cardinality(bulk') ELSE 0
      BY <2>1, <2>2 DEF Outstanding
    <3> QED BY <1>4, <2>2, <3>1
  <2>3. CASE i # Insertion.src
    <3>1. Outstanding(i)' = 0 /\ Outstanding(i) = 0
      BY <2>1, <2>3 DEF Outstanding
    <3>2. vertexTable'[i] = vertexTable[i] /\ i \in Ids
      BY <1>1, <2>3
    <3>3. vertexTable[i].size + Outstanding(i) > ChunkRoom
      BY <1>4, <3>2 DEF UniqueInv
    <3> QED BY <3>1, <3>2, <3>3
  <2> QED BY <2>2, <2>3
<1> QED BY <1>2, <1>3, <1>4 DEF UniqueInv

LEMMA InsertionUnique == IInv /\ UniqueInv /\ InsertDirectedEdge => UniqueInv'
<1> SUFFICES ASSUME IInv, UniqueInv, InsertDirectedEdge PROVE UniqueInv'
  OBVIOUS
<1>1. todo # << >>
  BY DEF InsertDirectedEdge, UpdateExisting, InsertIntoTailChunk, InsertIntoNewChunk,
         InsertIntoTree, PromoteToBPlusTree, InsertPromotedItem, InsertsNew, Inserting,
         IInv, BulkOK
<1>2. /\ Insertion.src \in Ids /\ Source = vertexTable[Insertion.src]
      /\ Source.size \in Nat /\ Source.level \in Nat
  BY <1>1, RunningInsertion, EntryNodes
<1>3. Source.level > 0 => Source.size + Outstanding(Insertion.src) > ChunkRoom
  BY <1>2 DEF UniqueInv
<1>4. ChunkRoom \in Nat
  BY SmallChunkCapacityAssumption, PromotionThresholdAssumption DEF ChunkRoom
<1>5. CASE UpdateExisting
  <2>1. bulk = {} /\ bulk' = {} /\ todo' = Tail(todo)
    BY <1>5 DEF UpdateExisting, Inserting
  <2>2. Outstanding(Insertion.src) = 0
    BY <2>1 DEF Outstanding
  <2>3. /\ StoresEntry(NewEntry)
        /\ vertexTable'[Insertion.src].size = Source.size
        /\ vertexTable'[Insertion.src].level = Source.level
    BY <1>5, UpdateStores
  <2>4. IsFiniteSet(bulk')
    BY <2>1, FS_EmptySet
  <2> QED BY <1>1, <1>2, <1>3, <2>1, <2>2, <2>3, <2>4, SourceUnique DEF StoresEntry
<1>6. CASE InsertIntoTailChunk \/ InsertIntoNewChunk \/ InsertIntoTree
  <2>1. bulk = {} /\ bulk' = {} /\ todo' = Tail(todo)
    BY <1>6 DEF InsertIntoTailChunk, InsertIntoNewChunk, InsertIntoTree, InsertsNew,
                Inserting, InsertReturns
  <2>2. Outstanding(Insertion.src) = 0
    BY <2>1 DEF Outstanding
  <2>3. /\ StoresEntry(NewEntry)
        /\ vertexTable'[Insertion.src].size = Source.size + 1
        /\ vertexTable'[Insertion.src].level > 0 => Source.level > 0
    BY <1>6, InsertStores
  <2>4. IsFiniteSet(bulk')
    BY <2>1, FS_EmptySet
  <2>5. vertexTable'[Insertion.src].level > 0 =>
           vertexTable'[Insertion.src].size + 0 > ChunkRoom
    BY <1>2, <1>3, <1>4, <2>2, <2>3
  <2> QED BY <1>1, <2>1, <2>3, <2>4, <2>5, SourceUnique DEF StoresEntry
<1>7. CASE PromoteToBPlusTree
  <2>1. /\ DOMAIN vertexTable' = DOMAIN vertexTable
        /\ \A i \in Ids : i # Insertion.src => vertexTable'[i] = vertexTable[i]
        /\ DisjointNodes(vertexTable'[Insertion.src].nodes)
        /\ vertexTable'[Insertion.src].size = 0
        /\ bulk' # {}
        /\ IsFiniteSet(bulk') /\ Cardinality(bulk') > ChunkRoom
    BY <1>7, PromoteStores
  <2>2. todo' = todo
    BY <1>7 DEF PromoteToBPlusTree
  <2>3. 0 + Cardinality(bulk') > ChunkRoom
    BY <1>4, <2>1, FS_CardinalityType
  <2> QED BY <1>1, <2>1, <2>2, <2>3, SourceUnique
<1>8. CASE InsertPromotedItem
  <2>1. PICK e \in bulk :
           /\ StoresEntry(e)
           /\ vertexTable'[Insertion.src].size = Source.size + 1
           /\ bulk' = bulk \ {e}
           /\ todo' = IF bulk' = {} THEN Tail(todo) ELSE todo
    BY <1>8, PromotedItemStores
  <2>2. /\ IsFiniteSet(bulk) /\ IsFiniteSet(bulk')
        /\ Cardinality(bulk') = Cardinality(bulk) - 1
        /\ Cardinality(bulk) \in Nat
    BY <2>1, FS_RemoveElement, FS_CardinalityType DEF UniqueInv
  <2>3. Outstanding(Insertion.src) = Cardinality(bulk)
    BY <2>1 DEF Outstanding
  <2>4. bulk' = {} => Cardinality(bulk') = 0
    BY FS_EmptySet
  <2>5. Source.level > 0
    BY <2>1 DEF IInv, BulkOK
  <2>6. vertexTable'[Insertion.src].size
          + (IF bulk' # {} THEN Cardinality(bulk') ELSE 0) > ChunkRoom
    BY <1>2, <1>3, <1>4, <2>1, <2>2, <2>3, <2>4, <2>5
  <2>7. todo' = todo \/ (todo' = Tail(todo) /\ bulk' = {})
    BY <2>1
  <2> QED BY <1>1, <2>1, <2>2, <2>6, <2>7, SourceUnique DEF StoresEntry
<1> QED BY <1>5, <1>6, <1>7, <1>8 DEF InsertDirectedEdge

\* rebuildGTChain writes links only.
LEMMA TraverseKeepsEntries ==
  ASSUME IInv, TraverseEntireGraph
  PROVE  /\ DOMAIN vertexTable' = DOMAIN vertexTable
         /\ \A i \in Ids :
               /\ vertexTable'[i].nodes = vertexTable[i].nodes
               /\ vertexTable'[i].size = vertexTable[i].size
               /\ vertexTable'[i].level = vertexTable[i].level
<1>1. \A i \in Ids : vertexTable[i] \in
         [size : Nat, level : Nat, nodes : Seq(Seq(Entry)), gtNext : Pointer]
  BY RegistryState DEF IInv, TableOK, EntryOK, VertexEntry, Ids
<1>2. vertexTable' = [i \in Ids |->
         IF i \in Occupied(vertexTable)
           THEN [vertexTable[i] EXCEPT !.gtNext = ChainAfter(vertexTable, i)]
           ELSE vertexTable[i]]
  BY DEF TraverseEntireGraph
<1> QED BY <1>1, <1>2 DEF Ids

LEMMA NextUnique == IInv /\ UniqueInv /\ [Next]_vars => UniqueInv'
<1> SUFFICES ASSUME IInv, UniqueInv, [Next]_vars PROVE UniqueInv'
  OBVIOUS
<1>1. ASSUME NEW x \in VertexCalls, AddVertex(x) PROVE UniqueInv'
  BY <1>1, CallsAssumption, AddVertexUnique
<1>2. ASSUME NEW c \in EdgeCalls, AddEdge(c[1], c[2], c[3]) PROVE UniqueInv'
  <2>1. c[1] \in Vertex /\ c[2] \in Vertex /\ c[3] \in Weight
    BY CallsAssumption
  <2> QED BY <1>2, <2>1, AddEdgeUnique
<1>3. CASE InsertDirectedEdge
  BY <1>3, InsertionUnique
<1>4. CASE TraverseEntireGraph
  <2>1. Ids' = Ids /\ \A i \in Ids :
           /\ vertexTable'[i].nodes = vertexTable[i].nodes
           /\ vertexTable'[i].size = vertexTable[i].size
           /\ vertexTable'[i].level = vertexTable[i].level
    BY <1>4, TraverseKeepsEntries DEF Ids
  <2>2. todo' = todo /\ bulk' = bulk
    BY <1>4 DEF TraverseEntireGraph
  <2>3. \A i : Outstanding(i)' = Outstanding(i)
    BY <2>2 DEF Outstanding, Insertion
  <2> QED BY <2>1, <2>2, <2>3 DEF UniqueInv
<1>5. CASE UNCHANGED vars
  BY <1>5 DEF vars, UniqueInv, Ids, Outstanding, Insertion
<1> QED BY <1>1, <1>2, <1>3, <1>4, <1>5 DEF Next

LEMMA InitUnique == Init => UniqueInv
BY FS_EmptySet DEF Init, UniqueInv, Ids

\* The inductive invariant behind what GCCGraph stores: IInv, no key twice among
\* the chunks or leaves of a vertex (insertDirectedEdge looks in all of them
\* before it appends), and a tree only for more neighbours than its chunks held
\* (those still in the promotion loop included).
THEOREM ContentsInvariant == Spec => [](IInv /\ UniqueInv)
<1>1. Init => IInv /\ UniqueInv
  BY InitIInv, InitUnique
<1>2. IInv /\ UniqueInv /\ [Next]_vars => (IInv /\ UniqueInv)'
  BY NextIInv, NextUnique
<1> QED BY <1>1, <1>2, PTL DEF Spec

\* getDegree counts the neighbours, and none is stored twice.
THEOREM DegreeCountsNeighbours == Spec => []SizeCountsNeighbours
<1>1. IInv /\ UniqueInv => SizeCountsNeighbours
  <2> SUFFICES ASSUME IInv, UniqueInv, NEW i \in Ids
               PROVE  /\ vertexTable[i].size = Cardinality(AllKeys(vertexTable[i].nodes))
                      /\ vertexTable[i].size = Cardinality(Slots(vertexTable[i].nodes))
    BY DEF SizeCountsNeighbours, Slots
  <2>1. EntryOK(vertexTable[i]) /\ DisjointNodes(vertexTable[i].nodes)
    BY RegistryState DEF IInv, TableOK, Ids, UniqueInv
  <2> QED BY <2>1, SizeCounts DEF EntryOK
<1> QED BY <1>1, ContentsInvariant, PTL

\* A vertex has a tree exactly if its neighbours do not fit in its chunks.
THEOREM PromotionIsExact == Spec => []PromotedWhenChunksAreFull
<1>1. IInv /\ UniqueInv => PromotedWhenChunksAreFull
  <2> SUFFICES ASSUME IInv, UniqueInv, bulk = {}, NEW i \in Ids
               PROVE  vertexTable[i].level > 0 <=> vertexTable[i].size > ChunkRoom
    BY DEF PromotedWhenChunksAreFull, ChunkRoom
  <2>1. EntryOK(vertexTable[i]) /\ DisjointNodes(vertexTable[i].nodes)
    BY RegistryState DEF IInv, TableOK, Ids, UniqueInv
  <2>2. vertexTable[i].size \in Nat /\ vertexTable[i].level \in Nat
    BY <2>1, EntryNodes
  <2>3. CASE vertexTable[i].level > 0
    <3>1. Outstanding(i) = 0
      BY DEF Outstanding
    <3>2. vertexTable[i].size + Outstanding(i) > ChunkRoom
      BY <2>3 DEF UniqueInv
    <3> QED BY <2>2, <2>3, <3>1, <3>2
  <2>4. CASE vertexTable[i].level = 0
    <3>1. vertexTable[i].size <= ChunkRoom /\ ChunkRoom \in Nat
      BY <2>1, <2>4, ChunksBoundSize
    <3> QED BY <2>2, <2>4, <3>1
  <2> QED BY <2>2, <2>3, <2>4
<1> QED BY <1>1, ContentsInvariant, PTL

-----------------------------------------------------------------------------
(* Lookups.                                                                *)

\* A key that no node holds is not found.
LEMMA LookupOfNoKey ==
  ASSUME NEW ve, EntryOK(ve), NEW d \in Nat, d \notin AllKeys(ve.nodes)
  PROVE  FindEdgeWeight(ve, d) = {}
<1>1. /\ ve.nodes \in Seq(Seq(Cell(Weight)))
      /\ ve.level \in Nat
      /\ \A n \in 1 .. Len(ve.nodes) : Ascending(ve.nodes[n])
  BY EntryNodes
<1>2. /\ DOMAIN ve.nodes = 1 .. Len(ve.nodes)
      /\ \A n \in 1 .. Len(ve.nodes) : ve.nodes[n] \in Seq(Cell(Weight))
  BY <1>1, NodesTypes
<1>3. ASSUME NEW n \in 1 .. Len(ve.nodes)
      PROVE  Find(ve.nodes[n], d) = 0
  <2>1. d \notin Keys(ve.nodes[n])
    BY <1>2 DEF AllKeys
  <2> QED BY <1>1, <1>2, <2>1, FindProperties
<1>4. ve.level > 0 => Route(ve.nodes, d) \in 1 .. Len(ve.nodes)
  BY RouteProperties DEF EntryOK
<1> QED BY <1>1, <1>2, <1>3, <1>4 DEF FindEdgeWeight

\* A key is found where it is.
LEMMA LookupOfKey ==
  ASSUME NEW ve, EntryOK(ve), DisjointNodes(ve.nodes),
         NEW n \in 1 .. Len(ve.nodes), NEW i \in 1 .. Len(ve.nodes[n]),
         NEW e, e = ve.nodes[n][i]
  PROVE  FindEdgeWeight(ve, e.dst) = {e.weight}
<1> DEFINE d == e.dst
           scanned == IF ve.level = 0 THEN DOMAIN ve.nodes
                      ELSE {Route(ve.nodes, d)}
<1>1. /\ ve.nodes \in Seq(Seq(Cell(Weight)))
      /\ ve.level \in Nat
      /\ \A m \in 1 .. Len(ve.nodes) : Ascending(ve.nodes[m])
  BY EntryNodes
<1>2. /\ DOMAIN ve.nodes = 1 .. Len(ve.nodes)
      /\ Len(ve.nodes) \in Nat
      /\ \A m \in 1 .. Len(ve.nodes) : ve.nodes[m] \in Seq(Cell(Weight))
      /\ d \in Nat
  BY <1>1, NodesTypes, CellProperties
<1>3. d \in Keys(ve.nodes[n])
  BY <1>1, EntriesInNodes
<1> HIDE DEF d
<1>4. n \in scanned /\ scanned \subseteq 1 .. Len(ve.nodes)
  <2>1. CASE ve.level = 0
    BY <1>2, <2>1
  <2>2. CASE ve.level > 0
    <3>1. WellFormedChain(Weight, ve.nodes)
      BY <2>2 DEF EntryOK
    <3>2. n = Route(ve.nodes, d)
      BY <1>3, <3>1, RouteFindsKey
    <3> QED BY <2>2, <3>2
  <2> QED BY <1>1, <2>1, <2>2
<1>5. Find(ve.nodes[n], d) = i
  BY <1>1, <1>2, FindProperties DEF d
<1>6. i # 0
  BY <1>1, <1>2, CellProperties
<1>7. ASSUME NEW m \in scanned, m # n
      PROVE  Find(ve.nodes[m], d) = 0
  <2>1. m \in 1 .. Len(ve.nodes) /\ d \notin Keys(ve.nodes[m])
    BY <1>3, <1>4, <1>7 DEF DisjointNodes
  <2> QED BY <1>1, <1>2, <2>1, FindProperties
<1> DEFINE found == {m \in scanned : Find(ve.nodes[m], d) # 0}
           first == CHOOSE m \in found : \A k \in found : m <= k
<1>8. FindEdgeWeight(ve, d) =
        IF found = {} THEN {}
        ELSE {ve.nodes[first][Find(ve.nodes[first], d)].weight}
  BY DEF FindEdgeWeight
<1>9. found = {n}
  BY <1>4, <1>5, <1>6, <1>7
<1> HIDE DEF found
<1>10. first = n
  BY <1>2, <1>9
<1> HIDE DEF first
<1> QED BY <1>5, <1>8, <1>9, <1>10 DEF d

\* hasEdge and getEdgeWeight answer by what forEachNeighbor reports, in chunks
\* as in a tree, and in the middle of a promotion.
THEOREM LookupIsExact == Spec => []LookupFindsWhatIterationReports
<1>1. IInv /\ UniqueInv => LookupFindsWhatIterationReports
  <2> SUFFICES ASSUME IInv, UniqueInv, NEW j \in Ids, NEW d \in Ids
               PROVE  FindEdgeWeight(vertexTable[j], d) =
                        {e.weight : e \in {f \in AllEntries(vertexTable[j].nodes) :
                                             f.dst = d}}
    BY DEF LookupFindsWhatIterationReports
  <2>1. EntryOK(vertexTable[j]) /\ DisjointNodes(vertexTable[j].nodes)
    BY RegistryState DEF IInv, TableOK, Ids, UniqueInv
  <2>2. d \in Nat
    BY RegistryState, LenProperties DEF IInv, TableOK, Ids
  <2> DEFINE ve == vertexTable[j]
             hits == {f \in AllEntries(ve.nodes) : f.dst = d}
  <2>3. EntryOK(ve) /\ DisjointNodes(ve.nodes)
    BY <2>1
  <2> HIDE DEF ve
  <2>4. CASE d \notin AllKeys(ve.nodes)
    <3>1. hits = {}
      BY <2>4, KeysOfEntries
    <3> QED BY <2>2, <2>3, <2>4, <3>1, LookupOfNoKey DEF ve
  <2>5. CASE d \in AllKeys(ve.nodes)
    <3>1. PICK e \in AllEntries(ve.nodes) : e.dst = d
      BY <2>5, KeysOfEntries
    <3>2. hits = {e}
      BY <2>3, <3>1, OneEntryPerKey
    <3>3. PICK n \in 1 .. Len(ve.nodes) : \E i \in 1 .. Len(ve.nodes[n]) :
                  e = ve.nodes[n][i]
      BY <2>3, EntryNodes, EntriesInNodes
    <3>4. FindEdgeWeight(ve, d) = {e.weight}
      <4>1. PICK i \in 1 .. Len(ve.nodes[n]) : e = ve.nodes[n][i]
        BY <3>3
      <4>2. FindEdgeWeight(ve, e.dst) = {e.weight}
        BY <2>3, <4>1, LookupOfKey
      <4> QED BY <3>1, <4>2
    <3> HIDE DEF hits
    <3>5. FindEdgeWeight(ve, d) = {f.weight : f \in hits}
      BY <3>2, <3>4
    <3> QED BY <3>5 DEF hits, ve
  <2> QED BY <2>4, <2>5
<1> QED BY <1>1, ContentsInvariant, PTL

-----------------------------------------------------------------------------
(* The traversal.                                                          *)

\* A current chain, and the pointers f that a walk of it meets.
Current(table, head) ==
  /\ head = ChainAfter(table, 0)
  /\ \A i \in Occupied(table) : table[i].gtNext = ChainAfter(table, i)

NextPointer(table, p) ==
  IF p.kind = "Null" THEN NullPointer ELSE table[p.vertexIdx].gtNext

Follows(f, table, head) ==
  f = [k \in 0 .. Len(table) |->
         IF k = 0 THEN head ELSE NextPointer(table, f[k - 1])]

\* A link of the chain skips no vertex that has edges.
LEMMA ChainSkipsNone ==
  ASSUME NEW table \in Seq(VertexEntry), NEW i
  PROVE  \/ /\ ChainAfter(table, i) = NullPointer
            /\ \A j \in Occupied(table) : ~(j > i)
         \/ \E j \in Occupied(table) :
               /\ ChainAfter(table, i) = HeadNode(table, j)
               /\ j > i
               /\ \A k \in Occupied(table) : k > i => j <= k
<1> DEFINE later == {j \in Occupied(table) : j > i}
           next == CHOOSE j \in later : \A k \in later : j <= k
<1>1. DOMAIN table = 1 .. Len(table) /\ Len(table) \in Nat
  BY LenProperties
<1>2. later \subseteq Nat
  BY <1>1 DEF Occupied
<1>3. ChainAfter(table, i) = IF later = {} THEN NullPointer ELSE HeadNode(table, next)
  BY DEF ChainAfter
<1>4. CASE later = {}
  BY <1>3, <1>4
<1>5. CASE later # {}
  <2>1. next \in later /\ \A k \in later : next <= k
    BY <1>2, <1>5, LeastElement
  <2> HIDE DEF next
  <2> QED BY <1>3, <1>5, <2>1
<1> QED BY <1>4, <1>5

\* There is such a walk.
LEMMA WalkExists ==
  ASSUME NEW table \in Seq(VertexEntry), NEW head, Current(table, head)
  PROVE  \E f : Follows(f, table, head)
<1> DEFINE V == {NullPointer} \cup {HeadNode(table, i) : i \in Occupied(table)}
           step == [p \in V |-> NextPointer(table, p)]
           N == Len(table)
<1>1. N \in Nat
  BY LenProperties
<1>2. \A i : ChainAfter(table, i) \in V
  BY ChainSkipsNone
<1>3. head \in V
  BY <1>2 DEF Current
<1>4. ASSUME NEW p \in V
      PROVE  NextPointer(table, p) \in V
  <2>1. CASE p = NullPointer
    BY <2>1 DEF NextPointer, NullPointer
  <2>2. CASE \E i \in Occupied(table) : p = HeadNode(table, i)
    <3>1. PICK i \in Occupied(table) : p = HeadNode(table, i)
      BY <2>2
    <3>2. NextPointer(table, p) = ChainAfter(table, i)
      BY <3>1 DEF NextPointer, HeadNode, Current
    <3> QED BY <1>2, <3>2
  <2> QED BY <2>1, <2>2
<1>5. step \in [V -> V]
  BY <1>4
<1>6. \A p \in V : step[p] = NextPointer(table, p)
  OBVIOUS
<1> HIDE DEF V, step, N
<1>7. PICK g \in [0 .. N -> V] : Iterates(g, N, head, step)
  BY <1>1, <1>3, <1>5, RecursiveFunction
<1>8. ASSUME NEW k \in 0 .. N
      PROVE  g[k] = IF k = 0 THEN head ELSE NextPointer(table, g[k - 1])
  <2>1. CASE k = 0
    BY <1>7, <2>1 DEF Iterates
  <2>2. CASE k # 0
    <3>1. k - 1 \in 0 .. N /\ g[k] = step[g[k - 1]]
      BY <1>1, <1>7, <2>2 DEF Iterates
    <3>2. g[k - 1] \in V
      BY <1>7, <3>1
    <3> QED BY <1>6, <2>2, <3>1, <3>2
  <2> QED BY <2>1, <2>2
<1>9. g = [k \in 0 .. N |-> IF k = 0 THEN head ELSE NextPointer(table, g[k - 1])]
  BY <1>7, <1>8
<1> QED BY <1>9 DEF Follows, N

\* The vertices whose nodes were visited by the first k pointers.
Visited(f, k) == {f[l].vertexIdx : l \in {m \in 0 .. k - 1 : f[m].kind # "Null"}}

\* After k pointers the walk has visited the vertices with edges before the
\* one that the next pointer names, or all of them if that is null.
HasVisited(f, table, k) ==
  \/ f[k] = NullPointer /\ Visited(f, k) = Occupied(table)
  \/ \E j \in Occupied(table) :
        /\ f[k] = HeadNode(table, j)
        /\ j > k
        /\ Visited(f, k) = {i \in Occupied(table) : i < j}

LEMMA WalkVisits ==
  ASSUME NEW table \in Seq(VertexEntry), NEW head, Current(table, head),
         NEW f, Follows(f, table, head)
  PROVE  \A k \in 0 .. Len(table) : HasVisited(f, table, k)
<1> DEFINE N == Len(table)
           O == Occupied(table)
           S == {k \in Nat : k <= N => HasVisited(f, table, k)}
<1>1. N \in Nat /\ O \subseteq Nat /\ \A j \in O : j > 0
  BY LenProperties DEF Occupied
<1>2. \A k \in 0 .. N : f[k] = IF k = 0 THEN head ELSE NextPointer(table, f[k - 1])
  BY Zenon DEF Follows
<1>3. \A j : HeadNode(table, j).kind # "Null" /\ HeadNode(table, j).vertexIdx = j
  BY DEF HeadNode
<1>4. NullPointer.kind = "Null"
  BY DEF NullPointer
<1>5. 0 \in S
  <2>1. f[0] = ChainAfter(table, 0)
    BY <1>1, <1>2 DEF Current
  <2>2. Visited(f, 0) = {}
    BY DEF Visited
  <2>3. CASE /\ ChainAfter(table, 0) = NullPointer
             /\ \A j \in O : ~(j > 0)
    BY <1>1, <2>1, <2>2, <2>3 DEF HasVisited
  <2>4. CASE \E j \in O : /\ ChainAfter(table, 0) = HeadNode(table, j)
                          /\ j > 0
                          /\ \A k \in O : k > 0 => j <= k
    <3>1. PICK j \in O : /\ ChainAfter(table, 0) = HeadNode(table, j)
                         /\ j > 0
                         /\ \A k \in O : k > 0 => j <= k
      BY <2>4
    <3>2. {i \in O : i < j} = {}
      BY <1>1, <3>1
    <3> QED BY <2>1, <2>2, <3>1, <3>2 DEF HasVisited
  <2> QED BY <2>3, <2>4, ChainSkipsNone
<1>6. ASSUME NEW k \in Nat, k \in S PROVE k + 1 \in S
  <2> SUFFICES ASSUME k + 1 <= N PROVE HasVisited(f, table, k + 1)
    OBVIOUS
  <2>1. /\ HasVisited(f, table, k)
        /\ k \in 0 .. N /\ k + 1 \in 0 .. N /\ (k + 1) - 1 = k
    BY <1>1, <1>6
  <2>2. f[k + 1] = NextPointer(table, f[k])
    BY <1>2, <2>1
  <2>3. \A m \in 0 .. (k + 1) - 1 : m = k \/ m \in 0 .. k - 1
    OBVIOUS
  <2>4. CASE f[k] = NullPointer /\ Visited(f, k) = O
    <3>1. f[k + 1] = NullPointer
      BY <1>4, <2>2, <2>4 DEF NextPointer
    <3>2. Visited(f, k + 1) = Visited(f, k)
      BY <1>4, <2>3, <2>4 DEF Visited
    <3> QED BY <2>4, <3>1, <3>2 DEF HasVisited
  <2>5. CASE \E j \in O : /\ f[k] = HeadNode(table, j)
                          /\ j > k
                          /\ Visited(f, k) = {i \in O : i < j}
    <3>1. PICK j \in O : /\ f[k] = HeadNode(table, j)
                         /\ j > k
                         /\ Visited(f, k) = {i \in O : i < j}
      BY <2>5
    <3>2. f[k + 1] = ChainAfter(table, j)
      BY <1>3, <2>2, <3>1 DEF NextPointer, Current
    <3>3. Visited(f, k + 1) = Visited(f, k) \cup {j}
      BY <1>3, <2>1, <2>3, <3>1 DEF Visited
    <3>4. CASE /\ ChainAfter(table, j) = NullPointer
               /\ \A i \in O : ~(i > j)
      <4>1. Visited(f, k + 1) = O
        <5>1. \A i \in O : i < j \/ i = j
          BY <1>1, <3>4
        <5> QED BY <3>1, <3>3, <5>1
      <4> QED BY <3>2, <3>4, <4>1 DEF HasVisited
    <3>5. CASE \E i \in O : /\ ChainAfter(table, j) = HeadNode(table, i)
                            /\ i > j
                            /\ \A l \in O : l > j => i <= l
      <4>1. PICK i \in O : /\ ChainAfter(table, j) = HeadNode(table, i)
                           /\ i > j
                           /\ \A l \in O : l > j => i <= l
        BY <3>5
      <4>2. Visited(f, k + 1) = {l \in O : l < i}
        BY <1>1, <3>1, <3>3, <4>1
      <4>3. i > k + 1
        BY <1>1, <3>1, <4>1
      <4> QED BY <3>2, <4>1, <4>2, <4>3 DEF HasVisited
    <3> QED BY <3>4, <3>5, ChainSkipsNone
  <2> QED BY <2>1, <2>4, <2>5 DEF HasVisited
<1>7. Nat \subseteq S
  <2> HIDE DEF S
  <2> QED BY <1>5, <1>6, SetInduction
<1> QED BY <1>1, <1>7

\* The walk up to its first null pointer: each vertex with edges once.
LEMMA WalkOfCurrentChain ==
  ASSUME NEW table \in Seq(VertexEntry), NEW head, Current(table, head),
         NEW f, Follows(f, table, head), NEW n \in 0 .. Len(table),
         f[n].kind = "Null", \A k \in 0 .. Len(table) : f[k].kind = "Null" => n <= k
  PROVE  /\ n = Cardinality(Occupied(table))
         /\ {f[k - 1].vertexIdx : k \in 1 .. n} = Occupied(table)
         /\ \A k \in 1 .. n : f[k - 1] = HeadNode(table, f[k - 1].vertexIdx)
<1> DEFINE N == Len(table)
           O == Occupied(table)
           idx == [k \in 1 .. n |-> f[k - 1].vertexIdx]
<1>1. N \in Nat /\ n \in Nat /\ O \subseteq 1 .. N
  BY LenProperties DEF Occupied
<1>2. \A k \in 0 .. N : HasVisited(f, table, k)
  BY WalkVisits
<1>3. \A j : HeadNode(table, j).kind # "Null" /\ HeadNode(table, j).vertexIdx = j
  BY DEF HeadNode
<1>4. Visited(f, n) = O
  BY <1>2, <1>3 DEF HasVisited
<1>5. ASSUME NEW k \in 0 .. n - 1
      PROVE  /\ f[k].kind # "Null"
             /\ f[k].vertexIdx \in O
             /\ f[k] = HeadNode(table, f[k].vertexIdx)
             /\ Visited(f, k) = {i \in O : i < f[k].vertexIdx}
  <2>1. k \in 0 .. N /\ ~(n <= k)
    BY <1>1
  <2>2. f[k].kind # "Null"
    BY <2>1
  <2>3. f[k] # NullPointer
    BY <2>2 DEF NullPointer
  <2> QED BY <1>2, <1>3, <2>1, <2>2, <2>3 DEF HasVisited
<1>6. ASSUME NEW k \in 0 .. n - 1, NEW l \in 0 .. n - 1, k < l
      PROVE  f[k].vertexIdx < f[l].vertexIdx
  <2>1. k \in 0 .. l - 1
    BY <1>1, <1>6
  <2>2. f[k].vertexIdx \in Visited(f, l)
    BY <1>5, <2>1 DEF Visited
  <2> QED BY <1>5, <2>2
<1>7. \A k \in 1 .. n : k - 1 \in 0 .. n - 1
  BY <1>1
<1>8. idx \in [1 .. n -> O]
  BY <1>5, <1>7
<1>9. \A k, l \in 1 .. n : idx[k] = idx[l] => k = l
  <2> SUFFICES ASSUME NEW k \in 1 .. n, NEW l \in 1 .. n, k < l
               PROVE  idx[k] < idx[l]
    <3>1. \A k \in 1 .. n : idx[k] \in Nat
      <4>1. O \subseteq Nat
        BY <1>1
      <4> HIDE DEF O, idx
      <4> QED BY <1>8, <4>1
    <3> QED BY <1>1, <3>1
  <2>1. k - 1 < l - 1
    BY <1>1
  <2> QED BY <1>6, <1>7, <2>1
<1>10. \A i \in O : \E k \in 1 .. n : idx[k] = i
  <2> SUFFICES ASSUME NEW i \in O
               PROVE  \E k \in 1 .. n : idx[k] = i
    OBVIOUS
  <2>1. PICK m \in 0 .. n - 1 : f[m].vertexIdx = i
    BY <1>4 DEF Visited
  <2>2. m + 1 \in 1 .. n /\ (m + 1) - 1 = m
    BY <1>1
  <2> QED BY <2>1, <2>2
<1>11. IsFiniteSet(O)
  <2>1. IsFiniteSet(1 .. N)
    BY <1>1, FS_Interval
  <2> QED BY <1>1, <2>1, FS_Subset
<1>12. Cardinality(1 .. n) = Cardinality(O)
  <2> DEFINE S == 1 .. n
  <2>1. /\ idx \in [S -> O]
        /\ \A k, l \in S : idx[k] = idx[l] => k = l
        /\ \A i \in O : \E k \in S : idx[k] = i
    BY <1>8, <1>9, <1>10
  <2> HIDE DEF idx, O, S
  <2>2. Cardinality(S) = Cardinality(O)
    BY <2>1, <1>11, OneToOneCount
  <2> QED BY <2>2 DEF S
<1>13. Cardinality(1 .. n) = n
  BY <1>1, FS_Interval
<1>14. {f[k - 1].vertexIdx : k \in 1 .. n} = O
  BY <1>8, <1>10
<1> QED BY <1>5, <1>7, <1>12, <1>13, <1>14

\* On a chain that is not marked, traverseEntireGraph visits the nodes of each
\* vertex that has edges once, from the first node on, and comes to an end.
THEOREM TraversalIsComplete == Spec => []TraversalVisitsAll
<1>1. IInv => TraversalVisitsAll
  <2> SUFFICES ASSUME IInv, bulk = {}, ~gtChainDirty
               PROVE  /\ Len(ChainWalk) = Cardinality(Occupied(vertexTable))
                      /\ {p.vertexIdx : p \in RangeOf(ChainWalk)} = Occupied(vertexTable)
                      /\ \A k \in DOMAIN ChainWalk :
                            ChainWalk[k] = HeadNode(vertexTable, ChainWalk[k].vertexIdx)
    BY DEF TraversalVisitsAll
  <2> DEFINE f == CHOOSE g : Follows(g, vertexTable, gtHead)
             N == Len(vertexTable)
             ends == {k \in 0 .. N : f[k].kind = "Null"}
             length == CHOOSE k \in ends : \A l \in ends : k <= l
  <2>1. vertexTable \in Seq(VertexEntry) /\ Current(vertexTable, gtHead)
    BY RegistryState DEF IInv, TableOK, CleanChain, Current
  <2>2. N \in Nat /\ Occupied(vertexTable) \subseteq 1 .. N
    BY <2>1, LenProperties DEF Occupied
  <2>3. Follows(f, vertexTable, gtHead)
    BY <2>1, WalkExists
  <2>4. DOMAIN f = 0 .. N
    BY <2>3 DEF Follows
  <2>5. ChainWalk = [k \in 1 .. IF ends = {} THEN N + 1 ELSE length |-> f[k - 1]]
    BY <2>4 DEF ChainWalk, Follows, NextPointer
  <2> HIDE DEF f
  <2>6. N \in ends
    <3>1. HasVisited(f, vertexTable, N)
      BY <2>1, <2>2, <2>3, WalkVisits
    <3>2. \A j \in Occupied(vertexTable) : ~(j > N)
      BY <2>2
    <3>3. f[N] = NullPointer
      BY <3>1, <3>2 DEF HasVisited
    <3> QED BY <2>2, <3>3 DEF NullPointer
  <2>7. length \in ends /\ \A l \in ends : length <= l
    <3>1. ends \in SUBSET Nat /\ ends # {}
      BY <2>6
    <3> HIDE DEF ends
    <3> QED BY <3>1, LeastElement
  <2> HIDE DEF length
  <2>8. ChainWalk = [k \in 1 .. length |-> f[k - 1]]
    BY <2>5, <2>6
  <2>9. /\ length = Cardinality(Occupied(vertexTable))
        /\ {f[k - 1].vertexIdx : k \in 1 .. length} = Occupied(vertexTable)
        /\ \A k \in 1 .. length :
              f[k - 1] = HeadNode(vertexTable, f[k - 1].vertexIdx)
    BY <2>1, <2>3, <2>7, WalkOfCurrentChain
  <2>10. Len(ChainWalk) = length
    BY <2>7, <2>8
  <2>11. {p.vertexIdx : p \in RangeOf(ChainWalk)}
           = {f[k - 1].vertexIdx : k \in 1 .. length}
    BY <2>8 DEF RangeOf
  <2> QED BY <2>8, <2>9, <2>10, <2>11
<1> QED BY <1>1, GraphInvariant, PTL

-----------------------------------------------------------------------------
(* Sets of directed edges.                                                 *)

Edge(i, e) == [src |-> i, dst |-> e.dst, weight |-> e.weight]

SamePair(e, f) == e.src = f.src /\ e.dst = f.dst

OnePerPair(E) == \A e, f \in E : SamePair(e, f) => e = f

StoredIn(table) ==
  UNION {{Edge(i, e) : e \in AllEntries(table[i].nodes)} : i \in DOMAIN table}

\* The edges of set S, those of set P taking the place of others between the
\* same vertices.
Edges(P, S) == P \cup {e \in S : ~ \E p \in P : SamePair(p, e)}

LEMMA EdgeSetIsEdges == EdgeSet = Edges(Pending, StoredIn(vertexTable))
BY DEF EdgeSet, Edges, SamePair, Stored, StoredIn, Edge, Ids

LEMMA EdgeFields ==
  \A i, e : Edge(i, e).src = i /\ Edge(i, e).dst = e.dst /\ Edge(i, e).weight = e.weight
BY DEF Edge

LEMMA StoredEdges ==
  ASSUME NEW table
  PROVE  /\ \A i \in DOMAIN table : \A e \in AllEntries(table[i].nodes) :
               Edge(i, e) \in StoredIn(table)
         /\ \A x \in StoredIn(table) :
               /\ x.src \in DOMAIN table
               /\ \E e \in AllEntries(table[x.src].nodes) : x = Edge(x.src, e)
<1>1. ASSUME NEW x \in StoredIn(table)
      PROVE  /\ x.src \in DOMAIN table
             /\ \E e \in AllEntries(table[x.src].nodes) : x = Edge(x.src, e)
  <2>1. PICK i \in DOMAIN table : x \in {Edge(i, e) : e \in AllEntries(table[i].nodes)}
    BY DEF StoredIn
  <2>2. PICK e \in AllEntries(table[i].nodes) : x = Edge(i, e)
    BY <2>1
  <2> QED BY <2>2, EdgeFields
<1>2. \A i \in DOMAIN table : \A e \in AllEntries(table[i].nodes) :
         Edge(i, e) \in StoredIn(table)
  BY DEF StoredIn
<1> QED BY <1>1, <1>2

\* Stored edges become pending ones.
LEMMA TakenEdges ==
  ASSUME NEW P, NEW S, NEW R \in SUBSET S,
         \A r \in R : \A p \in P : ~SamePair(p, r),
         \A r \in R : \A s \in S \ R : ~SamePair(r, s)
  PROVE  Edges(P \cup R, S \ R) = Edges(P, S)
BY DEF Edges

\* Storing an entry.
LEMMA StoredChange ==
  ASSUME NEW table, NEW new, NEW s \in DOMAIN table, NEW e,
         DOMAIN new = DOMAIN table,
         \A i \in DOMAIN table : i # s => new[i] = table[i],
         AllEntries(new[s].nodes) =
            {f \in AllEntries(table[s].nodes) : f.dst # e.dst} \cup {e}
  PROVE  StoredIn(new) = {y \in StoredIn(table) : ~SamePair(Edge(s, e), y)} \cup {Edge(s, e)}
<1>1. ASSUME NEW y \in StoredIn(new)
      PROVE  y = Edge(s, e) \/ (y \in StoredIn(table) /\ ~SamePair(Edge(s, e), y))
  <2>1. y.src \in DOMAIN table
    BY StoredEdges
  <2>2. PICK f \in AllEntries(new[y.src].nodes) : y = Edge(y.src, f)
    BY StoredEdges
  <2>3. CASE y.src = s
    <3>1. f = e \/ (f \in AllEntries(table[s].nodes) /\ f.dst # e.dst)
      BY <2>2, <2>3
    <3>2. f # e => Edge(s, f) \in StoredIn(table)
      BY <3>1, StoredEdges
    <3> QED BY <2>2, <2>3, <3>1, <3>2, EdgeFields DEF SamePair
  <2>4. CASE y.src # s
    <3>1. f \in AllEntries(table[y.src].nodes)
      BY <2>1, <2>2, <2>4
    <3>2. y \in StoredIn(table)
      BY <2>1, <2>2, <3>1, StoredEdges
    <3> QED BY <2>4, <3>2, EdgeFields DEF SamePair
  <2> QED BY <2>3, <2>4
<1>2. Edge(s, e) \in StoredIn(new)
  BY StoredEdges
<1>3. ASSUME NEW y \in StoredIn(table), ~SamePair(Edge(s, e), y)
      PROVE  y \in StoredIn(new)
  <2>1. y.src \in DOMAIN table
    BY StoredEdges
  <2>2. PICK f \in AllEntries(table[y.src].nodes) : y = Edge(y.src, f)
    BY StoredEdges
  <2>3. f \in AllEntries(new[y.src].nodes)
    <3>1. CASE y.src = s
      <4>1. f.dst # e.dst
        BY <1>3, <2>2, <3>1, EdgeFields DEF SamePair
      <4> QED BY <2>2, <3>1, <4>1
    <3>2. CASE y.src # s
      BY <2>1, <2>2, <3>2
    <3> QED BY <3>1, <3>2
  <2>4. Edge(y.src, f) \in StoredIn(new)
    BY <2>1, <2>3, StoredEdges
  <2> QED BY <2>2, <2>4
<1> QED BY <1>1, <1>2, <1>3

\* Emptying a vertex.
LEMMA StoredTaken ==
  ASSUME NEW table, NEW new, NEW s \in DOMAIN table,
         DOMAIN new = DOMAIN table,
         \A i \in DOMAIN table : i # s => new[i] = table[i],
         AllEntries(new[s].nodes) = {}
  PROVE  LET R == {Edge(s, e) : e \in AllEntries(table[s].nodes)}
         IN  /\ StoredIn(new) = StoredIn(table) \ R
             /\ R \subseteq StoredIn(table)
             /\ \A y \in StoredIn(table) \ R : y.src # s
<1> DEFINE R == {Edge(s, e) : e \in AllEntries(table[s].nodes)}
<1>1. R \subseteq StoredIn(table)
  BY StoredEdges
<1>2. ASSUME NEW y \in StoredIn(table), y \notin R
      PROVE  y.src # s /\ y \in StoredIn(new)
  <2>1. y.src \in DOMAIN table
    BY StoredEdges
  <2>2. PICK f \in AllEntries(table[y.src].nodes) : y = Edge(y.src, f)
    BY StoredEdges
  <2>3. y.src # s
    BY <1>2, <2>2
  <2>4. f \in AllEntries(new[y.src].nodes)
    BY <2>1, <2>2, <2>3
  <2>5. Edge(y.src, f) \in StoredIn(new)
    BY <2>1, <2>4, StoredEdges
  <2> QED BY <2>2, <2>3, <2>5
<1>3. ASSUME NEW y \in StoredIn(new)
      PROVE  y \in StoredIn(table) \ R
  <2>1. y.src \in DOMAIN table
    BY StoredEdges
  <2>2. PICK f \in AllEntries(new[y.src].nodes) : y = Edge(y.src, f)
    BY StoredEdges
  <2>3. y.src # s
    BY <2>2
  <2>4. f \in AllEntries(table[y.src].nodes)
    BY <2>1, <2>2, <2>3
  <2>5. Edge(y.src, f) \in StoredIn(table)
    BY <2>1, <2>4, StoredEdges
  <2>6. y \notin R
    BY <2>3, EdgeFields
  <2> QED BY <2>2, <2>5, <2>6
<1> HIDE DEF R
<1>4. StoredIn(new) = StoredIn(table) \ R
  BY <1>2, <1>3
<1> QED BY <1>1, <1>2, <1>4 DEF R

\* No pair of vertices is stored twice.
LEMMA StoredOnePerPair ==
  ASSUME IInv, UniqueInv
  PROVE  /\ OnePerPair(StoredIn(vertexTable))
         /\ \A x \in StoredIn(vertexTable) : x.src \in Ids /\ x.dst \in Ids
<1>1. \A i \in Ids : /\ EntryOK(vertexTable[i])
                     /\ DisjointNodes(vertexTable[i].nodes)
                     /\ AllKeys(vertexTable[i].nodes) \subseteq Ids
  BY RegistryState DEF IInv, TableOK, UniqueInv, Ids
<1>2. ASSUME NEW x \in StoredIn(vertexTable), NEW y \in StoredIn(vertexTable), SamePair(x, y)
      PROVE  x = y
  <2>1. PICK e \in AllEntries(vertexTable[x.src].nodes) : x = Edge(x.src, e)
    BY StoredEdges
  <2>2. PICK f \in AllEntries(vertexTable[y.src].nodes) : y = Edge(y.src, f)
    BY StoredEdges
  <2>3. x.src = y.src /\ e.dst = f.dst /\ x.src \in Ids
    BY <1>2, <2>1, <2>2, EdgeFields, StoredEdges DEF SamePair, Ids
  <2>4. f \in AllEntries(vertexTable[x.src].nodes)
    BY <2>2, <2>3
  <2>5. e = f
    BY <1>1, <2>1, <2>3, <2>4, OneEntryPerKey
  <2> QED BY <2>1, <2>2, <2>3, <2>5
<1>3. ASSUME NEW x \in StoredIn(vertexTable)
      PROVE  x.src \in Ids /\ x.dst \in Ids
  <2>1. PICK e \in AllEntries(vertexTable[x.src].nodes) : x = Edge(x.src, e)
    BY StoredEdges
  <2>2. x.src \in Ids /\ x.dst = e.dst
    BY <2>1, EdgeFields, StoredEdges DEF Ids
  <2>3. e.dst \in AllKeys(vertexTable[x.src].nodes)
    BY <2>1, KeysOfEntries
  <2> QED BY <1>1, <2>2, <2>3
<1> QED BY <1>2, <1>3 DEF OnePerPair

\* The running insertion and those that follow it.
LEMMA RunningEdges ==
  ASSUME IInv, UniqueInv, todo # << >>
  PROVE  /\ RangeOf(todo) = RangeOf(Tail(todo)) \cup {Edge(Insertion.src, NewEntry)}
         /\ \A q \in RangeOf(Tail(todo)) : q.src # Insertion.src
<1>1. /\ 1 \in DOMAIN todo
      /\ \A k \in DOMAIN Tail(todo) : k + 1 \in DOMAIN todo /\ Tail(todo)[k] = todo[k + 1]
      /\ \A k \in DOMAIN todo : k # 1 => k - 1 \in DOMAIN Tail(todo) /\ Tail(todo)[k - 1] = todo[k]
      /\ \A k \in DOMAIN Tail(todo) : k \in Nat /\ k + 1 # 1
      /\ Insertion = todo[1]
  BY TailOfTodo
<1>2. Insertion \in DirectedInsert
  BY <1>1, ElementOfSeq, LenProperties DEF IInv, CallsOK
<1>3. Insertion = Edge(Insertion.src, NewEntry)
  BY <1>2 DEF Edge, NewEntry, DirectedInsert
<1>4. RangeOf(Tail(todo)) \subseteq RangeOf(todo) /\ Insertion \in RangeOf(todo)
  BY <1>1 DEF RangeOf
<1>5. ASSUME NEW t \in RangeOf(todo), t # Insertion
      PROVE  t \in RangeOf(Tail(todo))
  <2>1. PICK k \in DOMAIN todo : t = todo[k]
    BY DEF RangeOf
  <2>2. k # 1
    BY <1>1, <1>5, <2>1
  <2> QED BY <1>1, <2>1, <2>2 DEF RangeOf
<1>6. ASSUME NEW q \in RangeOf(Tail(todo))
      PROVE  q.src # Insertion.src
  <2>1. PICK k \in DOMAIN Tail(todo) : q = Tail(todo)[k]
    BY DEF RangeOf
  <2>2. k + 1 \in DOMAIN todo /\ k + 1 # 1 /\ q = todo[k + 1]
    BY <1>1, <2>1
  <2> QED BY <1>1, <2>2 DEF UniqueInv
<1> QED BY <1>3, <1>4, <1>5, <1>6

\* Storing an entry whose edge was pending changes no edge of the graph.
LEMMA StoringKeepsEdges ==
  ASSUME IInv, todo # << >>, NEW e, StoresEntry(e),
         Pending = Pending' \cup {Edge(Insertion.src, e)},
         \A q \in Pending' : ~SamePair(q, Edge(Insertion.src, e))
  PROVE  EdgeSet' = EdgeSet
<1> DEFINE s == Insertion.src
<1>1. /\ s \in DOMAIN vertexTable
      /\ DOMAIN vertexTable' = DOMAIN vertexTable
      /\ \A i \in DOMAIN vertexTable : i # s => vertexTable'[i] = vertexTable[i]
      /\ AllEntries(vertexTable'[s].nodes) =
            {f \in AllEntries(vertexTable[s].nodes) : f.dst # e.dst} \cup {e}
  BY RunningInsertion DEF StoresEntry, Source, Ids
<1>2. StoredIn(vertexTable') =
         {y \in StoredIn(vertexTable) : ~SamePair(Edge(s, e), y)} \cup {Edge(s, e)}
  <2> HIDE DEF s
  <2> QED BY <1>1, StoredChange
<1>3. Edges(Pending', StoredIn(vertexTable')) = Edges(Pending, StoredIn(vertexTable))
  <2> DEFINE x == Edge(s, e)
             P == Pending
             Q == Pending'
             S == StoredIn(vertexTable)
             T == StoredIn(vertexTable')
  <2>1. /\ P = Q \cup {x}
        /\ \A q \in Q : ~SamePair(q, x)
        /\ \A y : y \in T <=> y = x \/ (y \in S /\ ~SamePair(x, y))
    BY <1>2
  <2> HIDE DEF x, P, Q, S, T
  <2>2. SamePair(x, x)
    BY DEF SamePair
  <2>3. Edges(Q, T) = Edges(P, S)
    BY <2>1, <2>2 DEF Edges
  <2> QED BY <2>3 DEF P, Q, S, T
<1>4. EdgeSet' = Edges(Pending', StoredIn(vertexTable'))
  BY DEF EdgeSet, Edges, SamePair, Stored, StoredIn, Edge, Ids
<1> QED BY <1>3, <1>4, EdgeSetIsEdges

\* No step of insertDirectedEdge changes an edge of the graph: the edge was
\* there from the call on.
LEMMA InsertionKeepsEdges ==
  ASSUME IInv, UniqueInv, InsertDirectedEdge
  PROVE  EdgeSet' = EdgeSet
<1>1. todo # << >>
  BY DEF InsertDirectedEdge, UpdateExisting, InsertIntoTailChunk, InsertIntoNewChunk,
         InsertIntoTree, PromoteToBPlusTree, InsertPromotedItem, InsertsNew, Inserting,
         IInv, BulkOK
<1> DEFINE s == Insertion.src
           Q == RangeOf(Tail(todo))
<1>2. /\ RangeOf(todo) = Q \cup {Edge(s, NewEntry)}
      /\ \A q \in Q : q.src # s
  BY <1>1, RunningEdges
<1>3. CASE \/ UpdateExisting \/ InsertIntoTailChunk
           \/ InsertIntoNewChunk \/ InsertIntoTree
  <2>1. bulk = {} /\ bulk' = {} /\ todo' = Tail(todo)
    BY <1>3 DEF UpdateExisting, InsertIntoTailChunk, InsertIntoNewChunk, InsertIntoTree,
                InsertsNew, Inserting, InsertReturns
  <2>2. StoresEntry(NewEntry)
    BY <1>3, UpdateStores, InsertStores
  <2>3. Pending = RangeOf(todo) /\ Pending' = Q
    BY <2>1 DEF Pending, RangeOf
  <2>4. \A q \in Pending' : ~SamePair(q, Edge(s, NewEntry))
    BY <1>2, <2>3, EdgeFields DEF SamePair
  <2> QED BY <1>1, <1>2, <2>2, <2>3, <2>4, StoringKeepsEdges
<1>4. CASE InsertPromotedItem
  <2>1. PICK e \in bulk :
           /\ StoresEntry(e)
           /\ bulk' = bulk \ {e}
           /\ todo' = IF bulk' = {} THEN Tail(todo) ELSE todo
    BY <1>4, PromotedItemStores
  <2>2. \A f, g \in bulk : f.dst = g.dst => f = g
    BY DEF IInv, BulkOK
  <2>3. Pending = {Edge(s, f) : f \in bulk} \cup Q
    BY <2>1 DEF Pending, PendingBulk, Edge
  <2>4. Pending' = {Edge(s, f) : f \in bulk \ {e}} \cup Q
    <3>1. CASE bulk' = {}
      <4>1. bulk \ {e} = {} /\ todo' = Tail(todo)
        BY <2>1, <3>1
      <4>2. Pending' = RangeOf(todo')
        BY <3>1 DEF Pending, RangeOf
      <4> QED BY <4>1, <4>2 DEF RangeOf
    <3>2. CASE bulk' # {}
      <4>1. todo' = todo
        BY <2>1, <3>2
      <4> QED BY <2>1, <3>2, <4>1 DEF Pending, PendingBulk, Edge, Insertion, RangeOf
    <3> QED BY <3>1, <3>2
  <2>5. Pending = Pending' \cup {Edge(s, e)}
    BY <2>1, <2>3, <2>4
  <2>6. \A q \in Pending' : ~SamePair(q, Edge(s, e))
    BY <1>2, <2>1, <2>2, <2>4, EdgeFields DEF SamePair
  <2> QED BY <1>1, <2>1, <2>5, <2>6, StoringKeepsEdges
<1>5. CASE PromoteToBPlusTree
  <2> DEFINE R == {Edge(s, f) : f \in AllEntries(Source.nodes)}
             P == RangeOf(todo)
             S == StoredIn(vertexTable)
  <2>1. /\ DOMAIN vertexTable' = DOMAIN vertexTable
        /\ \A i \in Ids : i # s => vertexTable'[i] = vertexTable[i]
        /\ AllEntries(vertexTable'[s].nodes) = {}
        /\ bulk' = AllEntries(Source.nodes) \cup {NewEntry}
        /\ NewEntry.dst \notin AllKeys(Source.nodes)
        /\ bulk = {}
    BY <1>5, PromoteStores
  <2>2. todo' = todo
    BY <1>5 DEF PromoteToBPlusTree
  <2>3. /\ StoredIn(vertexTable') = S \ R
        /\ R \subseteq S
        /\ \A y \in S \ R : y.src # s
    <3>1. s \in DOMAIN vertexTable /\ Source = vertexTable[s]
      BY <1>1, RunningInsertion DEF Ids
    <3> HIDE DEF s
    <3> QED BY <2>1, <3>1, StoredTaken DEF Ids
  <2>4. Pending = P
    BY <2>1 DEF Pending
  <2>5. Pending' = {Edge(s, f) : f \in bulk'} \cup Q
    BY <2>1, <2>2 DEF Pending, PendingBulk, Edge, Insertion, RangeOf
  <2>6. Pending' = P \cup R
    BY <1>2, <2>1, <2>5
  <2>7. \A r \in R : \A p \in P : ~SamePair(p, r)
    <3>1. \A r \in R : r.src = s /\ r.dst \in AllKeys(Source.nodes)
      BY EdgeFields, KeysOfEntries
    <3>2. \A p \in P : p.src = s => p.dst = NewEntry.dst
      BY <1>2, EdgeFields
    <3> QED BY <2>1, <3>1, <3>2 DEF SamePair
  <2>8. \A r \in R : \A y \in S \ R : ~SamePair(r, y)
    BY <2>3, EdgeFields DEF SamePair
  <2> HIDE DEF R, P, S
  <2>9. Edges(P \cup R, S \ R) = Edges(P, S)
    BY <2>3, <2>7, <2>8, TakenEdges
  <2>10. EdgeSet' = Edges(Pending', StoredIn(vertexTable'))
    BY DEF EdgeSet, Edges, SamePair, Stored, StoredIn, Edge, Ids
  <2> QED BY <2>3, <2>4, <2>6, <2>9, <2>10, EdgeSetIsEdges DEF S
<1> QED BY <1>3, <1>4, <1>5 DEF InsertDirectedEdge

-----------------------------------------------------------------------------
(* The weights of a set of edges, as a function of pairs of vertices.      *)

Ends(rev, e) == <<rev[e.src], rev[e.dst]>>

WeightsOf(E, rev) ==
  [p \in {Ends(rev, e) : e \in E} |-> (CHOOSE e \in E : Ends(rev, e) = p).weight]

\* Edges between the vertices numbered in D, whose numbers differ.
NamedIn(E, rev, D) ==
  /\ OnePerPair(E)
  /\ \A e \in E : e.src \in D /\ e.dst \in D
  /\ \A i, j \in D : rev[i] = rev[j] => i = j

LEMMA ContentsAreWeights == Contents = WeightsOf(EdgeSet, reverseIdMap)
BY DEF Contents, WeightsOf, EndsOf, Ends

LEMMA WeightsAt ==
  ASSUME NEW E, NEW rev, NEW D, NamedIn(E, rev, D)
  PROVE  /\ \A e \in E : WeightsOf(E, rev)[Ends(rev, e)] = e.weight
         /\ \A e, f \in E : Ends(rev, e) = Ends(rev, f) => e = f
<1>1. ASSUME NEW e \in E, NEW f \in E, Ends(rev, e) = Ends(rev, f)
      PROVE  e = f
  <2>1. rev[e.src] = rev[f.src] /\ rev[e.dst] = rev[f.dst]
    BY <1>1 DEF Ends
  <2> QED BY <2>1 DEF NamedIn, OnePerPair, SamePair
<1>2. ASSUME NEW e \in E
      PROVE  WeightsOf(E, rev)[Ends(rev, e)] = e.weight
  <2>1. WeightsOf(E, rev)[Ends(rev, e)]
           = (CHOOSE f \in E : Ends(rev, f) = Ends(rev, e)).weight
    BY DEF WeightsOf
  <2>2. (CHOOSE f \in E : Ends(rev, f) = Ends(rev, e)) = e
    BY <1>1
  <2> QED BY <2>1, <2>2
<1> QED BY <1>1, <1>2

\* The vertices keep their numbers when others are registered.
LEMMA SameWeights ==
  ASSUME NEW E, NEW rev, NEW D, NamedIn(E, rev, D),
         NEW other, NEW F, NamedIn(E, other, F),
         \A i \in D : other[i] = rev[i]
  PROVE  WeightsOf(E, other) = WeightsOf(E, rev)
<1>1. \A e \in E : Ends(other, e) = Ends(rev, e)
  BY DEF NamedIn, Ends
<1>2. /\ DOMAIN WeightsOf(E, rev) = {Ends(rev, e) : e \in E}
      /\ DOMAIN WeightsOf(E, other) = {Ends(other, e) : e \in E}
  BY DEF WeightsOf
<1>3. /\ \A e \in E : WeightsOf(E, rev)[Ends(rev, e)] = e.weight
      /\ \A e \in E : WeightsOf(E, other)[Ends(other, e)] = e.weight
  BY WeightsAt
<1>4. DOMAIN WeightsOf(E, other) = DOMAIN WeightsOf(E, rev)
  BY <1>1, <1>2, <1>3
<1>5. \A p \in DOMAIN WeightsOf(E, rev) : WeightsOf(E, other)[p] = WeightsOf(E, rev)[p]
  BY <1>1, <1>2, <1>3
<1>6. /\ WeightsOf(E, rev) = [p \in DOMAIN WeightsOf(E, rev) |-> WeightsOf(E, rev)[p]]
      /\ WeightsOf(E, other) = [p \in DOMAIN WeightsOf(E, other) |-> WeightsOf(E, other)[p]]
  BY DEF WeightsOf
<1> QED BY <1>4, <1>5, <1>6

\* The edges S are named by before, and the edges N of weight w join the pairs
\* named by rev, which keeps the names of before.
Joins(S, before, C, N, rev, D, w, pairs) ==
    /\ NamedIn(S, before, C) /\ NamedIn(N, rev, D)
    /\ C \subseteq D /\ \A i \in C : rev[i] = before[i]
    /\ \A n \in N : n.weight = w /\ Ends(rev, n) \in pairs
    /\ \A p \in pairs : \E n \in N : p = Ends(rev, n)

\* The function new is old, but w at pairs.
Overrides(new, old, pairs, w) ==
    /\ DOMAIN new = DOMAIN old \cup pairs
    /\ \A p \in DOMAIN new : new[p] = IF p \in pairs THEN w ELSE old[p]

\* New edges between some pairs, in place of others between the same.
LEMMA AddedWeights ==
  ASSUME NEW S, NEW before, NEW C, NEW N, NEW rev, NEW D, NEW w, NEW pairs,
         Joins(S, before, C, N, rev, D, w, pairs)
  PROVE  Overrides(WeightsOf(Edges(N, S), rev), WeightsOf(S, before), pairs, w)
<1> USE DEF Joins
<1> DEFINE E == Edges(N, S)
           old == WeightsOf(S, before)
           new == WeightsOf(E, rev)
<1>1. /\ N \subseteq E /\ E \subseteq N \cup S
      /\ \A e \in S : (\A n \in N : ~SamePair(n, e)) => e \in E
      /\ \A e \in E : e \in N \/ (e \in S /\ \A n \in N : ~SamePair(n, e))
  BY DEF Edges
<1> HIDE DEF E
<1>2. NamedIn(E, rev, D)
  <2>1. \A e \in E : e.src \in D /\ e.dst \in D
    BY <1>1 DEF NamedIn
  <2>2. ASSUME NEW e \in E, NEW f \in E, SamePair(e, f)
        PROVE  e = f
    <3>1. SamePair(f, e)
      BY <2>2 DEF SamePair
    <3> QED BY <1>1, <2>2, <3>1 DEF NamedIn, OnePerPair
  <2> QED BY <2>1, <2>2 DEF NamedIn, OnePerPair
<1>3. /\ DOMAIN new = {Ends(rev, e) : e \in E}
      /\ \A e \in E : new[Ends(rev, e)] = e.weight
  <2>1. DOMAIN new = {Ends(rev, e) : e \in E}
    BY DEF WeightsOf
  <2> QED BY <1>2, <2>1, WeightsAt
<1>4. /\ DOMAIN old = {Ends(before, e) : e \in S}
      /\ \A e \in S : old[Ends(before, e)] = e.weight
  <2>1. DOMAIN old = {Ends(before, e) : e \in S}
    BY DEF WeightsOf
  <2> QED BY <2>1, WeightsAt
<1>5. \A e \in S : Ends(before, e) = Ends(rev, e)
  BY DEF NamedIn, Ends
<1> HIDE DEF old, new
<1>6. ASSUME NEW p \in pairs
      PROVE  p \in DOMAIN new /\ new[p] = w
  BY <1>1, <1>3
<1>7. ASSUME NEW p \in DOMAIN old, p \notin pairs
      PROVE  p \in DOMAIN new /\ new[p] = old[p]
  <2>1. PICK e \in S : p = Ends(before, e)
    BY <1>4
  <2>2. p = Ends(rev, e)
    BY <1>5, <2>1
  <2>3. ASSUME NEW n \in N, SamePair(n, e)
        PROVE  FALSE
    BY <1>7, <2>2, <2>3 DEF Ends, SamePair
  <2>4. e \in E
    BY <1>1, <2>3
  <2> QED BY <1>3, <1>4, <2>1, <2>2, <2>4
<1>8. DOMAIN new \subseteq DOMAIN old \cup pairs
  BY <1>1, <1>3, <1>4, <1>5
<1>9. DOMAIN new = DOMAIN old \cup pairs
  BY <1>6, <1>7, <1>8
<1>10. \A p \in DOMAIN new : new[p] = IF p \in pairs THEN w ELSE old[p]
  BY <1>6, <1>7, <1>9
<1> QED BY <1>9, <1>10 DEF Overrides, old, new, E

-----------------------------------------------------------------------------
(* GCCGraph implements SimpleGraph.                                        *)

\* What is stored is named by reverseIdMap.
LEMMA NamedStored ==
  ASSUME IInv, UniqueInv
  PROVE  /\ NamedIn(StoredIn(vertexTable), reverseIdMap, Ids)
         /\ DOMAIN reverseIdMap = Ids
         /\ \A x \in DOMAIN idMap : reverseIdMap[idMap[x]] = x /\ idMap[x] \in Ids
<1>1. DOMAIN reverseIdMap = Ids
  BY RegistryState, LenProperties DEF IInv, TableOK, Ids
<1>2. /\ DOMAIN idMap = RangeOf(reverseIdMap)
      /\ \A i \in DOMAIN reverseIdMap : idMap[reverseIdMap[i]] = i
  BY RegistryState DEF IInv
<1>3. \A i, j \in Ids : reverseIdMap[i] = reverseIdMap[j] => i = j
  BY <1>1, <1>2
<1>4. \A x \in DOMAIN idMap : reverseIdMap[idMap[x]] = x /\ idMap[x] \in Ids
  BY <1>1, <1>2 DEF RangeOf
<1> QED BY <1>1, <1>3, <1>4, StoredOnePerPair DEF NamedIn

\* Between calls the contents are what is stored.
LEMMA ContentsBetweenCalls ==
  ASSUME IInv, todo = << >>
  PROVE  /\ Pending = {}
         /\ EdgeSet = StoredIn(vertexTable)
         /\ Contents = WeightsOf(StoredIn(vertexTable), reverseIdMap)
<1>1. bulk = {}
  BY DEF IInv, BulkOK
<1>2. Pending = {}
  BY <1>1 DEF Pending, RangeOf
<1>3. EdgeSet = StoredIn(vertexTable)
  BY <1>2, EdgeSetIsEdges DEF Edges
<1> QED BY <1>2, <1>3, ContentsAreWeights

\* Registration stores nothing.
LEMMA ExtendedStores ==
  ASSUME NEW reg, NEW new, ExtendedBy(reg, new)
  PROVE  StoredIn(new.vertexTable) = StoredIn(reg.vertexTable)
<1>1. AllEntries(EmptyEntry.nodes) = {}
  BY DEF EmptyEntry, AllEntries
<1>2. ASSUME NEW x \in StoredIn(new.vertexTable)
      PROVE  x \in StoredIn(reg.vertexTable)
  <2>1. x.src \in DOMAIN new.vertexTable
    BY StoredEdges
  <2>2. PICK e \in AllEntries(new.vertexTable[x.src].nodes) : x = Edge(x.src, e)
    BY StoredEdges
  <2>3. x.src \in DOMAIN reg.vertexTable
    BY <1>1, <2>1, <2>2 DEF ExtendedBy
  <2>4. e \in AllEntries(reg.vertexTable[x.src].nodes)
    BY <2>2, <2>3 DEF ExtendedBy
  <2>5. Edge(x.src, e) \in StoredIn(reg.vertexTable)
    BY <2>3, <2>4, StoredEdges
  <2> QED BY <2>2, <2>5
<1>3. ASSUME NEW x \in StoredIn(reg.vertexTable)
      PROVE  x \in StoredIn(new.vertexTable)
  <2>1. x.src \in DOMAIN reg.vertexTable
    BY StoredEdges
  <2>2. PICK e \in AllEntries(reg.vertexTable[x.src].nodes) : x = Edge(x.src, e)
    BY StoredEdges
  <2>3. x.src \in DOMAIN new.vertexTable /\ e \in AllEntries(new.vertexTable[x.src].nodes)
    BY <2>1, <2>2 DEF ExtendedBy
  <2>4. Edge(x.src, e) \in StoredIn(new.vertexTable)
    BY <2>3, StoredEdges
  <2> QED BY <2>2, <2>4
<1> QED BY <1>2, <1>3

LEMMA InitImplements == Init => Abstract!Init
<1> SUFFICES ASSUME Init PROVE Abstract!Init
  OBVIOUS
<1>1. /\ isDirected \in BOOLEAN /\ idMap = << >> /\ vertexTable = << >>
      /\ todo = << >> /\ bulk = {}
  BY DEF Init
<1>2. StoredIn(vertexTable) = {} /\ Pending = {}
  BY <1>1 DEF StoredIn, Pending, RangeOf
<1>3. EdgeSet = {}
  BY <1>2, EdgeSetIsEdges DEF Edges
<1>4. Contents = << >>
  BY <1>3 DEF Contents
<1> QED BY <1>1, <1>4 DEF Abstract!Init

LEMMA AddVertexImplements ==
  ASSUME IInv, UniqueInv, IInv', UniqueInv', NEW x \in Vertex, AddVertex(x)
  PROVE  Abstract!AddVertex(x)
<1> DEFINE reg == GetOrRegisterVertex(Registry, x)
<1>1. /\ ExtendedBy(Registry, reg)
      /\ DOMAIN reg.idMap = DOMAIN Registry.idMap \cup {x}
  BY RegistrationExtends DEF IInv
<1>2. /\ todo = << >> /\ todo' = << >> /\ Adopt(reg)
      /\ UNCHANGED <<isDirected, bulk>>
  BY DEF AddVertex
<1> HIDE DEF reg
<1>3. /\ DOMAIN idMap' = DOMAIN idMap \cup {x}
      /\ vertexTable' = reg.vertexTable /\ reverseIdMap' = reg.reverseIdMap
  BY <1>1, <1>2, RegistryFields DEF Adopt
<1>4. StoredIn(vertexTable') = StoredIn(vertexTable)
  BY <1>1, <1>3, ExtendedStores, RegistryFields
<1>5. Contents = WeightsOf(StoredIn(vertexTable), reverseIdMap)
  BY <1>2, ContentsBetweenCalls
<1>6. bulk' = {}
  BY <1>2 DEF IInv, BulkOK
<1>7. Pending' = {}
  BY <1>2, <1>6 DEF Pending, RangeOf
<1>8. EdgeSet' = Edges(Pending', StoredIn(vertexTable'))
  BY DEF EdgeSet, Edges, SamePair, Stored, StoredIn, Edge, Ids
<1>9. EdgeSet' = StoredIn(vertexTable)
  BY <1>4, <1>7, <1>8 DEF Edges
<1>10. Contents' = WeightsOf(StoredIn(vertexTable), reverseIdMap')
  BY <1>9 DEF Contents, WeightsOf, EndsOf, Ends
<1>11. NamedIn(StoredIn(vertexTable), reverseIdMap, Ids)
  BY NamedStored
<1>12. NamedIn(StoredIn(vertexTable'), reverseIdMap', DOMAIN vertexTable')
  <2>1. DOMAIN reverseIdMap' = DOMAIN vertexTable'
    BY LenProperties DEF IInv, RegistryOK, Registry, TableOK
  <2>2. \A i, j \in DOMAIN vertexTable' : reverseIdMap'[i] = reverseIdMap'[j] => i = j
    BY <2>1 DEF IInv, RegistryOK, Registry
  <2>3. \A e \in StoredIn(vertexTable) :
           e.src \in DOMAIN vertexTable' /\ e.dst \in DOMAIN vertexTable'
    BY <1>1, <1>3, <1>11, RegistryFields DEF NamedIn, ExtendedBy, Ids
  <2> QED BY <1>4, <1>11, <2>2, <2>3 DEF NamedIn
<1>13. \A i \in Ids : reverseIdMap'[i] = reverseIdMap[i]
  BY <1>1, <1>3, RegistryFields DEF ExtendedBy, Ids
<1>14. Contents' = Contents
  BY <1>4, <1>5, <1>10, <1>11, <1>12, <1>13, SameWeights
<1> QED BY <1>2, <1>3, <1>14 DEF Abstract!AddVertex

LEMMA AddEdgeImplements ==
  ASSUME IInv, UniqueInv, IInv', UniqueInv',
         NEW u \in Vertex, NEW v \in Vertex, NEW w \in Weight, AddEdge(u, v, w)
  PROVE  Abstract!AddEdge(u, v, w)
<1> DEFINE first == GetOrRegisterVertex(Registry, u)
           reg == GetOrRegisterVertex(first, v)
           i == reg.idMap[u]
           j == reg.idMap[v]
           forward == [src |-> i, dst |-> j, weight |-> w]
           reverse == [src |-> j, dst |-> i, weight |-> w]
           S == StoredIn(vertexTable)
           N == RangeOf(todo')
           D == DOMAIN vertexTable'
           pairs == IF isDirected THEN {<<u, v>>} ELSE {<<u, v>>, <<v, u>>}
<1>1. /\ ExtendedBy(Registry, first) /\ RegistryOK(first)
      /\ DOMAIN first.idMap = DOMAIN Registry.idMap \cup {u}
  BY RegistrationExtends, Registration DEF IInv
<1>2. /\ todo = << >> /\ Adopt(reg) /\ UNCHANGED <<isDirected, bulk>>
      /\ todo' = IF isDirected \/ i = j THEN <<forward>> ELSE <<forward, reverse>>
  BY DEF AddEdge, Insertions
<1> HIDE DEF first
<1>3. /\ ExtendedBy(first, reg) /\ RegistryOK(reg)
      /\ DOMAIN reg.idMap = DOMAIN first.idMap \cup {v}
      /\ \A y \in DOMAIN reg.idMap : reg.idMap[y] \in DOMAIN reg.vertexTable
  BY <1>1, RegistrationExtends, Registration
<1> HIDE DEF reg
<1>4. ExtendedBy(Registry, reg)
  BY <1>1, <1>3, ExtendsTransitive
<1>5. /\ DOMAIN idMap' = DOMAIN idMap \cup {u, v}
      /\ vertexTable' = reg.vertexTable /\ reverseIdMap' = reg.reverseIdMap
      /\ idMap' = reg.idMap
  BY <1>1, <1>2, <1>3, RegistryFields DEF Adopt
<1>6. StoredIn(vertexTable') = S
  BY <1>4, <1>5, ExtendedStores, RegistryFields
<1>7. Contents = WeightsOf(S, reverseIdMap)
  BY <1>2, ContentsBetweenCalls
<1>8. NamedIn(S, reverseIdMap, Ids)
  BY NamedStored
<1>9. /\ DOMAIN reg.reverseIdMap = D
      /\ DOMAIN reg.idMap = RangeOf(reg.reverseIdMap)
      /\ \A k \in DOMAIN reg.reverseIdMap : reg.idMap[reg.reverseIdMap[k]] = k
  BY <1>3, <1>5, LenProperties DEF RegistryOK, TableOK
<1>10. \A k, l \in D : reverseIdMap'[k] = reverseIdMap'[l] => k = l
  BY <1>5, <1>9
<1>11. /\ i \in D /\ j \in D
       /\ reverseIdMap'[i] = u /\ reverseIdMap'[j] = v
  <2>1. \A y \in DOMAIN reg.idMap : reg.reverseIdMap[reg.idMap[y]] = y
    BY <1>9 DEF RangeOf
  <2>2. u \in DOMAIN reg.idMap /\ v \in DOMAIN reg.idMap
    BY <1>1, <1>3
  <2> QED BY <1>3, <1>5, <2>1, <2>2
<1>12. Ids \subseteq D /\ \A k \in Ids : reverseIdMap'[k] = reverseIdMap[k]
  BY <1>4, <1>5, RegistryFields DEF ExtendedBy, Ids
<1>13. N = IF isDirected \/ i = j THEN {forward} ELSE {forward, reverse}
  <2> HIDE DEF forward, reverse, i, j
  <2>1. CASE isDirected \/ i = j
    BY <1>2, <2>1 DEF RangeOf
  <2>2. CASE ~(isDirected \/ i = j)
    <3>1. todo' = <<forward, reverse>>
      BY <1>2, <2>2
    <3>2. DOMAIN <<forward, reverse>> = {1, 2}
      OBVIOUS
    <3> QED BY <2>2, <3>1, <3>2 DEF RangeOf
  <2> QED BY <2>1, <2>2
<1> HIDE DEF i, j, S, D
<1>14. NamedIn(N, reverseIdMap', D)
  <2>1. \A e \in N : e.src \in D /\ e.dst \in D
    BY <1>11, <1>13
  <2>2. OnePerPair(N)
    BY <1>13 DEF OnePerPair, SamePair
  <2> QED BY <1>10, <2>1, <2>2 DEF NamedIn
<1>15. \A n \in N : n.weight = w
  BY <1>13
<1>16. pairs = {Ends(reverseIdMap', n) : n \in N}
  <2>1. /\ Ends(reverseIdMap', forward) = <<u, v>>
        /\ Ends(reverseIdMap', reverse) = <<v, u>>
    BY <1>11 DEF Ends
  <2> HIDE DEF forward, reverse
  <2>2. CASE isDirected
    BY <1>13, <2>1, <2>2
  <2>3. CASE ~isDirected /\ i = j
    <3>1. u = v
      BY <1>11, <2>3
    <3> QED BY <1>13, <2>1, <2>3, <3>1
  <2>4. CASE ~isDirected /\ i # j
    BY <1>13, <2>1, <2>4
  <2> QED BY <2>2, <2>3, <2>4
<1>17. Contents' = WeightsOf(Edges(N, S), reverseIdMap')
  <2>1. bulk' = {}
    BY <1>2 DEF IInv, BulkOK
  <2>2. Pending' = N
    BY <2>1 DEF Pending, RangeOf
  <2>3. EdgeSet' = Edges(Pending', StoredIn(vertexTable'))
    BY DEF EdgeSet, Edges, SamePair, Stored, StoredIn, Edge, Ids
  <2>4. EdgeSet' = Edges(N, S)
    BY <1>6, <2>2, <2>3
  <2> QED BY <2>4 DEF Contents, WeightsOf, EndsOf, Ends
<1> HIDE DEF N, pairs
<1>18. Contents' = [p \in DOMAIN Contents \cup pairs |->
                      IF p \in pairs THEN w ELSE Contents[p]]
  <2> DEFINE old == WeightsOf(S, reverseIdMap)
             new == WeightsOf(Edges(N, S), reverseIdMap')
  <2>1. /\ \A n \in N : Ends(reverseIdMap', n) \in pairs
        /\ \A p \in pairs : \E n \in N : p = Ends(reverseIdMap', n)
    BY <1>16
  <2>2. Joins(S, reverseIdMap, Ids, N, reverseIdMap', D, w, pairs)
    BY <1>8, <1>12, <1>14, <1>15, <2>1 DEF Joins
  <2>3. Overrides(new, old, pairs, w)
    BY <2>2, AddedWeights
  <2>4. new = [p \in DOMAIN new |-> new[p]]
    BY DEF WeightsOf
  <2>5. Contents' = new /\ Contents = old
    BY <1>7, <1>17
  <2> HIDE DEF old, new
  <2> QED BY <2>3, <2>4, <2>5 DEF Overrides
<1>19. \A p : Abstract!Merged(p, w) = w
  BY DEF Abstract!Merged
<1> QED BY <1>2, <1>5, <1>18, <1>19 DEF Abstract!AddEdge, pairs

LEMMA NextImplements ==
  IInv /\ UniqueInv /\ IInv' /\ UniqueInv' /\ [Next]_vars
    => [Abstract!Next]_<<isDirected, DOMAIN idMap, Contents>>
<1> SUFFICES ASSUME IInv, UniqueInv, IInv', UniqueInv', [Next]_vars
             PROVE  Abstract!Next \/ UNCHANGED <<isDirected, DOMAIN idMap, Contents>>
  OBVIOUS
<1>1. ASSUME NEW x \in VertexCalls, AddVertex(x) PROVE Abstract!Next
  <2>1. Abstract!AddVertex(x)
    BY <1>1, CallsAssumption, AddVertexImplements
  <2> QED BY <2>1 DEF Abstract!Next
<1>2. ASSUME NEW c \in EdgeCalls, AddEdge(c[1], c[2], c[3]) PROVE Abstract!Next
  <2>1. c[1] \in Vertex /\ c[2] \in Vertex /\ c[3] \in Weight
    BY CallsAssumption
  <2>2. Abstract!AddEdge(c[1], c[2], c[3])
    BY <1>2, <2>1, AddEdgeImplements
  <2> QED BY <2>2 DEF Abstract!Next
<1>3. CASE InsertDirectedEdge
  <2>1. EdgeSet' = EdgeSet
    BY <1>3, InsertionKeepsEdges
  <2>2. UNCHANGED <<isDirected, idMap, reverseIdMap>>
    BY <1>3 DEF InsertDirectedEdge, UpdateExisting, InsertIntoTailChunk, InsertIntoNewChunk,
                PromoteToBPlusTree, InsertPromotedItem, InsertIntoTree, registryVars
  <2> QED BY <2>1, <2>2 DEF Contents, EndsOf
<1>4. CASE TraverseEntireGraph
  <2>1. UNCHANGED <<isDirected, idMap, reverseIdMap, todo, bulk>>
    BY <1>4 DEF TraverseEntireGraph, registryVars
  <2>2. Ids' = Ids /\ \A i \in Ids : vertexTable'[i].nodes = vertexTable[i].nodes
    BY <1>4, TraverseKeepsEntries DEF Ids
  <2>3. Stored' = Stored
    BY <2>2 DEF Stored
  <2>4. Pending' = Pending
    BY <2>1 DEF Pending, PendingBulk, Insertion, RangeOf
  <2>5. EdgeSet' = EdgeSet
    BY <2>3, <2>4 DEF EdgeSet
  <2> QED BY <2>1, <2>5 DEF Contents, EndsOf
<1>5. CASE UNCHANGED vars
  <2>1. UNCHANGED <<isDirected, idMap, reverseIdMap, vertexTable, todo, bulk>>
    BY <1>5 DEF vars
  <2>2. EdgeSet' = EdgeSet
    BY <2>1 DEF EdgeSet, Pending, PendingBulk, Insertion, RangeOf, Stored, Ids
  <2> QED BY <2>1, <2>2 DEF Contents, EndsOf
<1> QED BY <1>1, <1>2, <1>3, <1>4, <1>5 DEF Next

\* Behind its chunks, trees and promotions, GCCGraph is a set of vertices and
\* one weight per joined pair, which addEdge changes in one step, in both
\* directions at once where the graph is undirected.
THEOREM GraphImplementsSimpleGraph == Spec => ImplementsSimpleGraph
BY ContentsInvariant, InitImplements, NextImplements, PTL
   DEF Spec, ImplementsSimpleGraph, Abstract!Spec
=============================================================================
