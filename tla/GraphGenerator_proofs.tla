------------------------ MODULE GraphGenerator_proofs ------------------------
(***************************************************************************)
(* EdgesAreLegal, ChainIsOneCycle and GridIsMesh for any calls of the      *)
(* generators: any numbers of vertices and edges, any width and height,    *)
(* whatever the random engine returns.                                     *)
(***************************************************************************)
EXTENDS GraphGenerator, SequenceTheorems, FiniteSetTheorems, FunctionTheorems,
        WellFoundedInduction, TLAPS

Pairs == Vertices \X Vertices

\* What the branches of Next keep besides the property: which function is where,
\* and that what it will make edges of are vertices.
Typed ==
  /\ call \in Calls
  /\ pc \in {"draw", "redraw", "link", "done"}
  /\ edges \in Seq(Pairs)
  /\ u \in Nat /\ v \in Nat
  /\ x \in Nat /\ y \in Nat
  /\ i \in 1 .. n

Drawing ==
  /\ pc = "redraw" => /\ call.generator = "uniform"
                      /\ Len(edges) < call.num_edges
                      /\ u \in Vertices
  /\ pc = "link" => /\ call.generator = "chain"
                    /\ indices \in [1 .. n -> Vertices]
                    /\ IsInjective(indices)

IInv == Typed /\ Drawing /\ EdgesAreLegal

-----------------------------------------------------------------------------
\* What an edge may be.
LegalEdge(e) ==
  /\ e \in Pairs
  /\ e[1] = e[2] => n = 1 /\ call.generator \notin {"strict", "grid"}

\* The arguments of a call.
LEMMA CallTypes ==
  ASSUME call \in Calls
  PROVE  /\ n \in Nat \ {0}
         /\ call.num_edges \in Nat
         /\ call.width \in Nat /\ call.height \in Nat
         /\ call.generator = "grid" => n = call.width * call.height
BY CallsAssumption DEF n

\* One legal edge more.
LEMMA Appended ==
  ASSUME Typed, EdgesAreLegal, NEW e, LegalEdge(e), call' = call,
         edges' = Append(edges, e),
         call.generator = "strict" => e \notin ToSet(edges),
         call.generator \in Drawn => Len(edges) < call.num_edges
  PROVE  edges' \in Seq(Pairs)' /\ EdgesAreLegal'
<1>1. n' = n /\ Vertices' = Vertices /\ Pairs' = Pairs
  BY DEF n, Vertices, Pairs
<1>2. /\ Len(edges) \in Nat
      /\ DOMAIN edges = 1 .. Len(edges)
  BY LenProperties DEF Typed
<1>3. /\ edges' \in Seq(Pairs)
      /\ Len(edges') = Len(edges) + 1
      /\ DOMAIN edges' = 1 .. Len(edges) + 1
      /\ \A k \in 1 .. Len(edges) : edges'[k] = edges[k]
      /\ edges'[Len(edges) + 1] = e
  BY AppendProperties, LenProperties DEF Typed, LegalEdge
<1>4. \A k \in DOMAIN edges' : LegalEdge(edges'[k])
  <2> SUFFICES ASSUME NEW k \in 1 .. Len(edges) + 1
               PROVE  LegalEdge(edges'[k])
    BY <1>3
  <2>1. CASE k \in 1 .. Len(edges)
    BY <2>1, <1>2, <1>3 DEF EdgesAreLegal, LegalEdge, Pairs
  <2>2. CASE k = Len(edges) + 1
    BY <2>2, <1>3
  <2> QED BY <2>1, <2>2, <1>2
<1>5. ASSUME call.generator = "strict",
             NEW j \in DOMAIN edges', NEW k \in DOMAIN edges', edges'[j] = edges'[k]
      PROVE  j = k
  <2>1. \A m \in 1 .. Len(edges) : edges[m] # e
    BY <1>2, <1>5 DEF ToSet
  <2>2. \A l, m \in 1 .. Len(edges) : edges[l] = edges[m] => l = m
    BY <1>2, <1>5 DEF EdgesAreLegal
  <2> QED BY <2>1, <2>2, <1>2, <1>3, <1>5
<1>6. call.generator \in Drawn => Len(edges') <= call.num_edges
  BY <1>2, <1>3, CallTypes DEF Typed
<1> QED BY <1>1, <1>3, <1>4, <1>5, <1>6 DEF EdgesAreLegal, LegalEdge, Pairs

\* The cells of a grid have numbers below the number of vertices.
LEMMA CellNumber ==
  ASSUME NEW w \in Nat, NEW h \in Nat, NEW a \in Nat, NEW b \in Nat, a < w, b < h
  PROVE  b * w + a \in 0 .. w * h - 1
<1> DEFINE k == h - (b + 1)
<1>1. k \in Nat /\ h = b + 1 + k
  OBVIOUS
<1>2. w * h = b * w + w + w * k
  BY <1>1
<1>3. w * k \in Nat /\ b * w \in Nat
  BY <1>1
<1> QED BY <1>2, <1>3

\* A cell of the grid is joined by legal edges.
LEMMA JoinCellKeeps == IInv /\ JoinCell => IInv'
<1> SUFFICES ASSUME IInv, JoinCell PROVE IInv'
  OBVIOUS
<1> DEFINE Legal == {e \in Pairs : e[1] # e[2]}
           w == call.width
           h == call.height
<1>1. /\ call.generator = "grid"
      /\ x \in Nat /\ y \in Nat /\ w \in Nat /\ h \in Nat
      /\ x < w /\ y < h
      /\ n = w * h /\ n \in Nat \ {0}
  BY CallTypes DEF IInv, Typed, JoinCell
<1>2. edges \in Seq(Legal)
  <2>1. edges \in Seq(Pairs) /\ DOMAIN edges = 1 .. Len(edges) /\ Len(edges) \in Nat
    BY LenProperties DEF IInv, Typed
  <2>2. \A k \in 1 .. Len(edges) : edges[k] \in Legal
    BY <2>1, <1>1 DEF IInv, EdgesAreLegal, Pairs
  <2>3. edges = [k \in 1 .. Len(edges) |-> edges[k]]
    BY <2>1, SeqDef
  <2> HIDE DEF Legal
  <2> QED BY <2>1, <2>2, <2>3, SeqDef
<1>3. ASSUME NEW s \in Vertices, NEW t \in Vertices, s # t
      PROVE  Both(s, t) \in Seq(Legal)
  <2>1. <<s, t>> \in Legal /\ <<t, s>> \in Legal
    BY <1>3 DEF Pairs
  <2> HIDE DEF Legal
  <2> QED BY <2>1 DEF Both
<1>4. y * w + x \in Vertices
  BY <1>1, CellNumber DEF Vertices
<1>5. ToRight \in Seq(Legal)
  <2>1. CASE x < w - 1
    <3>1. y * w + (x + 1) \in Vertices
      BY <1>1, <2>1, CellNumber DEF Vertices
    <3>2. y * w \in Nat
      BY <1>1
    <3>3. y * w + x # y * w + (x + 1)
      BY <1>1, <3>2
    <3>4. Both(y * w + x, y * w + (x + 1)) \in Seq(Legal)
      BY <1>3, <1>4, <3>1, <3>3
    <3> HIDE DEF Legal
    <3> QED BY <2>1, <3>4 DEF ToRight
  <2>2. CASE ~(x < w - 1)
    <3> HIDE DEF Legal
    <3> QED BY <2>2, EmptySeq DEF ToRight
  <2> QED BY <2>1, <2>2
<1>6. Downward \in Seq(Legal)
  <2>1. CASE y < h - 1
    <3>1. y + 1 \in Nat /\ y + 1 < h
      BY <1>1, <2>1
    <3>2. (y + 1) * w + x \in Vertices
      BY <1>1, <3>1, CellNumber DEF Vertices
    <3>3. (y + 1) * w = y * w + w /\ y * w \in Nat
      BY <1>1
    <3>4. y * w + x # (y + 1) * w + x
      BY <1>1, <3>3
    <3>5. Both(y * w + x, (y + 1) * w + x) \in Seq(Legal)
      BY <1>3, <1>4, <3>2, <3>4
    <3> HIDE DEF Legal
    <3> QED BY <2>1, <3>5 DEF Downward
  <2>2. CASE ~(y < h - 1)
    <3> HIDE DEF Legal
    <3> QED BY <2>2, EmptySeq DEF Downward
  <2> QED BY <2>1, <2>2
<1>7. /\ edges' \in Seq(Legal)
      /\ Len(edges') \in Nat
      /\ DOMAIN edges' = 1 .. Len(edges')
      /\ \A k \in 1 .. Len(edges') : edges'[k] \in Legal
  <2> HIDE DEF Legal
  <2>1. edges \o ToRight \in Seq(Legal)
    BY <1>2, <1>5, ConcatProperties
  <2>2. edges' \in Seq(Legal)
    BY <2>1, <1>6, ConcatProperties DEF JoinCell
  <2> QED BY <2>2, LenProperties, ElementOfSeq
<1>8. edges' \in Seq(Pairs)
  <2>1. \A k \in 1 .. Len(edges') : edges'[k] \in Pairs
    BY <1>7
  <2>2. edges' = [k \in 1 .. Len(edges') |-> edges'[k]]
    BY <1>7, SeqDef
  <2> QED BY <1>7, <2>1, <2>2, SeqDef
<1>9. call' = call /\ pc' = pc /\ u' = u /\ v' = v /\ i' = i /\ indices' = indices
      /\ x' \in Nat /\ y' \in Nat
  BY <1>1 DEF JoinCell
<1>10. n' = n /\ Vertices' = Vertices /\ Pairs' = Pairs
  BY <1>9 DEF n, Vertices, Pairs
<1>11. Typed'
  BY <1>8, <1>9, <1>10 DEF IInv, Typed
<1>12. Drawing'
  BY <1>1, <1>9, <1>10 DEF IInv, Drawing
<1>13. EdgesAreLegal'
  BY <1>1, <1>7, <1>9, <1>10 DEF EdgesAreLegal, Pairs, Drawn
<1> QED BY <1>11, <1>12, <1>13 DEF IInv

\* Folding a number back, and stepping off a loop, stays below n.
LEMMA RMATEdge ==
  ASSUME call \in Calls, NEW s \in Nat, NEW t \in Nat
  PROVE  LegalEdge(NoLoop(Wrapped(s), Wrapped(t))) \/ call.generator \in {"strict", "grid"}
<1>1. n \in Nat \ {0}
  BY CallTypes
<1>2. \A k \in Nat : k % n \in 0 .. n - 1
  BY <1>1
<1>3. Wrapped(s) \in Vertices /\ Wrapped(t) \in Vertices
  BY <1>1, <1>2 DEF Wrapped, Vertices
<1>4. ASSUME NEW k \in Vertices, n > 1
      PROVE  (k + 1) % n \in Vertices /\ (k + 1) % n # k
  <2>1. k \in Nat /\ k + 1 \in Nat /\ k < n
    BY <1>1 DEF Vertices
  <2>2. CASE k + 1 < n
    <3>1. (k + 1) % n = k + 1
      BY <2>1, <2>2, <1>1
    <3> QED BY <3>1, <2>1, <2>2, <1>1 DEF Vertices
  <2>3. CASE k + 1 = n
    <3>1. n % n = 0
      BY <1>1
    <3> QED BY <3>1, <2>1, <2>3, <1>1, <1>4 DEF Vertices
  <2> QED BY <2>1, <2>2, <2>3, <1>1
<1> DEFINE a == Wrapped(s)
           b == Wrapped(t)
<1>5. a \in Vertices /\ b \in Vertices
  BY <1>3
<1> HIDE DEF a, b
<1>6. NoLoop(a, b) \in Pairs /\ (NoLoop(a, b)[1] = NoLoop(a, b)[2] => n = 1)
  <2>1. CASE a = b /\ n > 1
    BY <2>1, <1>4, <1>5 DEF NoLoop, Pairs
  <2>2. CASE ~(a = b /\ n > 1)
    BY <2>2, <1>1, <1>5 DEF NoLoop, Pairs
  <2> QED BY <2>1, <2>2
<1> QED BY <1>6 DEF LegalEdge, a, b

LEMMA InitIInv == Init => IInv
<1> SUFFICES ASSUME Init PROVE IInv
  OBVIOUS
<1>1. n \in Nat \ {0} /\ call.num_edges \in Nat
  BY CallTypes DEF Init
<1>2. edges = << >> /\ Len(edges) = 0 /\ DOMAIN edges = {}
  BY DEF Init
<1>3. Typed
  BY <1>1, <1>2, EmptySeq DEF Init, Typed
<1>4. Drawing
  BY DEF Init, Drawing
<1>5. EdgesAreLegal
  BY <1>1, <1>2 DEF EdgesAreLegal
<1> QED BY <1>3, <1>4, <1>5 DEF IInv

\* One step per action.
LEMMA NextIInv == IInv /\ [Next]_vars => IInv'
<1> SUFFICES ASSUME IInv, [Next]_vars PROVE IInv'
  OBVIOUS
<1> USE DEF IInv
<1>0. ASSUME call' = call
      PROVE  n' = n /\ Vertices' = Vertices /\ Pairs' = Pairs
  BY <1>0 DEF n, Vertices, Pairs
<1>1. /\ n \in Nat \ {0} /\ call.num_edges \in Nat
      /\ Len(edges) \in Nat
      /\ 0 \in Vertices
  BY CallTypes, LenProperties DEF Typed, Vertices
<1>2. \A s \in Vertices : s \in Nat
  BY <1>1 DEF Vertices
<1>3. ASSUME UNCHANGED <<call, edges, u, v, x, y, i>>, pc' = "done" PROVE IInv'
  <2>1. n' = n /\ Vertices' = Vertices /\ Pairs' = Pairs
    BY <1>0, <1>3
  <2>2. Typed'
    BY <1>3, <2>1 DEF Typed
  <2>3. Drawing'
    BY <1>3 DEF Drawing
  <2>4. EdgesAreLegal'
    BY <1>3, <2>1 DEF EdgesAreLegal
  <2> QED BY <2>2, <2>3, <2>4
<1>4. CASE ReturnDrawn
  BY <1>3, <1>4 DEF ReturnDrawn
<1>5. ASSUME NEW s \in Vertices, NEW t \in Vertices, DrawUniform(s, t) PROVE IInv'
  <2>0. /\ call' = call /\ v' = v /\ x' = x /\ y' = y /\ i' = i
        /\ pc = "draw" /\ call.generator = "uniform" /\ Len(edges) < call.num_edges
    BY <1>5 DEF DrawUniform, Running
  <2>1. n' = n /\ Vertices' = Vertices /\ Pairs' = Pairs
    BY <1>0, <2>0
  <2>2. CASE Redraws(s, t)
    <3>1. pc' = "redraw" /\ u' = s /\ edges' = edges
      BY <1>5, <2>2 DEF DrawUniform
    <3>2. Typed'
      BY <2>0, <2>1, <3>1, <1>2 DEF Typed
    <3>3. Drawing'
      BY <2>0, <2>1, <3>1 DEF Drawing
    <3>4. EdgesAreLegal'
      BY <2>0, <2>1, <3>1 DEF EdgesAreLegal
    <3> QED BY <3>2, <3>3, <3>4
  <2>3. CASE ~Redraws(s, t)
    <3>1. edges' = Append(edges, <<s, t>>) /\ pc' = pc /\ u' = u
      BY <1>5, <2>3 DEF DrawUniform
    <3>2. LegalEdge(<<s, t>>)
      BY <2>0, <2>3, <1>1 DEF LegalEdge, Redraws, Pairs
    <3>3. edges' \in Seq(Pairs)' /\ EdgesAreLegal'
      BY <2>0, <3>1, <3>2, Appended
    <3>4. Typed'
      BY <2>0, <2>1, <3>1, <3>3 DEF Typed
    <3>5. Drawing'
      BY <2>0, <3>1 DEF Drawing
    <3> QED BY <3>3, <3>4, <3>5
  <2> QED BY <2>2, <2>3
<1>6. ASSUME NEW t \in Vertices, RedrawUniform(t) PROVE IInv'
  <2>0. /\ call' = call /\ v' = v /\ x' = x /\ y' = y /\ i' = i /\ u' = u
        /\ call.generator = "uniform" /\ Len(edges) < call.num_edges
        /\ u \in Vertices /\ pc' = "draw"
        /\ edges' = Append(edges, <<u, t>>)
        /\ ~Redraws(u, t)
    BY <1>6 DEF RedrawUniform, Drawing
  <2>1. n' = n /\ Vertices' = Vertices /\ Pairs' = Pairs
    BY <1>0, <2>0
  <2>2. LegalEdge(<<u, t>>)
    BY <2>0, <1>1 DEF LegalEdge, Redraws, Pairs
  <2>3. edges' \in Seq(Pairs)' /\ EdgesAreLegal'
    BY <2>0, <2>2, Appended
  <2>4. Typed'
    BY <2>0, <2>1, <2>3 DEF Typed
  <2>5. Drawing'
    BY <2>0 DEF Drawing
  <2> QED BY <2>3, <2>4, <2>5
<1>7. ASSUME NEW s \in Vertices, NEW t \in Vertices, DrawStrict(s, t) PROVE IInv'
  <2>0. /\ call' = call /\ v' = v /\ x' = x /\ y' = y /\ i' = i /\ u' = u /\ pc' = pc
        /\ indices' = indices
        /\ call.generator = "strict" /\ Len(edges) < call.num_edges
        /\ edges' = Append(edges, <<s, t>>)
        /\ s # t /\ <<s, t>> \notin ToSet(edges)
    BY <1>7 DEF DrawStrict, Running
  <2>1. n' = n /\ Vertices' = Vertices /\ Pairs' = Pairs
    BY <1>0, <2>0
  <2>2. LegalEdge(<<s, t>>)
    BY <2>0 DEF LegalEdge, Pairs
  <2>3. edges' \in Seq(Pairs)' /\ EdgesAreLegal'
    BY <2>0, <2>2, Appended
  <2>4. Typed'
    BY <2>0, <2>1, <2>3 DEF Typed
  <2>5. Drawing'
    BY <2>0 DEF Drawing
  <2> QED BY <2>3, <2>4, <2>5
<1>8. ASSUME NEW du \in {0, 1}, NEW dv \in {0, 1}, DrawBit(du, dv) PROVE IInv'
  <2>0. /\ call' = call /\ x' = x /\ y' = y /\ i' = i /\ pc' = pc /\ edges' = edges
        /\ u' = 2 * u + du /\ v' = 2 * v + dv /\ indices' = indices
        /\ call.generator = "rmat"
    BY <1>8 DEF DrawBit, Running
  <2>1. n' = n /\ Vertices' = Vertices /\ Pairs' = Pairs
    BY <1>0, <2>0
  <2>2. u' \in Nat /\ v' \in Nat
    BY <2>0 DEF Typed
  <2>3. Typed'
    BY <2>0, <2>1, <2>2 DEF Typed
  <2>4. Drawing'
    BY <2>0 DEF Drawing
  <2>5. EdgesAreLegal'
    BY <2>0, <2>1 DEF EdgesAreLegal
  <2> QED BY <2>3, <2>4, <2>5
<1>9. CASE AddRMAT
  <2>0. /\ call' = call /\ x' = x /\ y' = y /\ i' = i /\ pc' = pc /\ indices' = indices
        /\ u' = 0 /\ v' = 0
        /\ call.generator = "rmat" /\ Len(edges) < call.num_edges
        /\ edges' = Append(edges, NoLoop(Wrapped(u), Wrapped(v)))
    BY <1>9 DEF AddRMAT, Running
  <2>1. n' = n /\ Vertices' = Vertices /\ Pairs' = Pairs
    BY <1>0, <2>0
  <2>2. LegalEdge(NoLoop(Wrapped(u), Wrapped(v)))
    BY <2>0, RMATEdge DEF Typed
  <2>3. edges' \in Seq(Pairs)' /\ EdgesAreLegal'
    BY <2>0, <2>2, Appended
  <2>4. Typed'
    BY <2>0, <2>1, <2>3 DEF Typed
  <2>5. Drawing'
    BY <2>0 DEF Drawing
  <2> QED BY <2>3, <2>4, <2>5
<1>10. CASE JoinCell
  BY <1>10, JoinCellKeeps
<1>11. CASE ReturnGrid
  BY <1>3, <1>11 DEF ReturnGrid
<1>12. CASE Shuffle
  <2>0. /\ call' = call /\ x' = x /\ y' = y /\ i' = i /\ u' = u /\ v' = v
        /\ edges' = edges /\ pc' = "link" /\ call.generator = "chain"
        /\ indices' \in [1 .. n -> Vertices] /\ IsInjective(indices')
    BY <1>12 DEF Shuffle
  <2>1. n' = n /\ Vertices' = Vertices /\ Pairs' = Pairs
    BY <1>0, <2>0
  <2>2. Typed'
    BY <2>0, <2>1 DEF Typed
  <2>3. Drawing'
    BY <2>0, <2>1 DEF Drawing, IsInjective
  <2>4. EdgesAreLegal'
    BY <2>0, <2>1 DEF EdgesAreLegal
  <2> QED BY <2>2, <2>3, <2>4
<1>13. CASE Link
  <2>0. /\ call' = call /\ x' = x /\ y' = y /\ i' = i + 1 /\ u' = u /\ v' = v
        /\ edges' = Append(edges, <<indices[i], indices[i + 1]>>)
        /\ pc' = "link" /\ pc = "link" /\ indices' = indices
        /\ call.generator = "chain" /\ i \in 1 .. n /\ i < n
        /\ indices \in [1 .. n -> Vertices] /\ IsInjective(indices)
    BY <1>13 DEF Link, Drawing, Typed
  <2>1. n' = n /\ Vertices' = Vertices /\ Pairs' = Pairs
    BY <1>0, <2>0
  <2>2. i + 1 \in 1 .. n /\ i # i + 1
    BY <2>0, <1>1
  <2>3. indices[i] # indices[i + 1]
    BY <2>0, <2>2 DEF IsInjective
  <2>4. LegalEdge(<<indices[i], indices[i + 1]>>)
    BY <2>0, <2>2, <2>3 DEF LegalEdge, Pairs
  <2>5. edges' \in Seq(Pairs)' /\ EdgesAreLegal'
    BY <2>0, <2>4, Appended DEF Drawn
  <2>6. Typed'
    BY <2>0, <2>1, <2>2, <2>5 DEF Typed
  <2>7. Drawing'
    BY <2>0, <2>1 DEF Drawing
  <2> QED BY <2>5, <2>6, <2>7
<1>14. CASE Close
  <2>0. /\ call' = call /\ x' = x /\ y' = y /\ i' = i /\ u' = u /\ v' = v
        /\ edges' = Append(edges, <<indices[n], indices[1]>>)
        /\ pc' = "done" /\ call.generator = "chain"
        /\ indices \in [1 .. n -> Vertices] /\ IsInjective(indices)
    BY <1>14 DEF Close, Closing, Drawing
  <2>1. n' = n /\ Vertices' = Vertices /\ Pairs' = Pairs
    BY <1>0, <2>0
  <2>2. n \in 1 .. n /\ 1 \in 1 .. n
    BY <1>1
  <2>3. indices[n] = indices[1] => n = 1
    BY <2>0, <2>2 DEF IsInjective
  <2>4. LegalEdge(<<indices[n], indices[1]>>)
    BY <2>0, <2>2, <2>3 DEF LegalEdge, Pairs
  <2>5. edges' \in Seq(Pairs)' /\ EdgesAreLegal'
    BY <2>0, <2>4, Appended DEF Drawn
  <2>6. Typed'
    BY <2>0, <2>1, <2>5 DEF Typed
  <2>7. Drawing'
    BY <2>0 DEF Drawing
  <2> QED BY <2>5, <2>6, <2>7
<1>15. CASE UNCHANGED vars
  <2>1. n' = n /\ Vertices' = Vertices /\ Pairs' = Pairs
    BY <1>0, <1>15 DEF vars
  <2>2. Typed' /\ Drawing'
    BY <1>15, <2>1 DEF vars, Typed, Drawing
  <2>3. EdgesAreLegal'
    BY <1>15, <2>1 DEF vars, EdgesAreLegal
  <2> QED BY <2>2, <2>3
<1> QED
  BY <1>4, <1>5, <1>6, <1>7, <1>8, <1>9, <1>10, <1>11, <1>12, <1>13, <1>14, <1>15
     DEF Next

\* Every edge a generator makes joins vertices of the graph asked for, for any
\* calls: also where the bits drawn exceed the number of vertices, at the ends
\* of the rows of a grid and at the end of the chain.
THEOREM GeneratedEdgesAreLegal == Spec => []EdgesAreLegal
<1>1. IInv => EdgesAreLegal
  BY DEF IInv
<1> QED BY <1>1, InitIInv, NextIInv, PTL DEF Spec

-----------------------------------------------------------------------------
(* The chain.                                                              *)

\* The edges that are there follow the shuffled vertices.
Follows ==
  /\ indices \in [1 .. n -> Vertices]
  /\ IsInjective(indices)
  /\ \A j \in 1 .. i - 1 : edges[j] = <<indices[j], indices[j + 1]>>

ChainInv ==
  call.generator = "chain" =>
    /\ pc \in {"draw", "link", "done"}
    /\ pc = "draw" => edges = << >> /\ i = 1
    /\ pc = "link" => Follows /\ Len(edges) = i - 1
    /\ pc = "done" => Follows /\ i = n /\ Len(edges) = n /\ edges[n] = Closing

LEMMA InitChainInv == Init => ChainInv
BY DEF Init, ChainInv

LEMMA NextChainInv == IInv /\ ChainInv /\ [Next]_vars => ChainInv'
<1> SUFFICES ASSUME IInv, ChainInv, [Next]_vars, call'.generator = "chain"
             PROVE  ChainInv'
  BY DEF ChainInv
<1>1. call' = call /\ call.generator = "chain" /\ n' = n /\ Vertices' = Vertices
  <2>1. call' = call
    BY DEF Next, vars, ReturnDrawn, DrawUniform, RedrawUniform, DrawStrict, DrawBit,
           AddRMAT, JoinCell, ReturnGrid, Shuffle, Link, Close
  <2> QED BY <2>1 DEF n, Vertices
<1>2. /\ n \in Nat \ {0} /\ i \in 1 .. n
      /\ edges \in Seq(Pairs) /\ Len(edges) \in Nat
  BY CallTypes, LenProperties DEF IInv, Typed
<1>3. Shuffle \/ Link \/ Close \/ UNCHANGED vars
  BY <1>1 DEF Next, ReturnDrawn, DrawUniform, RedrawUniform, DrawStrict, DrawBit,
              AddRMAT, JoinCell, ReturnGrid, Running, Drawn, IInv, Drawing
<1>4. CASE Shuffle
  <2>1. /\ pc' = "link" /\ edges' = << >> /\ i' = 1
        /\ indices' \in [1 .. n -> Vertices] /\ IsInjective(indices')
    BY <1>1, <1>4 DEF Shuffle, ChainInv
  <2>2. Follows'
    BY <1>1, <2>1 DEF Follows, IsInjective
  <2> QED BY <2>1, <2>2 DEF ChainInv
<1>5. ASSUME pc = "link", NEW e \in Pairs, edges' = Append(edges, e)
      PROVE  /\ Len(edges') = i
             /\ edges'[i] = e
             /\ \A j \in 1 .. i - 1 : edges'[j] = edges[j]
  BY <1>1, <1>2, <1>5, AppendProperties DEF ChainInv
<1>6. CASE Link
  <2>1. /\ pc = "link" /\ pc' = "link" /\ i < n /\ i' = i + 1
        /\ indices' = indices
        /\ edges' = Append(edges, <<indices[i], indices[i + 1]>>)
        /\ Follows
    BY <1>1, <1>6 DEF Link, ChainInv
  <2>2. <<indices[i], indices[i + 1]>> \in Pairs
    BY <1>2, <2>1 DEF Follows, Pairs
  <2>3. /\ Len(edges') = i
        /\ edges'[i] = <<indices[i], indices[i + 1]>>
        /\ \A j \in 1 .. i - 1 : edges'[j] = edges[j]
    BY <1>5, <2>1, <2>2
  <2>4. \A j \in 1 .. i : edges'[j] = <<indices[j], indices[j + 1]>>
    <3> SUFFICES ASSUME NEW j \in 1 .. i
                 PROVE  edges'[j] = <<indices[j], indices[j + 1]>>
      OBVIOUS
    <3>1. j = i \/ j \in 1 .. i - 1
      BY <1>2
    <3> QED BY <3>1, <2>1, <2>3 DEF Follows
  <2>5. i' - 1 = i
    BY <1>2, <2>1
  <2>6. Follows'
    BY <1>1, <2>1, <2>4, <2>5 DEF Follows, IsInjective
  <2> QED BY <2>1, <2>3, <2>5, <2>6 DEF ChainInv
<1>7. CASE Close
  <2>1. /\ pc = "link" /\ pc' = "done" /\ i = n /\ i' = i
        /\ indices' = indices
        /\ edges' = Append(edges, Closing)
        /\ Follows
    BY <1>1, <1>7 DEF Close, ChainInv
  <2>2. Closing \in Pairs
    BY <1>2, <2>1 DEF Follows, Pairs, Closing
  <2>3. /\ Len(edges') = i
        /\ edges'[i] = Closing
        /\ \A j \in 1 .. i - 1 : edges'[j] = edges[j]
    BY <1>5, <2>1, <2>2
  <2>4. Follows' /\ Closing' = Closing
    BY <1>1, <2>1, <2>3 DEF Follows, IsInjective, Closing
  <2> QED BY <1>1, <2>1, <2>3, <2>4 DEF ChainInv
<1>8. CASE UNCHANGED vars
  <2>1. /\ pc' = pc /\ edges' = edges /\ i' = i /\ indices' = indices
        /\ (Follows' <=> Follows) /\ Closing' = Closing
    BY <1>1, <1>8 DEF vars, Follows, Closing, IsInjective
  <2> QED BY <1>1, <2>1 DEF ChainInv
<1> QED BY <1>3, <1>4, <1>6, <1>7, <1>8

\* The shuffled vertices are all of them.
LEMMA AllShuffled ==
  ASSUME call \in Calls, Follows
  PROVE  \A s \in Vertices : \E k \in 1 .. n : indices[k] = s
<1>1. n \in Nat \ {0}
  BY CallTypes
<1>2. IsFiniteSet(1 .. n) /\ IsFiniteSet(Vertices)
  BY <1>1, FS_Interval DEF Vertices
<1>3. Cardinality(1 .. n) = Cardinality(Vertices)
  <2>1. Cardinality(1 .. n) = n /\ Cardinality(0 .. n - 1) = n
    BY <1>1, FS_Interval
  <2> QED BY <2>1 DEF Vertices
<1>4. indices \in Injection(1 .. n, Vertices)
  BY DEF Follows, IsInjective, Injection
<1>5. indices \in Surjection(1 .. n, Vertices)
  BY <1>2, <1>3, <1>4, FS_Injection
<1> QED BY <1>5 DEF Surjection

\* A set with 0 and the successor of every number in it has all numbers.
LEMMA SetInduction ==
  ASSUME NEW S, 0 \in S, \A k \in Nat : k \in S => k + 1 \in S
  PROVE  Nat \subseteq S
<1> DEFINE Less == {p \in Nat \X Nat : p[1] < p[2]}
           T == {k \in Nat : k \notin S}
<1> SUFFICES ASSUME NEW a \in T PROVE FALSE
  OBVIOUS
<1>1. IsWellFoundedOn(Less, Nat)
  BY NatLessThanWellFounded DEF OpToRel
<1> HIDE DEF Less
<1>2. PICK m \in T : \A k \in T : <<k, m>> \notin Less
  BY <1>1, WFMin
<1>3. m # 0 /\ m \in Nat
  BY <1>2
<1>4. m - 1 \in Nat /\ m - 1 < m /\ (m - 1) + 1 = m
  BY <1>3
<1>5. m - 1 \notin T
  BY <1>2, <1>3, <1>4 DEF Less
<1>6. m \in S
  BY <1>4, <1>5
<1> QED BY <1>2, <1>6

\* A set of vertices that no edge of the finished chain leaves: with the vertex
\* at one place it has those at all later ones, the first and so all.
LEMMA ClosedIsAll ==
  ASSUME call \in Calls, Follows, i = n, edges[n] = Closing, Len(edges) = n,
         edges \in Seq(Pairs),
         NEW S \in SUBSET Vertices, S # {},
         \A k \in DOMAIN edges : edges[k][1] \in S => edges[k][2] \in S
  PROVE  S = Vertices
<1>1. n \in Nat \ {0} /\ DOMAIN edges = 1 .. n
  BY CallTypes, LenProperties
<1>2. \A j \in 1 .. n - 1 : indices[j] \in S => indices[j + 1] \in S
  BY <1>1 DEF Follows
<1>3. indices[n] \in S => indices[1] \in S
  BY <1>1 DEF Closing
<1>4. ASSUME NEW k \in 1 .. n, indices[k] \in S
      PROVE  \A m \in k .. n : indices[m] \in S
  <2> DEFINE Reached == {d \in Nat : k + d <= n => indices[k + d] \in S}
  <2>1. 0 \in Reached
    BY <1>1, <1>4
  <2>2. \A d \in Nat : d \in Reached => d + 1 \in Reached
    <3> SUFFICES ASSUME NEW d \in Nat, d \in Reached, k + (d + 1) <= n
                 PROVE  indices[k + (d + 1)] \in S
      OBVIOUS
    <3>1. k + d \in 1 .. n - 1 /\ (k + d) + 1 = k + (d + 1)
      BY <1>1
    <3>2. indices[k + d] \in S
      BY <1>1, <3>1
    <3> QED BY <1>2, <3>1, <3>2
  <2>3. Nat \subseteq Reached
    <3> HIDE DEF Reached
    <3> QED BY <2>1, <2>2, SetInduction
  <2> SUFFICES ASSUME NEW m \in k .. n PROVE indices[m] \in S
    OBVIOUS
  <2>4. m - k \in Nat /\ k + (m - k) = m /\ m <= n
    BY <1>1
  <2>5. m - k \in Reached
    BY <2>3, <2>4
  <2> QED BY <2>4, <2>5
<1>5. PICK s \in S : TRUE
  OBVIOUS
<1>6. PICK k \in 1 .. n : indices[k] = s
  BY <1>5, AllShuffled
<1>7. n \in k .. n /\ 1 \in 1 .. n
  BY <1>1
<1>8. indices[1] \in S
  BY <1>3, <1>4, <1>6, <1>7
<1>9. \A m \in 1 .. n : indices[m] \in S
  BY <1>4, <1>7, <1>8
<1> QED BY <1>9, AllShuffled

\* From every vertex of the finished chain one edge goes out.
LEMMA OneEdgeLeaves ==
  ASSUME call \in Calls, Follows, i = n, edges[n] = Closing, Len(edges) = n,
         edges \in Seq(Pairs), NEW s \in Vertices
  PROVE  Cardinality({k \in DOMAIN edges : edges[k][1] = s}) = 1
<1>1. n \in Nat \ {0} /\ DOMAIN edges = 1 .. n
  BY CallTypes, LenProperties
<1>2. \A k \in 1 .. n : edges[k][1] = indices[k]
  <2> SUFFICES ASSUME NEW k \in 1 .. n PROVE edges[k][1] = indices[k]
    OBVIOUS
  <2>1. k = n \/ k \in 1 .. i - 1
    BY <1>1
  <2> QED BY <2>1 DEF Follows, Closing
<1>3. PICK k \in 1 .. n : indices[k] = s
  BY AllShuffled
<1>4. \A j \in 1 .. n : indices[j] = s => j = k
  BY <1>3 DEF Follows, IsInjective
<1>5. {j \in DOMAIN edges : edges[j][1] = s} = {k}
  BY <1>1, <1>2, <1>3, <1>4
<1> QED BY <1>5, FS_Singleton

\* The chain generator makes one cycle through all vertices, for any number of
\* them and any shuffle: no part of the vertices is closed, so that a traversal
\* that chases the pointers visits them all.
THEOREM ChainGoesThroughAll == Spec => []ChainIsOneCycle
<1>1. IInv /\ ChainInv => ChainIsOneCycle
  <2> SUFFICES ASSUME IInv, ChainInv, pc = "done", call.generator = "chain"
               PROVE  ChainIsOneCycle
    BY DEF ChainIsOneCycle
  <2>1. /\ Follows /\ i = n /\ Len(edges) = n /\ edges[n] = Closing
        /\ call \in Calls /\ edges \in Seq(Pairs)
    BY DEF IInv, Typed, ChainInv
  <2>2. \A s \in Vertices : Cardinality({k \in DOMAIN edges : edges[k][1] = s}) = 1
    BY <2>1, OneEdgeLeaves
  <2>3. \A S \in (SUBSET Vertices) \ {{}} :
          (\A k \in DOMAIN edges : edges[k][1] \in S => edges[k][2] \in S) => S = Vertices
    BY <2>1, ClosedIsAll
  <2> QED BY <2>2, <2>3 DEF ChainIsOneCycle
<1> QED BY <1>1, InitIInv, NextIInv, InitChainInv, NextChainInv, PTL DEF Spec

-----------------------------------------------------------------------------
(* The grid: after the cell of number k - 1, the edges that are there are   *)
(* those between a cell below k and the ones to its right and beneath it.   *)

\* The cells that cell s is joined to when its turn comes.
Ahead(s) ==
  {t \in Vertices : \/ t = s + 1 /\ s % call.width < call.width - 1
                    \/ t = s + call.width /\ s \div call.width < call.height - 1}

JoinedBelow(k) ==
  {e \in Pairs : \/ e[1] < k /\ e[2] \in Ahead(e[1])
                 \/ e[2] < k /\ e[1] \in Ahead(e[2])}

GridInv ==
  call.generator = "grid" =>
    /\ x < call.width
    /\ y <= call.height /\ (y = call.height => x = 0)
    /\ pc = "done" => y = call.height
    /\ ToSet(edges) = JoinedBelow(y * call.width + x)
    /\ IsInjective(edges)

\* A number below w * h is that of one cell.
LEMMA CellOfNumber ==
  ASSUME NEW w \in Nat \ {0}, NEW s \in Nat
  PROVE  /\ s % w \in 0 .. w - 1 /\ s \div w \in Nat
         /\ s = (s \div w) * w + (s % w)
OBVIOUS

LEMMA SameCell ==
  ASSUME NEW w \in Nat, NEW a \in Nat, NEW b \in Nat, NEW c \in Nat, NEW d \in Nat,
         a < w, c < w, b * w + a = d * w + c
  PROVE  a = c /\ b = d
<1>1. b * w \in Nat /\ d * w \in Nat
  OBVIOUS
<1>2. ASSUME NEW p \in Nat, NEW q \in Nat, p < q PROVE p * w + w <= q * w
  <2> DEFINE r == q - (p + 1)
  <2>1. r \in Nat /\ q = p + 1 + r
    BY <1>2
  <2>2. r * w \in Nat
    BY <2>1
  <2>3. q * w = p * w + w + r * w
    BY <2>1
  <2>4. p * w \in Nat
    OBVIOUS
  <2> HIDE DEF r
  <2> QED BY <2>2, <2>3, <2>4
<1>3. ~(b < d)
  <2> SUFFICES ASSUME b < d PROVE FALSE
    OBVIOUS
  <2>1. b * w + w <= d * w
    BY <1>2
  <2> QED BY <1>1, <2>1
<1>4. ~(d < b)
  <2> SUFFICES ASSUME d < b PROVE FALSE
    OBVIOUS
  <2>1. d * w + w <= b * w
    BY <1>2
  <2> QED BY <1>1, <2>1
<1>5. b = d
  BY <1>3, <1>4
<1> QED BY <1>1, <1>5

\* The column and the row of a cell.
LEMMA NumberOfCell ==
  ASSUME NEW w \in Nat, NEW a \in Nat, NEW b \in Nat, a < w
  PROVE  (b * w + a) % w = a /\ (b * w + a) \div w = b
<1>1. w \in Nat \ {0}
  OBVIOUS
<1>2. PICK s \in Nat : s = b * w + a
  OBVIOUS
<1>3. /\ s % w \in 0 .. w - 1 /\ s \div w \in Nat
      /\ s = (s \div w) * w + (s % w)
  BY <1>1, CellOfNumber
<1>4. PICK c \in Nat : c = s % w
  BY <1>3, <1>1
<1>5. PICK d \in Nat : d = s \div w
  BY <1>3
<1>6. c < w /\ b * w + a = d * w + c
  BY <1>1, <1>2, <1>3, <1>4, <1>5
<1>7. a = c /\ b = d
  BY <1>6, SameCell
<1> QED BY <1>2, <1>4, <1>5, <1>7

\* One list after another that shares nothing with it.
LEMMA InjectiveConcat ==
  ASSUME NEW T, NEW p \in Seq(T), NEW q \in Seq(T)
  PROVE  /\ p \o q \in Seq(T)
         /\ ToSet(p \o q) = ToSet(p) \cup ToSet(q)
         /\ IsInjective(p) /\ IsInjective(q) /\ ToSet(p) \cap ToSet(q) = {}
              => IsInjective(p \o q)
<1> DEFINE r == p \o q
<1>1. /\ r \in Seq(T) /\ Len(r) = Len(p) + Len(q)
      /\ Len(p) \in Nat /\ Len(q) \in Nat
      /\ DOMAIN r = 1 .. Len(p) + Len(q)
      /\ DOMAIN p = 1 .. Len(p) /\ DOMAIN q = 1 .. Len(q)
  BY ConcatProperties, LenProperties
<1>2. /\ \A k \in 1 .. Len(p) : r[k] = p[k]
      /\ \A k \in 1 .. Len(q) : Len(p) + k \in DOMAIN r /\ r[Len(p) + k] = q[k]
  BY <1>1, ConcatProperties
<1>3. \A k \in DOMAIN r : \/ k \in 1 .. Len(p) /\ r[k] = p[k]
                          \/ k - Len(p) \in 1 .. Len(q) /\ r[k] = q[k - Len(p)]
  <2> SUFFICES ASSUME NEW k \in DOMAIN r, k \notin 1 .. Len(p)
               PROVE  k - Len(p) \in 1 .. Len(q) /\ r[k] = q[k - Len(p)]
    BY <1>2
  <2>1. k - Len(p) \in 1 .. Len(q) /\ Len(p) + (k - Len(p)) = k
    BY <1>1
  <2> QED BY <1>2, <2>1
<1>4. \A k \in 1 .. Len(p) : k \in DOMAIN r
  BY <1>1
<1> HIDE DEF r
<1>5. ToSet(r) = ToSet(p) \cup ToSet(q)
  <2>1. ToSet(r) \subseteq ToSet(p) \cup ToSet(q)
    BY <1>1, <1>3 DEF ToSet
  <2>2. ToSet(p) \cup ToSet(q) \subseteq ToSet(r)
    BY <1>1, <1>2, <1>4 DEF ToSet
  <2> QED BY <2>1, <2>2
<1>6. ASSUME IsInjective(p), IsInjective(q), ToSet(p) \cap ToSet(q) = {}
      PROVE  IsInjective(r)
  <2> SUFFICES ASSUME NEW j \in DOMAIN r, NEW k \in DOMAIN r, r[j] = r[k]
               PROVE  j = k
    BY DEF IsInjective
  <2>1. \A a \in 1 .. Len(p), b \in 1 .. Len(q) : p[a] # q[b]
    BY <1>1, <1>6 DEF ToSet
  <2>2. CASE j \in 1 .. Len(p) /\ r[j] = p[j]
    <3>1. k \in 1 .. Len(p) /\ r[k] = p[k]
      BY <1>3, <2>1, <2>2
    <3> QED BY <1>1, <1>6, <2>2, <3>1 DEF IsInjective
  <2>3. CASE j - Len(p) \in 1 .. Len(q) /\ r[j] = q[j - Len(p)]
    <3>1. k - Len(p) \in 1 .. Len(q) /\ r[k] = q[k - Len(p)]
      BY <1>3, <2>1, <2>3
    <3>2. j - Len(p) = k - Len(p)
      BY <1>1, <1>6, <2>3, <3>1 DEF IsInjective
    <3> QED BY <1>1, <3>2
  <2> QED BY <1>3, <2>2, <2>3
<1> QED BY <1>1, <1>5, <1>6 DEF r

\* The two edges between two cells.
LEMMA BothEdges ==
  ASSUME NEW s \in Vertices, NEW t \in Vertices, s # t
  PROVE  /\ Both(s, t) \in Seq(Pairs)
         /\ ToSet(Both(s, t)) = {<<s, t>>, <<t, s>>}
         /\ IsInjective(Both(s, t))
<1>1. <<s, t>> \in Pairs /\ <<t, s>> \in Pairs /\ <<s, t>> # <<t, s>>
  BY DEF Pairs
<1> DEFINE q == Both(s, t)
<1>2. /\ q \in Seq(Pairs) /\ DOMAIN q = {1, 2}
      /\ q[1] = <<s, t>> /\ q[2] = <<t, s>>
  BY <1>1 DEF Both
<1> HIDE DEF q
<1>3. ToSet(q) = {<<s, t>>, <<t, s>>} /\ IsInjective(q)
  BY <1>1, <1>2 DEF ToSet, IsInjective
<1> QED BY <1>2, <1>3 DEF q

\* The empty list adds no edge.
LEMMA NoEdges == << >> \in Seq(Pairs) /\ ToSet(<< >>) = {} /\ IsInjective(<< >>)
BY DEF ToSet, IsInjective

\* Where JoinCell stands.
AtCell ==
  /\ call \in Calls /\ call.generator = "grid"
  /\ x \in Nat /\ y \in Nat
  /\ x < call.width /\ y < call.height

Cell == y * call.width + x

LEMMA CellTypes ==
  ASSUME AtCell
  PROVE  /\ call.width \in Nat \ {0} /\ call.height \in Nat \ {0}
         /\ n \in Nat \ {0} /\ n = call.width * call.height
         /\ Cell \in Vertices /\ Cell \in Nat
         /\ Cell % call.width = x /\ Cell \div call.width = y
         /\ x < call.width - 1 => Cell + 1 \in Vertices
         /\ y < call.height - 1 => Cell + call.width \in Vertices
<1>1. /\ x \in Nat /\ y \in Nat /\ x < call.width /\ y < call.height
      /\ call.width \in Nat \ {0} /\ call.height \in Nat \ {0}
      /\ n \in Nat \ {0} /\ n = call.width * call.height
  BY CallTypes DEF AtCell
<1>2. PICK w \in Nat : w = call.width
  BY <1>1
<1>3. PICK h \in Nat : h = call.height
  BY <1>1
<1>4. Vertices = 0 .. w * h - 1 /\ Cell = y * w + x
  BY <1>1, <1>2, <1>3 DEF Vertices, Cell
<1>5. Cell \in Vertices /\ Cell \in Nat
  <2>1. y * w + x \in 0 .. w * h - 1
    BY <1>1, <1>2, <1>3, CellNumber
  <2>2. \A k \in Vertices : k \in Nat
    BY <1>1 DEF Vertices
  <2> QED BY <1>4, <2>1, <2>2
<1>6. Cell % w = x /\ Cell \div w = y
  BY <1>1, <1>2, <1>4, NumberOfCell
<1>7. ASSUME x < w - 1 PROVE Cell + 1 \in Vertices
  <2>1. y * w + (x + 1) \in 0 .. w * h - 1
    BY <1>1, <1>2, <1>3, <1>7, CellNumber
  <2>2. Cell + 1 = y * w + (x + 1)
    BY <1>1, <1>4
  <2> QED BY <1>4, <2>1, <2>2
<1>8. ASSUME y < h - 1 PROVE Cell + w \in Vertices
  <2>1. (y + 1) * w + x \in 0 .. w * h - 1
    BY <1>1, <1>2, <1>3, <1>8, CellNumber
  <2>2. Cell + w = (y + 1) * w + x
    BY <1>1, <1>4
  <2> QED BY <1>4, <2>1, <2>2
<1> QED BY <1>1, <1>2, <1>3, <1>5, <1>6, <1>7, <1>8

\* What a cell adds: both edges to the right unless it is the last of its row,
\* both edges down unless it is in the last row.
LEMMA AddedByCell ==
  ASSUME AtCell
  PROVE  /\ ToRight \in Seq(Pairs) /\ Downward \in Seq(Pairs)
         /\ IsInjective(ToRight) /\ IsInjective(Downward)
         /\ ToSet(ToRight) =
              {e \in Pairs : x < call.width - 1 /\ e \in {<<Cell, Cell + 1>>, <<Cell + 1, Cell>>}}
         /\ ToSet(Downward) =
              {e \in Pairs : /\ y < call.height - 1
                             /\ e \in {<<Cell, Cell + call.width>>, <<Cell + call.width, Cell>>}}
<1>1. /\ call.width \in Nat \ {0} /\ call.height \in Nat \ {0}
      /\ Cell \in Vertices /\ Cell \in Nat
      /\ x < call.width - 1 => Cell + 1 \in Vertices
      /\ y < call.height - 1 => Cell + call.width \in Vertices
  BY CellTypes
<1>2. x \in Nat /\ y \in Nat
  BY DEF AtCell
<1>3. ToRight = IF x < call.width - 1 THEN Both(Cell, Cell + 1) ELSE << >>
  <2>1. y * call.width + (x + 1) = Cell + 1
    BY <1>1, <1>2 DEF Cell
  <2> QED BY <2>1 DEF ToRight, Cell
<1>4. Downward = IF y < call.height - 1 THEN Both(Cell, Cell + call.width) ELSE << >>
  <2>1. \A w \in Nat : (y + 1) * w + x = (y * w + x) + w
    BY <1>2
  <2>2. (y + 1) * call.width + x = Cell + call.width
    BY <1>1, <2>1 DEF Cell
  <2> QED BY <2>2 DEF Downward, Cell
<1>5. PICK a \in Nat : a = Cell
  BY <1>1
<1>6. PICK b \in Nat : b = Cell + 1
  BY <1>1
<1>7. PICK c \in Nat : c = Cell + call.width
  BY <1>1
<1>8. a # b /\ a # c /\ a \in Vertices
  BY <1>1, <1>5, <1>6, <1>7
<1>9. /\ ToRight \in Seq(Pairs) /\ IsInjective(ToRight)
      /\ ToSet(ToRight) = {e \in Pairs : x < call.width - 1 /\ e \in {<<a, b>>, <<b, a>>}}
  <2>1. CASE x < call.width - 1
    <3>1. b \in Vertices /\ ToRight = Both(a, b)
      BY <1>1, <1>3, <1>5, <1>6, <2>1
    <3>2. <<a, b>> \in Pairs /\ <<b, a>> \in Pairs
      BY <1>8, <3>1 DEF Pairs
    <3>3. /\ Both(a, b) \in Seq(Pairs) /\ IsInjective(Both(a, b))
          /\ ToSet(Both(a, b)) = {<<a, b>>, <<b, a>>}
      BY <1>8, <3>1, BothEdges
    <3> QED BY <2>1, <3>1, <3>2, <3>3
  <2>2. CASE ~(x < call.width - 1)
    <3>1. ToRight = << >>
      BY <1>3, <2>2
    <3>2. {e \in Pairs : x < call.width - 1 /\ e \in {<<a, b>>, <<b, a>>}} = {}
      BY <2>2
    <3> QED BY <3>1, <3>2, NoEdges
  <2> QED BY <2>1, <2>2
<1>10. /\ Downward \in Seq(Pairs) /\ IsInjective(Downward)
       /\ ToSet(Downward) = {e \in Pairs : y < call.height - 1 /\ e \in {<<a, c>>, <<c, a>>}}
  <2>1. CASE y < call.height - 1
    <3>1. c \in Vertices /\ Downward = Both(a, c)
      BY <1>1, <1>4, <1>5, <1>7, <2>1
    <3>2. <<a, c>> \in Pairs /\ <<c, a>> \in Pairs
      BY <1>8, <3>1 DEF Pairs
    <3>3. /\ Both(a, c) \in Seq(Pairs) /\ IsInjective(Both(a, c))
          /\ ToSet(Both(a, c)) = {<<a, c>>, <<c, a>>}
      BY <1>8, <3>1, BothEdges
    <3> QED BY <2>1, <3>1, <3>2, <3>3
  <2>2. CASE ~(y < call.height - 1)
    <3>1. Downward = << >>
      BY <1>4, <2>2
    <3>2. {e \in Pairs : y < call.height - 1 /\ e \in {<<a, c>>, <<c, a>>}} = {}
      BY <2>2
    <3> QED BY <3>1, <3>2, NoEdges
  <2> QED BY <2>1, <2>2
<1> QED BY <1>5, <1>6, <1>7, <1>9, <1>10

\* What is joined below the next cell.
LEMMA JoinedToCell ==
  ASSUME AtCell
  PROVE  JoinedBelow(Cell + 1) = JoinedBelow(Cell) \cup ToSet(ToRight) \cup ToSet(Downward)
<1>1. PICK a \in Nat : a = Cell
  BY CellTypes
<1>2. PICK w \in Nat : w = call.width
  BY CellTypes
<1> DEFINE right == x < call.width - 1
           down == y < call.height - 1
<1>3. /\ ToSet(ToRight) = {e \in Pairs : right /\ e \in {<<a, a + 1>>, <<a + 1, a>>}}
      /\ ToSet(Downward) = {e \in Pairs : down /\ e \in {<<a, a + w>>, <<a + w, a>>}}
  BY <1>1, <1>2, AddedByCell
<1>4. \A t \in Vertices : t \in Ahead(a) <=> (t = a + 1 /\ right) \/ (t = a + w /\ down)
  BY <1>1, <1>2, CellTypes DEF Ahead
<1> HIDE DEF right, down
<1>5. \A k \in Vertices : k \in Nat /\ (k < a + 1 <=> k < a \/ k = a)
  BY CellTypes, <1>1 DEF Vertices
<1>6. ASSUME NEW e \in Pairs
      PROVE  e \in JoinedBelow(a + 1) <=>
               \/ e \in JoinedBelow(a)
               \/ e[1] = a /\ e[2] \in Ahead(a)
               \/ e[2] = a /\ e[1] \in Ahead(a)
  BY <1>5 DEF JoinedBelow, Pairs
<1>7. ASSUME NEW e \in Pairs
      PROVE  e \in ToSet(ToRight) \cup ToSet(Downward) <=>
               \/ e[1] = a /\ e[2] \in Ahead(a)
               \/ e[2] = a /\ e[1] \in Ahead(a)
  <2>1. e = <<e[1], e[2]>> /\ e[1] \in Vertices /\ e[2] \in Vertices
    BY DEF Pairs
  <2>2. PICK b \in Vertices : b = e[1]
    BY <2>1
  <2>3. PICK c \in Vertices : c = e[2]
    BY <2>1
  <2>4. e = <<b, c>>
    BY <2>1, <2>2, <2>3
  <2>5. e \in ToSet(ToRight) \cup ToSet(Downward) <=>
          \/ right /\ ((b = a /\ c = a + 1) \/ (b = a + 1 /\ c = a))
          \/ down /\ ((b = a /\ c = a + w) \/ (b = a + w /\ c = a))
    BY <1>3, <2>4
  <2>6. /\ c \in Ahead(a) <=> (c = a + 1 /\ right) \/ (c = a + w /\ down)
        /\ b \in Ahead(a) <=> (b = a + 1 /\ right) \/ (b = a + w /\ down)
    BY <1>4
  <2> QED BY <2>2, <2>3, <2>5, <2>6
<1>8. ToSet(ToRight) \subseteq Pairs /\ ToSet(Downward) \subseteq Pairs
  BY <1>3
<1>9. JoinedBelow(a) \subseteq Pairs /\ JoinedBelow(a + 1) \subseteq Pairs
  BY DEF JoinedBelow
<1> QED BY <1>1, <1>6, <1>7, <1>8, <1>9

\* The edges a cell adds are new and differ.
LEMMA CellAddsNew ==
  ASSUME AtCell
  PROVE  /\ JoinedBelow(Cell) \cap ToSet(ToRight) = {}
         /\ (JoinedBelow(Cell) \cup ToSet(ToRight)) \cap ToSet(Downward) = {}
<1>1. PICK a \in Nat : a = Cell
  BY CellTypes
<1>2. PICK w \in Nat \ {0} : w = call.width
  BY CellTypes
<1>3. /\ ToSet(ToRight) = {e \in Pairs : x < w - 1 /\ e \in {<<a, a + 1>>, <<a + 1, a>>}}
      /\ ToSet(Downward) =
           {e \in Pairs : y < call.height - 1 /\ e \in {<<a, a + w>>, <<a + w, a>>}}
  BY <1>1, <1>2, AddedByCell
<1>4. \A e \in JoinedBelow(a) : e[1] < a \/ e[2] < a
  BY DEF JoinedBelow
<1>5. \A e \in ToSet(ToRight) \cup ToSet(Downward) : ~(e[1] < a) /\ ~(e[2] < a)
  <2>1. ~(a < a) /\ ~(a + 1 < a) /\ ~(a + w < a)
    BY <1>1, <1>2
  <2> QED BY <1>3, <2>1
<1>6. ToSet(ToRight) \cap ToSet(Downward) = {}
  <2> SUFFICES ASSUME NEW e \in ToSet(ToRight), e \in ToSet(Downward) PROVE FALSE
    OBVIOUS
  <2>1. x < w - 1 /\ x \in Nat
    BY <1>3 DEF AtCell
  <2>2. a + 1 # a + w /\ a + 1 # a /\ a + w # a
    BY <1>1, <1>2, <2>1
  <2> QED BY <1>3, <2>2
<1> QED BY <1>1, <1>4, <1>5, <1>6

LEMMA InitGridInv == Init => GridInv
<1> SUFFICES ASSUME Init, call.generator = "grid" PROVE GridInv
  BY DEF GridInv
<1>1. /\ call.width \in Nat /\ call.height \in Nat
      /\ n \in Nat \ {0} /\ n = call.width * call.height
      /\ x = 0 /\ y = 0 /\ edges = << >> /\ pc = "draw"
  BY CallTypes DEF Init
<1>2. 0 < call.width /\ 0 < call.height
  <2>1. \A k \in Nat : 0 * k = 0 /\ k * 0 = 0
    OBVIOUS
  <2>2. call.width # 0 /\ call.height # 0
    BY <1>1, <2>1
  <2> QED BY <1>1, <2>2
<1>3. y * call.width + x = 0
  BY <1>1
<1>4. JoinedBelow(0) = {}
  BY <1>1 DEF JoinedBelow, Pairs, Vertices
<1>5. ToSet(edges) = JoinedBelow(y * call.width + x) /\ IsInjective(edges)
  BY <1>1, <1>3, <1>4, NoEdges
<1>6. /\ x < call.width /\ y <= call.height
      /\ y # call.height /\ pc # "done"
  BY <1>1, <1>2
<1> QED BY <1>5, <1>6 DEF GridInv

LEMMA NextGridInv == IInv /\ GridInv /\ [Next]_vars => GridInv'
<1> SUFFICES ASSUME IInv, GridInv, [Next]_vars, call'.generator = "grid"
             PROVE  GridInv'
  BY DEF GridInv
<1>1. call' = call /\ call.generator = "grid" /\ n' = n /\ Vertices' = Vertices
  <2>1. call' = call
    BY DEF Next, vars, ReturnDrawn, DrawUniform, RedrawUniform, DrawStrict, DrawBit,
           AddRMAT, JoinCell, ReturnGrid, Shuffle, Link, Close
  <2> QED BY <2>1 DEF n, Vertices
<1>2. \A k : JoinedBelow(k)' = JoinedBelow(k')
  BY <1>1 DEF JoinedBelow, Ahead, Pairs
<1>3. /\ call \in Calls /\ x \in Nat /\ y \in Nat /\ edges \in Seq(Pairs)
      /\ call.width \in Nat /\ call.height \in Nat
  BY CallTypes DEF IInv, Typed
<1>4. /\ x < call.width /\ y <= call.height
      /\ y = call.height => x = 0
      /\ pc = "done" => y = call.height
      /\ ToSet(edges) = JoinedBelow(Cell)
      /\ IsInjective(edges)
  BY <1>1 DEF GridInv, Cell
<1>5. JoinCell \/ ReturnGrid \/ UNCHANGED vars
  BY <1>1 DEF Next, ReturnDrawn, DrawUniform, RedrawUniform, DrawStrict, DrawBit,
              AddRMAT, Shuffle, Link, Close, Running, Drawn, IInv, Drawing
<1>6. CASE JoinCell
  <2>1. AtCell
    BY <1>3, <1>6 DEF JoinCell, AtCell
  <2>2. /\ edges' = (edges \o ToRight) \o Downward /\ pc' = pc
        /\ IF x + 1 < call.width THEN x' = x + 1 /\ y' = y ELSE x' = 0 /\ y' = y + 1
    BY <1>6 DEF JoinCell
  <2>3. /\ ToRight \in Seq(Pairs) /\ Downward \in Seq(Pairs)
        /\ IsInjective(ToRight) /\ IsInjective(Downward)
    BY <2>1, AddedByCell
  <2>4. /\ edges \o ToRight \in Seq(Pairs)
        /\ ToSet(edges \o ToRight) = JoinedBelow(Cell) \cup ToSet(ToRight)
        /\ IsInjective(edges \o ToRight)
    BY <1>3, <1>4, <2>1, <2>3, CellAddsNew, InjectiveConcat
  <2>5. /\ ToSet(edges') = JoinedBelow(Cell) \cup ToSet(ToRight) \cup ToSet(Downward)
        /\ IsInjective(edges')
    <3>1. PICK mid \in Seq(Pairs) : mid = edges \o ToRight
      BY <2>4
    <3>2. ToSet(mid) \cap ToSet(Downward) = {} /\ IsInjective(mid)
      BY <2>1, <2>4, <3>1, CellAddsNew
    <3>3. /\ ToSet(mid \o Downward) = ToSet(mid) \cup ToSet(Downward)
          /\ IsInjective(mid \o Downward)
      BY <2>3, <3>2, InjectiveConcat
    <3> QED BY <2>2, <2>4, <3>1, <3>3
  <2>6. ToSet(edges') = JoinedBelow(Cell + 1)
    BY <2>1, <2>5, JoinedToCell
  <2>7. /\ x' < call.width /\ y' <= call.height
        /\ y' = call.height => x' = 0
        /\ y' * call.width + x' = Cell + 1
    <3>1. x < call.width /\ y < call.height
      BY <2>1 DEF AtCell
    <3>0. Cell + 1 = y * call.width + (x + 1)
      <4>1. \A w \in Nat : (y * w + x) + 1 = y * w + (x + 1)
        BY <1>3
      <4> QED BY <1>3, <4>1 DEF Cell
    <3>2. CASE x + 1 < call.width
      <4>1. x' = x + 1 /\ y' = y
        BY <2>2, <3>2
      <4>2. y' * call.width + x' = y * call.width + (x + 1) /\ y * call.width \in Nat
        BY <1>3, <4>1
      <4>3. x' < call.width /\ y' <= call.height /\ y' # call.height
        BY <1>3, <3>1, <3>2, <4>1
      <4> QED BY <3>0, <4>2, <4>3
    <3>3. CASE ~(x + 1 < call.width)
      <4>1. x' = 0 /\ y' = y + 1 /\ x + 1 = call.width
        BY <1>3, <2>2, <3>1, <3>3
      <4>2. \A w \in Nat : (y + 1) * w + 0 = y * w + w
        BY <1>3
      <4>3. y' * call.width + x' = y * call.width + (x + 1)
        BY <1>3, <4>1, <4>2
      <4>4. x' < call.width /\ y' <= call.height
        BY <1>3, <3>1, <4>1
      <4> QED BY <3>0, <4>1, <4>3, <4>4
    <3> QED BY <3>2, <3>3
  <2>8. pc' # "done"
    BY <1>3, <1>4, <2>1, <2>2 DEF AtCell
  <2> QED BY <1>1, <1>2, <2>5, <2>6, <2>7, <2>8 DEF GridInv
<1>7. CASE ReturnGrid
  <2>1. /\ x' = x /\ y' = y /\ edges' = edges
        /\ y = call.height
    BY <1>3, <1>4, <1>7 DEF ReturnGrid
  <2>2. IsInjective(edges') /\ ToSet(edges') = JoinedBelow(y * call.width + x)
    BY <1>4, <2>1 DEF Cell
  <2> QED BY <1>1, <1>2, <1>4, <2>1, <2>2 DEF GridInv
<1>8. CASE UNCHANGED vars
  <2>1. x' = x /\ y' = y /\ edges' = edges /\ pc' = pc
    BY <1>8 DEF vars
  <2>2. IsInjective(edges') /\ ToSet(edges') = JoinedBelow(y * call.width + x)
    BY <1>4, <2>1 DEF Cell
  <2> QED BY <1>1, <1>2, <1>4, <2>1, <2>2 DEF GridInv
<1> QED BY <1>5, <1>6, <1>7, <1>8

-----------------------------------------------------------------------------
\* How far two cells are apart, as GridIsMesh has it.
Distance(a, b) == IF a > b THEN a - b ELSE b - a
Apart(s, t) == Distance(s % call.width, t % call.width)
                 + Distance(s \div call.width, t \div call.width)

\* The numbers of the next cell of a row and of the one beneath.
LEMMA NextNumbers ==
  ASSUME NEW w \in Nat, NEW a \in Nat, NEW b \in Nat, NEW c \in Nat, NEW d \in Nat,
         a < w, c < w
  PROVE  /\ (d * w + c = (b * w + a) + 1 /\ a < w - 1) <=> (b = d /\ c = a + 1)
         /\ d * w + c = (b * w + a) + w <=> (a = c /\ d = b + 1)
<1>1. b * w \in Nat /\ d * w \in Nat
  OBVIOUS
<1>2. (b * w + a) + 1 = b * w + (a + 1)
  BY <1>1
<1>3. (b * w + a) + w = (b + 1) * w + a
  OBVIOUS
<1>4. ASSUME d * w + c = (b * w + a) + 1, a < w - 1 PROVE b = d /\ c = a + 1
  <2>1. a + 1 < w /\ a + 1 \in Nat /\ b * w + (a + 1) = d * w + c
    BY <1>2, <1>4
  <2> QED BY <2>1, SameCell
<1>5. ASSUME b = d, c = a + 1 PROVE d * w + c = (b * w + a) + 1 /\ a < w - 1
  BY <1>1, <1>5
<1>6. ASSUME d * w + c = (b * w + a) + w PROVE a = c /\ d = b + 1
  <2>1. b + 1 \in Nat /\ (b + 1) * w + a = d * w + c
    BY <1>3, <1>6
  <2>2. a = c /\ b + 1 = d
    BY <2>1, SameCell
  <2> QED BY <2>2
<1>7. ASSUME a = c, d = b + 1 PROVE d * w + c = (b * w + a) + w
  BY <1>3, <1>7
<1> QED BY <1>4, <1>5, <1>6, <1>7

\* Cell s has column a and row b.
IsCell(s, a, b) == a = s % call.width /\ b = s \div call.width

\* The cells ahead of a cell are the one in the next column and the one in the
\* next row.
LEMMA AheadIsNext ==
  ASSUME call \in Calls, call.generator = "grid", NEW s \in Vertices, NEW t \in Vertices,
         NEW a \in Nat, NEW b \in Nat, NEW c \in Nat, NEW d \in Nat,
         IsCell(s, a, b), IsCell(t, c, d)
  PROVE  t \in Ahead(s) <=> (b = d /\ c = a + 1) \/ (a = c /\ d = b + 1)
<1>1. /\ call.width \in Nat \ {0} /\ call.height \in Nat
      /\ n = call.width * call.height /\ n \in Nat
  <2>1. \A k \in Nat : 0 * k = 0
    OBVIOUS
  <2> QED BY <2>1, CallTypes
<1>2. PICK w \in Nat \ {0} : w = call.width
  BY <1>1
<1>3. PICK h \in Nat : h = call.height
  BY <1>1
<1>4. s \in Nat /\ t \in Nat /\ s < w * h /\ t < w * h
  BY <1>1, <1>2, <1>3 DEF Vertices
<1>5. s = b * w + a /\ t = d * w + c /\ a < w /\ c < w
  <2>1. s % w \in 0 .. w - 1 /\ s = (s \div w) * w + (s % w)
    BY <1>4, CellOfNumber
  <2>2. t % w \in 0 .. w - 1 /\ t = (t \div w) * w + (t % w)
    BY <1>4, CellOfNumber
  <2>3. s = b * w + a /\ t = d * w + c
    BY <1>2, <2>1, <2>2 DEF IsCell
  <2>4. a \in 0 .. w - 1 /\ c \in 0 .. w - 1
    BY <1>2, <2>1, <2>2 DEF IsCell
  <2> QED BY <2>3, <2>4
<1>6. d < h
  <2> SUFFICES ASSUME ~(d < h) PROVE FALSE
    OBVIOUS
  <2> DEFINE r == d - h
  <2>1. r \in Nat /\ d = h + r
    OBVIOUS
  <2>2. r * w \in Nat /\ w * h \in Nat
    BY <2>1
  <2>3. d * w = w * h + r * w
    BY <2>1
  <2> HIDE DEF r
  <2> QED BY <1>4, <1>5, <2>2, <2>3
<1>7. t \in Ahead(s) <=> (t = s + 1 /\ a < w - 1) \/ (t = s + w /\ b < h - 1)
  BY <1>2, <1>3 DEF Ahead, IsCell
<1>8. (t = s + 1 /\ a < w - 1) <=> (b = d /\ c = a + 1)
  BY <1>5, NextNumbers
<1>9. t = s + w <=> (a = c /\ d = b + 1)
  BY <1>5, NextNumbers
<1>10. d = b + 1 => b < h - 1
  BY <1>6
<1> QED BY <1>7, <1>8, <1>9, <1>10

\* Two cells are at distance one if and only if one is ahead of the other.
LEMMA ApartIsAhead ==
  ASSUME call \in Calls, call.generator = "grid", NEW s \in Vertices, NEW t \in Vertices
  PROVE  Apart(s, t) = 1 <=> t \in Ahead(s) \/ s \in Ahead(t)
<1>1. PICK w \in Nat \ {0} : w = call.width
  <2>1. \A k \in Nat : 0 * k = 0
    OBVIOUS
  <2> QED BY <2>1, CallTypes
<1>2. s \in Nat /\ t \in Nat
  BY CallTypes DEF Vertices
<1>3. PICK a \in Nat : a = s % w
  BY <1>1, <1>2, CellOfNumber
<1>4. PICK b \in Nat : b = s \div w
  BY <1>1, <1>2, CellOfNumber
<1>5. PICK c \in Nat : c = t % w
  BY <1>1, <1>2, CellOfNumber
<1>6. PICK d \in Nat : d = t \div w
  BY <1>1, <1>2, CellOfNumber
<1>7. t \in Ahead(s) <=> (b = d /\ c = a + 1) \/ (a = c /\ d = b + 1)
  BY <1>1, <1>3, <1>4, <1>5, <1>6, AheadIsNext DEF IsCell
<1>8. s \in Ahead(t) <=> (d = b /\ a = c + 1) \/ (c = a /\ b = d + 1)
  BY <1>1, <1>3, <1>4, <1>5, <1>6, AheadIsNext DEF IsCell
<1>9. Apart(s, t) = Distance(a, c) + Distance(b, d)
  BY <1>1, <1>3, <1>4, <1>5, <1>6 DEF Apart
<1>10. Distance(a, c) + Distance(b, d) = 1 <=>
         \/ b = d /\ (c = a + 1 \/ a = c + 1)
         \/ a = c /\ (d = b + 1 \/ b = d + 1)
  BY DEF Distance
<1> QED BY <1>7, <1>8, <1>9, <1>10

\* The grid joins exactly the cells at distance one, in both directions and
\* once, for any width and height: also at the ends of rows and columns, and for
\* a grid of one row or one column.
THEOREM GridJoinsNeighbours == Spec => []GridIsMesh
<1>1. IInv /\ GridInv => GridIsMesh
  <2> SUFFICES ASSUME IInv, GridInv, pc = "done", call.generator = "grid"
               PROVE  /\ ToSet(edges) = {e \in Vertices \X Vertices : Apart(e[1], e[2]) = 1}
                      /\ IsInjective(edges)
    BY DEF GridIsMesh, Apart, Distance
  <2>1. /\ call \in Calls /\ n \in Nat
        /\ call.width \in Nat /\ call.height \in Nat /\ n = call.width * call.height
    BY CallTypes DEF IInv, Typed
  <2>2. /\ y = call.height /\ x = 0 /\ IsInjective(edges)
        /\ ToSet(edges) = JoinedBelow(y * call.width + x)
    BY DEF GridInv
  <2>3. y * call.width + x = n
    BY <2>1, <2>2
  <2>4. \A s \in Vertices : s < n
    BY <2>1 DEF Vertices
  <2>5. JoinedBelow(n) =
          {e \in Pairs : e[2] \in Ahead(e[1]) \/ e[1] \in Ahead(e[2])}
    BY <2>4 DEF JoinedBelow, Pairs
  <2>6. \A e \in Pairs : Apart(e[1], e[2]) = 1 <=> e[2] \in Ahead(e[1]) \/ e[1] \in Ahead(e[2])
    BY <2>1, ApartIsAhead DEF Pairs
  <2> QED BY <2>2, <2>3, <2>5, <2>6 DEF Pairs
<1> QED BY <1>1, InitIInv, NextIInv, InitGridInv, NextGridInv, PTL DEF Spec
=============================================================================
