--------------------------- MODULE VertexRegistry ---------------------------
(***************************************************************************)
(* The two maps by which a structure numbers its vertices: idMap and its   *)
(* inverse reverseIdMap.  Ids count from 1 in the order of registration.   *)
(***************************************************************************)
EXTENDS Naturals, SequencesExt

EmptyRegistry == [idMap |-> << >>, reverseIdMap |-> << >>]

Registered(reg, x) ==
  IF x \in DOMAIN reg.idMap THEN reg
  ELSE LET newId == Len(reg.reverseIdMap) + 1
       IN  [idMap |-> [y \in DOMAIN reg.idMap \cup {x} |->
                         IF y = x THEN newId ELSE reg.idMap[y]],
            reverseIdMap |-> Append(reg.reverseIdMap, x)]

RegisteredAll(reg, xs) == FoldLeft(Registered, reg, xs)
=============================================================================
