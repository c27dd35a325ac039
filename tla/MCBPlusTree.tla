----------------------------- MODULE MCBPlusTree -----------------------------
(* Trees of order 3, where nodes split most often, over up to eight keys:    *)
(* any five of them are there from the promotion, the others come in any     *)
(* order, and the weight of one key is overwritten.                          *)
EXTENDS BPlusTree, TLC

CONSTANTS MaxKey, PromotedItems

MCKeys == 1 .. MaxKey
MCPutCalls == {<<k, 1>> : k \in MCKeys} \cup {<<4, 2>>}
MCPromotions == {{[dst |-> k, weight |-> 1] : k \in S} :
                   S \in {T \in SUBSET MCKeys : Cardinality(T) = PromotedItems}}
=============================================================================
