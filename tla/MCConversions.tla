----------------------------- MODULE MCConversions -----------------------------
(* Parallel edges in both directions, a loop, and a vertex on its own.       *)
EXTENDS Conversions

CONSTANTS a, b, c

MCVertex == {a, b, c}
MCEdgeCalls == {<<a, b, 1>>, <<a, b, 2>>, <<b, a, 1>>, <<c, a, 1>>, <<a, a, 1>>}
MCVertexCalls == {c}
=============================================================================
