----------------------------- MODULE MCCSRGraph -----------------------------
(* Three vertices; parallel edges of two weights in both directions, a loop, *)
(* a sink, and a vertex that may be registered after finalize().             *)
EXTENDS CSRGraph

CONSTANTS a, b, c

MCVertex == {a, b, c}
MCEdgeCalls == {<<a, b, 2>>, <<a, b, 1>>, <<b, a, 2>>, <<a, c, 1>>, <<a, a, 1>>}
MCVertexCalls == {b, c}
=============================================================================
