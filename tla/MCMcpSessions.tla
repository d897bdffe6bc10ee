--------------------------- MODULE MCMcpSessions ---------------------------
(* McpSessions on small instances; workers and ids are interchangeable.    *)
EXTENDS McpSessions, TLC

Symmetry == Permutations(Workers) \cup Permutations(Ids)
=============================================================================
