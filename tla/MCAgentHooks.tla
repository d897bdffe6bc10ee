---------------------------- MODULE MCAgentHooks ----------------------------
(* AgentHooks on small instances; hook processes and tool uses are         *)
(* interchangeable.                                                        *)
EXTENDS AgentHooks, TLC

Symmetry == Permutations(Hooks) \cup Permutations(Uses)
=============================================================================
