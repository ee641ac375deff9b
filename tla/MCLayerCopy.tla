----------------------------- MODULE MCLayerCopy -----------------------------
(* CONVENTIONS is matched at the top level only, AGENTS at any depth; agents *)
(* is a file of the project whose name differs from AGENTS only in case, on  *)
(* a filesystem that takes the two for one.                                  *)
EXTENDS LayerCopy, TLC
CONSTANTS CONVENTIONS, AGENTS, agents, v1, v2
MCPaths == {CONVENTIONS, AGENTS, agents}
MCLayer == {CONVENTIONS, AGENTS}
MCAnyDepth == {AGENTS}
MCFold == [p \in MCPaths |-> IF p = AGENTS THEN agents ELSE p]
Symmetry == Permutations({v1, v2})
=============================================================================
