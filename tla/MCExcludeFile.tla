---------------------------- MODULE MCExcludeFile ----------------------------
(* Two patterns, two worktrees' runs: enough for a partial block, for a line *)
(* run into another and for a block of only some patterns.                   *)
EXTENDS ExcludeFile
CONSTANTS p1, p2
Symmetry == Permutations(Procs)
MCPatternList == <<p1, p2>>
=============================================================================
