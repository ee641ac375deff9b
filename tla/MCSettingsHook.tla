---------------------------- MODULE MCSettingsHook ----------------------------
(* Processes are interchangeable: nothing orders or names them.             *)
EXTENDS SettingsHook, TLC

Symmetry == Permutations(Procs)
=============================================================================
