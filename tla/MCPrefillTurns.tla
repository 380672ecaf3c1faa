---------------------------- MODULE MCPrefillTurns ----------------------------
(* PrefillTurns for TLC. *)
EXTENDS PrefillTurns, TLC

\* Requests differ only in when they arrive and how long they are.
RequestSymmetry == Permutations(Requests)
===============================================================================
