---------------------------- MODULE MCPosMapping ----------------------------
(* PosMapping for TLC.                                                     *)
EXTENDS PosMapping, TLC
Symmetry == Permutations(Skus) \cup Permutations(Variants) \cup Permutations(Requests)
=============================================================================
