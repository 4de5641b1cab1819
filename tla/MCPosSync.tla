----------------------------- MODULE MCPosSync -----------------------------
(* PosSync for TLC: orders and workers are interchangeable.                *)
EXTENDS PosSync, TLC

Symmetry == Permutations(Orders) \cup Permutations(Workers)
                \cup Permutations(Variants)
=============================================================================
