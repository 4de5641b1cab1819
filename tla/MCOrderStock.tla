---------------------------- MODULE MCOrderStock ----------------------------
(***************************************************************************)
(* OrderStock for TLC.  Orders, requests and forms are interchangeable, so *)
(* the runs of safety properties identify states that differ by a          *)
(* permutation of them.                                                    *)
(***************************************************************************)
EXTENDS OrderStock, TLC

Symmetry == Permutations(Orders) \cup Permutations(Editors)
                \cup Permutations(Forms) \cup Permutations(Variants)
=============================================================================
