------------------------- MODULE MCPromotionLadder -------------------------
(* Instance of PromotionLadder for TLC: executions are interchangeable.      *)
EXTENDS PromotionLadder, TLC

Symmetry == Permutations(Jobs)
=============================================================================
