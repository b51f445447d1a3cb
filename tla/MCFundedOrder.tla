--------------------------- MODULE MCFundedOrder ---------------------------
(* Instance of FundedOrder for TLC: children and intents are interchangeable. *)
EXTENDS FundedOrder, TLC

Symmetry == Permutations(Children) \cup Permutations(Intents)
=============================================================================
