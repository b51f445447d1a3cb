--------------------------- MODULE MCFundedStage ---------------------------
(* Instance of FundedStage for TLC: executions and decisions are             *)
(* interchangeable.                                                          *)
EXTENDS FundedStage, TLC

Symmetry == Permutations(Controllers) \cup Permutations(Decisions)
=============================================================================
