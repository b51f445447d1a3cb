--------------------------- MODULE MCPaperEngine ---------------------------
(* Two markets: one that quotes from the start, and one that starts later,  *)
(* so that an order count and a total position held by one market bind the  *)
(* other.                                                                   *)
EXTENDS PaperEngine

CONSTANTS m1, m2

MCMarkets == {m1, m2}
MCStartTs == [m \in MCMarkets |-> IF m = m1 THEN 0 ELSE 1]
MCEndTs == [m \in MCMarkets |-> 4]

============================================================================
