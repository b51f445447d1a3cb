------------------------- MODULE MCDecisionRuntime -------------------------
EXTENDS DecisionRuntime

CONSTANTS m1, m2

OneMarket == {m1}
TwoMarkets == {m1, m2}

============================================================================
