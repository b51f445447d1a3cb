SPECIFICATION Spec
CONSTANTS
  Controllers = {c1, c2}
  Decisions = {d1, d2, d3}
  Nobody = Nobody
  Quota = 2
  CanaryIsBound = TRUE
  StoreMayFail = TRUE
SYMMETRY Symmetry
CHECK_DEADLOCK FALSE
INVARIANTS TypeOK QuotaHolds CheckpointIsExact
PROPERTIES NoReplacementSpending
