SPECIFICATION Spec
CONSTANTS
  Controllers = {c1}
  Decisions = {d1, d2, d3}
  Nobody = Nobody
  Quota = 2
  CanaryIsBound = FALSE
  StoreMayFail = FALSE
SYMMETRY Symmetry
CHECK_DEADLOCK FALSE
INVARIANTS CompletedStageIsNotBlocked
