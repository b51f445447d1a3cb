CONSTANTS
  m1 = m1
  m2 = m2
  NoBatch = NoBatch
  Markets <- TwoMarkets
  AdaptiveMode = FALSE
  MaxBatches = 2
  MaxFeeds = 0
  MaxControls = 0
  MaxFailures = 2
SPECIFICATION Spec
INVARIANTS ApplicationIsKept
