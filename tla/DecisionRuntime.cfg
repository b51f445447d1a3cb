CONSTANTS
  m1 = m1
  m2 = m2
  NoBatch = NoBatch
  Markets <- TwoMarkets
  AdaptiveMode = FALSE
  MaxBatches = 2
  MaxFeeds = 1
  MaxControls = 2
  MaxFailures = 1
SPECIFICATION Spec
INVARIANTS TypeOK AppliesWhatItSaw EvidenceBeforeEffect ReportsAreDurable PausedMarketsStayEmpty
PROPERTIES NoOrderWhenStopped
