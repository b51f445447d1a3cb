CONSTANTS
  m1 = m1
  m2 = m2
  NoBatch = NoBatch
  Markets <- OneMarket
  AdaptiveMode = TRUE
  MaxBatches = 2
  MaxFeeds = 1
  MaxControls = 1
  MaxFailures = 2
SPECIFICATION FairSpec
PROPERTIES NothingWaitsForEver
