CONSTANTS
  m1 = m1
  m2 = m2
  NoOrder = NoOrder
  Markets <- MCMarkets
  StartTs <- MCStartTs
  EndTs <- MCEndTs
  Prices = {1, 2}
  Sizes = {1}
  Ttls = {2}
  EnableTakers = TRUE
  MaxOrderSize = 1
  MaxPositionPerMarket = 2
  MaxTotalPosition = 3
  MaxOpenOrders = 2
  FinalNoTrade = 1
  OrderLiveAfter = 1
  MaxTime = 4
  MaxBatches = 2
  MaxApplyDelay = 1
SPECIFICATION Spec
INVARIANTS TypeOK TrackedIffResting LedgersAgree ExposureBound ReconcileKeepsOnlyWanted
PROPERTIES LifeSpec
CHECK_DEADLOCK FALSE
