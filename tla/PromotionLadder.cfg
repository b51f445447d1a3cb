SPECIFICATION Spec
CONSTANTS
  Jobs = {j1, j2}
  CanaryIsBound = TRUE
  OlderProgressCounts = TRUE
SYMMETRY Symmetry
CHECK_DEADLOCK FALSE
INVARIANTS TypeOK SpendingIsGranted
PROPERTIES CampaignSpec
