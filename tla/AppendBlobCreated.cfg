CONSTANTS
  NumBlocks = 2
  Foreign = Foreign
  Unknown = Unknown
  MaxRead = 2
  MaxForeign = 1
  MaxFaults = 0
  MaxCreations = 1
SPECIFICATION Spec
INVARIANTS AcknowledgedStays
