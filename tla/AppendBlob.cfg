CONSTANTS
  NumBlocks = 2
  Foreign = Foreign
  Unknown = Unknown
  MaxRead = 2
  MaxForeign = 2
  MaxFaults = 4
  MaxCreations = 1
SPECIFICATION Spec
INVARIANTS TypeOK
PROPERTIES BlobIsJournal AppendsAll
