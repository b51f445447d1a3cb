CONSTANTS
  Callers = {c1, c2}
  Keys = {k1, k2}
  Events = {e1}
  None = None
  CompletedLimit = 1
  MaxFaults = 3
  MaxCrashes = 1
SPECIFICATION Spec
INVARIANTS TypeOK StagedAlone RememberedWhileAsked
PROPERTIES JournalIsDurable NothingIsStuck
