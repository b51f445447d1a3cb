CONSTANTS
  None = None
  Described = Described
  Start = 0
  End = 4
  Grace = 1
  Window = 1
  FinalWindow = 1
  Retention = 1
  MaxAge = 1
  Skew = 1
  MaxPosition = 1
  Horizon = 6
SPECIFICATION Spec
INVARIANTS TypeOK SettledStaysFlat BatchFollowsStart AuditPasses SettledOnce
PROPERTIES ClearedAsJournaled FrozenIsSettled
