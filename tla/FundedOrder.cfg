CONSTANTS
  Children = {c1, c2}
  Intents = {i1, i2}
  Redeemer = redeemer
  Nobody = nobody
  MaxDates = 2
  MaxReservations = 3
  MaxLapses = 1
SYMMETRY Symmetry
SPECIFICATION Spec
INVARIANTS TypeOK OneOrderAtRisk ReleasedCapitalIsSafe EvidenceIsTrue
PROPERTIES SentOnce
