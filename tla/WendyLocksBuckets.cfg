SPECIFICATION Spec
CONSTANTS
  Goroutines = {g1, g2}
  Methods <- Queries
INVARIANT NoDataRace
CHECK_DEADLOCK FALSE
