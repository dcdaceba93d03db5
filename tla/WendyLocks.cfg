SPECIFICATION FairSpec
CONSTANTS
  Goroutines = {g1, g2, g3}
  Methods <- MostMethods
INVARIANTS
  OnlyQueriesRace
  LockOrder
PROPERTY EveryCallReturns
CHECK_DEADLOCK FALSE
