SPECIFICATION FairSpec
CONSTANTS
  Goroutines = {g1, g2}
  Methods <- WithAddBlock
PROPERTY EveryCallReturns
CHECK_DEADLOCK FALSE
