SPECIFICATION Spec
CONSTANTS
  TxHashes <- TwoTxs
  Size <- UnitSize
  Environments <- MCEnvironments
INVARIANTS
  IndexInStep
  OneOfTwoIsBlocked
PROPERTIES
  SeenPriorityIsFinal
  BlockLeavesNothingOut
CHECK_DEADLOCK FALSE
