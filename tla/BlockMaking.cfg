SPECIFICATION BlockSpec
CONSTANTS
  NumTxs = 4
  Pending <- MCPending
  SizeOf <- MCSize
  Matrices <- MCMatrices
  Options <- MCOptions
INVARIANTS
  RecomputeIsClosure
  LimitsHold
PROPERTY
  UnlimitedBlockIsWhole
