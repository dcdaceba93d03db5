SPECIFICATION BlockSpec
CONSTANTS
  NumTxs = 3
  Pending <- MCPending
  SizeOf <- MCSize
  Matrices <- MCTotalMatrices
  Options <- MCOptions
INVARIANT BlockersAreDependencies
