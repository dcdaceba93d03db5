SPECIFICATION Spec
CONSTANTS
  Txs <- ThreeTxs
  TxSize <- Sizes
  GasWanted <- Gas
  Blocks <- SomeBlocks
  Configs <- MCConfigs
  ReapLimits <- Limits
  MaxHeight = 2
  MaxPending = 3
INVARIANTS
  NeverPanics
  LimitsHold
  ConsensusIsTold
  CommitedStayOut
  ReapIsLongestPrefix
PROPERTY ImplementsTxList
