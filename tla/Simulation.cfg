SPECIFICATION FairSpec
CONSTANTS
  AllNodes <- ThreeNodes
  AllTxs <- ThreeTxs
  Networks <- MCNetworks
INVARIANTS
  NotBlockedWhenQuiet
  OrderOfCallsIsKept
  NoVoteRefused
  SameViewWhenQuiet
PROPERTY GossipEnds
CHECK_DEADLOCK FALSE
