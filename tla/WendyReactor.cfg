SPECIFICATION ReactorFairSpec
CONSTANTS
  Txs = {t1, t2, t3}
  Peers = {p1, p2, p3}
  Unreliable = {p3}
INVARIANTS
  VotesAreUnique
PROPERTY EveryTxIsNumbered
CHECK_DEADLOCK FALSE
