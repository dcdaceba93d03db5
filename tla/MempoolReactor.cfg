SPECIFICATION FairSpec
CONSTANTS
  Conns <- FourConns
  Peers <- TwoPeers
  PeerOf <- MCPeerOf
  MaxUint = 3
  Configs <- MCConfigs
INVARIANTS
  IDsAreUnambiguous
  IDsAreGivenBack
  NothingIsSkipped
PROPERTIES
  EveryPeerGetsTx
  RoutineReturns
CHECK_DEADLOCK FALSE
