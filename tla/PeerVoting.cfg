SPECIFICATION Spec
CONSTANTS
  Voters <- MCVoters
  MaxLen = 7
  TxHashes <- MCTxHashes
INVARIANTS
  TypeOK
  SeenHasNoGaps
  HonestVoteNeverFails
  BeforeFollowsSeq
  ExactWhenFirstCameFirst
PROPERTIES
  SeenAndBeforeAreStable
  ImplementsVoteLog
