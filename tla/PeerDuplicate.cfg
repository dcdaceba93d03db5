SPECIFICATION Spec
CONSTANTS
  Voters <- HonestVoters
  MaxLen = 5
  TxHashes <- MCTxHashes
INVARIANT VoteAddedOnce
