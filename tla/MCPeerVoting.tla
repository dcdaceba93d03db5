---------------------------- MODULE MCPeerVoting ----------------------------
(* Instances of PeerVoting for TLC.                                        *)
EXTENDS PeerVoting

MCTxHashes == {"a", "b", "c", "d"}
TxOfVote == <<"a", "b", "c", "d">>
NoHash == << >>       \* the PrevHash of a first vote

Vote(seq, tx, prevHash) ==
  [seq |-> seq, txHash |-> tx, time |-> 0, prevHash |-> prevHash]

\* The votes of an honest voter: consecutive numbers, each vote carrying the
\* hash of the one before, each for another transaction.
Chain(first, len) ==
  LET c[n \in 1..len] ==
        Vote(first + n - 1, TxOfVote[n],
             IF n = 1 THEN NoHash ELSE Hash(c[n-1]))
  IN  c

Honest(first, len) ==
  [votes |-> ToSet(Chain(first, len)), firstSeq |-> first]

\* The honest chain, a vote that equivocates on its second number, and one
\* that continues the chain without the hash of the vote before it.
Equivocating(first, len) ==
  LET chain == Chain(first, len)
  IN  [votes |-> ToSet(chain) \cup
                   { Vote(first + 1, "a", Hash(chain[1])),
                     Vote(first + len, "d", NoHash) },
       firstSeq |-> first]

MCVoters == {Honest(1, 4), Honest(0, 3), Equivocating(0, 3)}
HonestVoters == {Honest(1, 3)}
=============================================================================
