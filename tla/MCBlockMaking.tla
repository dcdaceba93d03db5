--------------------------- MODULE MCBlockMaking ----------------------------
(* Instances of BlockMaking for TLC.                                       *)
EXTENDS BlockMaking

CONSTANTS NumTxs

TxNames == <<"a", "b", "c", "d">>
MCPending == SubSeq(TxNames, 1, NumTxs)
MCSize == [tx \in ToSet(TxNames) |-> IF tx = "b" THEN 2 ELSE 1]

\* All matrices; the diagonal does not matter to recompute and is true as it
\* is in the program (no peer reports a transaction before itself).
MCMatrices ==
  {m \in [1..NumTxs -> [1..NumTxs -> BOOLEAN]] : \A i \in 1..NumTxs : m[i][i]}

\* The matrices of votes that are all known to a fixed validator set.
MCTotalMatrices ==
  {m \in MCMatrices :
     \A i, j \in 1..NumTxs : m[i][j] \/ m[j][i]}

MCOptions ==
  [TxLimit : {0, 2}, MaxBlockSize : {0, 3}]
=============================================================================
