----------------------------- MODULE BlockingSet ----------------------------
(***************************************************************************)
(* How a block is put together from the pending transactions: the closure  *)
(* of the blocking matrix (recompute), the blockers of every transaction   *)
(* (BlockingSet) and the block filled from them under the limits of its    *)
(* options (NewBlockWithOptions), all of wendy.go.                         *)
(*                                                                         *)
(* A matrix is a function with matrix[i][j] true iff the i-th pending      *)
(* transaction is blocked by the j-th one; Size[tx] is len(tx.Bytes()).    *)
(***************************************************************************)
EXTENDS Integers, Sequences, SequencesExt, Txs

\* Mutant: the search does not descend.
recomputeDirect(matrix, index, deps0) ==
  deps0 \cup {index} \cup {j \in 1..Len(matrix) : matrix[index][j]}

\* One turn of the loop over row i of the n rows, at column j: the visited set
\* `deps' once that loop has ended, where f[<<i, j, deps>>] is what a turn
\* leaves behind.
Visited(matrix, n, f, i, j, deps) ==
  CASE j > n -> deps
    [] j <= n /\ j \in deps -> f[<<i, j+1, deps>>]
    [] j <= n /\ j \notin deps /\ j = i -> f[<<i, j+1, deps \cup {j}>>]
    [] j <= n /\ j \notin deps /\ j # i /\ ~matrix[i][j] ->
         f[<<i, j+1, deps>>]
    [] j <= n /\ j \notin deps /\ j # i /\ matrix[i][j] ->
         f[<<i, j+1, f[<<j, 1, deps \cup {j}>>]>>]

\* The depth-first search over the rows of the matrix.
recompute(matrix, index, deps0) ==
  LET n == Len(matrix)
      visit[c \in (1..n) \X (1..(n+1)) \X SUBSET (1..n)] ==
        Visited(matrix, n, visit, c[1], c[2], c[3])
  IN  visit[<<index, 1, deps0>>]

\* Mutant: the transaction itself is not counted.
blockersOfOthers(matrix, txs, i) ==
  SubSeq(txs, 1, Cardinality(recompute(matrix, i, {})) - 1)

\* The blockers of the i-th transaction.  The loop that collects them ranges
\* over the positions of the sorted dependencies, not over the dependencies.
blockers(matrix, txs, i) ==
  SubSeq(txs, 1, Cardinality(recompute(matrix, i, {})))

\* Mutant: the limits are off by one.
PushTxOneMore(acc, tx, opts, Size) ==
  LET size == IF opts.MaxBlockSize > 0 THEN acc.size + Size[tx] ELSE acc.size
  IN  IF opts.TxLimit > 0 /\ Len(acc.txs.list) > opts.TxLimit
      THEN [acc EXCEPT !.done = TRUE]
      ELSE IF opts.MaxBlockSize > 0 /\ size > opts.MaxBlockSize
      THEN [acc EXCEPT !.done = TRUE, !.size = size]
      ELSE [acc EXCEPT !.txs = Push(@, tx), !.size = size]

\* One turn of the inner loop of NewBlockWithOptions; `done' is its break.
PushTx(acc, tx, opts, Size) ==
  LET size == IF opts.MaxBlockSize > 0 THEN acc.size + Size[tx] ELSE acc.size
  IN  IF opts.TxLimit > 0 /\ Len(acc.txs.list) = opts.TxLimit
      THEN [acc EXCEPT !.done = TRUE]
      ELSE IF opts.MaxBlockSize > 0 /\ size > opts.MaxBlockSize
      THEN [acc EXCEPT !.done = TRUE, !.size = size]
      ELSE [acc EXCEPT !.txs = Push(@, tx), !.size = size]

\* The inner loop over the blockers of one transaction.
PushBlockers(acc, list, opts, Size) ==
  LET after[i \in 0..Len(list)] ==
        IF i = 0 THEN [acc EXCEPT !.done = FALSE]
        ELSE IF after[i-1].done THEN after[i-1]
        ELSE PushTx(after[i-1], list[i], opts, Size)
  IN  after[Len(list)]

\* The transactions of the block that NewBlockWithOptions returns.
NewBlock(matrix, txs, opts, Size) ==
  LET after[i \in 0..Len(txs)] ==
        IF i = 0 THEN [txs |-> NewTxs, size |-> 0, done |-> FALSE]
        ELSE PushBlockers(after[i-1], blockers(matrix, txs, i), opts, Size)
  IN  after[Len(txs)].txs.list

NoOptions == [TxLimit |-> 0, MaxBlockSize |-> 0]
=============================================================================
