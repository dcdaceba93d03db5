-------------------------------- MODULE Txs ---------------------------------
(***************************************************************************)
(* The pending transactions (tx.go): a list in order of arrival and an     *)
(* index of positions by hash.  A transaction stands for its hash.  As in  *)
(* the code, the index holds positions counted from 0.                     *)
(***************************************************************************)
EXTENDS Integers, Sequences, SequencesExt

NewTxs == [list |-> << >>, byHash |-> << >>]

\* Push returns whether the transaction is new.
Push(txs, h) ==
  IF h \in DOMAIN txs.byHash THEN txs
  ELSE [list |-> Append(txs.list, h),
        byHash |-> [g \in DOMAIN txs.byHash \cup {h} |->
                      IF g = h THEN Len(txs.list) ELSE txs.byHash[g]]]

\* Mutant: the index is not moved up.
RemoveByHashOnly(txs, h) ==
  IF h \notin DOMAIN txs.byHash THEN txs
  ELSE [list |-> RemoveAt(txs.list, txs.byHash[h] + 1),
        byHash |-> [g \in DOMAIN txs.byHash \ {h} |-> txs.byHash[g]]]

\* The transactions behind position pos (counted from 0) move up by one.
RemoveByHash(txs, h) ==
  IF h \notin DOMAIN txs.byHash THEN txs
  ELSE IF Len(txs.list) = 1 THEN NewTxs
  ELSE LET pos == txs.byHash[h]
           behind == ToSet(SubSeq(txs.list, pos + 2, Len(txs.list)))
       IN  [list |-> RemoveAt(txs.list, pos + 1),
            byHash |-> [g \in DOMAIN txs.byHash \ {h} |->
                          IF g \in behind THEN txs.byHash[g] - 1
                          ELSE txs.byHash[g]]]

\* Removing the transactions of a block one by one.
RemoveAll(txs, hs) ==
  LET after[i \in 0..Len(hs)] ==
        IF i = 0 THEN txs ELSE RemoveByHash(after[i-1], hs[i])
  IN  after[Len(hs)]

\* The index and the list describe the same transactions.
IndexMatchesList(txs) ==
  /\ DOMAIN txs.byHash = ToSet(txs.list)
  /\ \A i \in DOMAIN txs.list : txs.byHash[txs.list[i]] = i - 1
=============================================================================
