----------------------------- MODULE MCMempool ------------------------------
(* Instances of Mempool for TLC.                                           *)
EXTENDS Mempool

\* The mempool has room for two of the three transactions, by number; c is
\* as long as a and b together.
ThreeTxs == {"a", "b", "c"}
Sizes == [tx \in ThreeTxs |-> IF tx = "c" THEN 2 ELSE 1]
Gas == [tx \in ThreeTxs |-> IF tx = "b" THEN 2 ELSE 1]

Deliver(tx, ok) == [tx |-> tx, ok |-> ok]

SomeBlocks ==
  { << >>,
    <<Deliver("a", TRUE), Deliver("c", TRUE)>>,
    <<Deliver("b", FALSE)>>,
    <<Deliver("a", FALSE), Deliver("a", TRUE)>> }

Config(size, bytes, cache, recheck, keep, local, senders) ==
  [Size |-> size, MaxTxsBytes |-> bytes, MaxTxBytes |-> 2, CacheSize |-> cache,
   Recheck |-> recheck, KeepInvalidTxsInCache |-> keep,
   Local |-> local, Senders |-> senders]

\* A cache that forgets none and one that holds a single transaction.
\* The application is asked over a socket or is in the same process.
MCConfigs ==
  { Config(2, 3, 3, TRUE, FALSE, FALSE, {1}),
    Config(2, 3, 3, FALSE, FALSE, FALSE, {1}),
    Config(3, 4, 1, TRUE, TRUE, FALSE, {1}),
    Config(2, 3, 3, TRUE, TRUE, TRUE, {1}),
    Config(2, 2, 3, FALSE, TRUE, FALSE, {1, 2}) }

Limits == [maxBytes : {-1, 0, 2}, maxGas : {-1, 1, 2}]
=============================================================================
