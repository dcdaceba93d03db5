-------------------------- MODULE MCMempoolReactor --------------------------
(* Instances of MempoolReactor for TLC.                                    *)
EXTENDS MempoolReactor

TwoPeers == {"p", "q"}
FourConns == {"c1", "c2", "c3", "c4"}
MCPeerOf == [c1 |-> "p", c2 |-> "q", c3 |-> "p", c4 |-> "q"]

Config(conns, fragile, maxTxs, maxSubs, maxHeight) ==
  [conns |-> conns, fragile |-> fragile, maxTxs |-> maxTxs,
   maxSubs |-> maxSubs, maxHeight |-> maxHeight]

\* Four connections of two peers: with IDs up to 3 the fourth reservation
\* finds IDs that are taken, given back or lost.
Reconnecting ==
  Config(FourConns, {"c1", "c2"}, 0, 0, 0)

\* One connection that stays, three transactions.
Walking == Config({"c1"}, {}, 3, 3, 0)

\* A peer that lags behind.
Lagging == Config({"c1"}, {}, 2, 2, 2)

\* A peer that sends transactions, stops, comes back and fails to take some.
Restarting == Config({"c1", "c3"}, {"c1"}, 1, 2, 0)

MCConfigs == {Reconnecting, Walking, Lagging, Restarting}
=============================================================================
