---------------------------- MODULE MCSimulation ----------------------------
(* Instances of Simulation for TLC.                                        *)
EXTENDS Simulation

ThreeNodes == {"01", "02", "03"}
ThreeTxs == {"h0", "h1", "h2"}

FullyConnected(nodes) == [n \in nodes |-> nodes \ {n}]

Pipeline ==
  [n \in ThreeNodes |-> IF n = "02" THEN {"01", "03"} ELSE {"02"}]

OneLabel == [h \in ThreeTxs |-> "l"]
\* h1 belongs to another market than h0 and h2.
TwoLabels == [h \in ThreeTxs |-> IF h = "h1" THEN "m" ELSE "l"]

Call(n, h) == [node |-> n, tx |-> h]

Network(peers, label, script, waits) ==
  [peers |-> peers, label |-> label, script |-> script, waits |-> waits]

\* The networks of the tests, where all transactions are added to node 01; one
\* with two labels; one whose nodes get transactions of their own at a time.
MCNetworks ==
  { Network(Pipeline, OneLabel,
            <<Call("01", "h0"), Call("01", "h1"), Call("01", "h2")>>, TRUE),
    Network(FullyConnected(ThreeNodes), OneLabel,
            <<Call("01", "h0"), Call("01", "h1")>>, TRUE),
    Network(FullyConnected({"01", "02"}), TwoLabels,
            <<Call("01", "h0"), Call("01", "h1"), Call("01", "h2")>>, TRUE),
    Network(FullyConnected({"01", "02"}), OneLabel,
            <<Call("01", "h0"), Call("02", "h1")>>, FALSE) }
=============================================================================
