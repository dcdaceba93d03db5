------------------------------- MODULE MCNode -------------------------------
(* Instances of Node for TLC.                                              *)
EXTENDS Node

\* Genesis documents that name nobody, this node only, and another one, too.
ThreeDocs == {"nobody", "alone", "both"}
MCValidators ==
  [nobody |-> {}, alone |-> {"us"}, both |-> {"us", "other"}]

\* An application that keeps the validators or asks for this node only cannot
\* be combined with state sync from a chain that has no other validator.
MCConfigs ==
  [StateSync : BOOLEAN, FastSyncMode : BOOLEAN, Switchable : BOOLEAN,
   InitChain : {{}, {"us", "other"}}]
  \cup [StateSync : {FALSE}, FastSyncMode : BOOLEAN, Switchable : {TRUE},
        InitChain : {{"us"}}]

OthersToo == {"us", "other"}
=============================================================================
