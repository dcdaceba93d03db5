--------------------------- MODULE MCWendyLocks -----------------------------
(* Instances of WendyLocks for TLC.                                        *)
EXTENDS WendyLocks

\* New validators, and queries.
Queries == {"UpdateValidatorSet", "IsBlockedBy"}

WithAddBlock == {"NewBlockAndAdd", "AddTx"}
=============================================================================
