------------------------------ MODULE MCWendy -------------------------------
(* Instances of Wendy for TLC.                                             *)
EXTENDS Wendy

NoHash == << >>

\* The chain of votes of one voter for transactions in an order, numbered from
\* first on.
Chain(id, order, first) ==
  LET c[n \in 1..Len(order)] ==
        [pubkey |-> id, seq |-> first + n - 1, txHash |-> order[n], time |-> 0,
         prevHash |-> IF n = 1 THEN NoHash ELSE Hash(c[n-1])]
  IN  {c[n] : n \in 1..Len(order)}

Chains(orders) == UNION {Chain(id, orders[id], 1) : id \in DOMAIN orders}

TwoTxs == {"a", "b"}
OneLabel == [a |-> "l", b |-> "l"]
TwoLabels == [a |-> "a", b |-> "b"]
UnitSize == [h \in TwoTxs |-> 1]

\* Two voters that disagree, one numbering from 1 as the reactor does and one
\* from 0 as the simulation does, a validator that is removed and comes back,
\* outsiders that vote, and a block that repeats a transaction.
Reordered ==
  [label |-> OneLabel, inOrder |-> FALSE,
   votes |-> Chain("p1", <<"a", "b">>, 1) \cup Chain("p2", <<"b", "a">>, 0),
   validatorSets |-> {<<"p1", "p2">>, <<"p1">>},
   options |-> {}, blocks |-> {<<"a", "b", "a">>}]

\* Four voters: a quorum of three votes for a first.
InOrder(labeling) ==
  [label |-> labeling, inOrder |-> TRUE,
   votes |-> Chains([id \in {"p1", "p2", "p3", "p4"} |->
                       IF id = "p4" THEN <<"b", "a">> ELSE <<"a", "b">>]),
   validatorSets |-> {<<"p1", "p2", "p3", "p4">>},
   options |-> {NoOptions}, blocks |-> {}]

\* One voter, which stays, while the quorum falls and rises.
Resized ==
  [label |-> OneLabel, inOrder |-> TRUE,
   votes |-> Chains([p1 |-> <<"a", "b">>]),
   validatorSets |-> {<<"p1", "p2">>, <<"p1">>},
   options |-> {NoOptions}, blocks |-> {}]

MCEnvironments ==
  {Reordered, Resized, InOrder(OneLabel), InOrder(TwoLabels)}

\* The voters are what the theorems on priorities, votes and blocks ask for.
ASSUME VotersAssumption == NumbersAreClear /\ VotesAreLinked /\ VotersStay
=============================================================================
