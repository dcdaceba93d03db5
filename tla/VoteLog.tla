------------------------------ MODULE VoteLog -------------------------------
(***************************************************************************)
(* What a peer promises its callers about one voter, without its list:     *)
(* votes are only ever added to a set, `seen' only ever grows and has no   *)
(* gap below it, and committed transactions stay committed (the doc        *)
(* comments of AddVote, Seen and UpdateTxSet in peer.go).                  *)
(***************************************************************************)
EXTENDS Integers

CONSTANTS
  Votes,      \* the votes that may be received
  TxHashes    \* hashes of the transactions

VARIABLES
  received,   \* the votes received so far
  seen,       \* a number with no gap below it
  commited    \* the hashes of committed transactions

vars == <<received, seen, commited>>

SeqsOf(V) == {v.seq : v \in V}

Init ==
  /\ received = {}
  /\ seen = 0
  /\ commited = {}

\* A call brings votes, and may find out that more of them are consecutive.
Register ==
  /\ received' \in SUBSET Votes
  /\ received \subseteq received'
  /\ seen' \in Nat /\ seen' >= seen
  /\ 1..seen' \subseteq SeqsOf(received')
  /\ UNCHANGED commited

Commit(h) ==
  /\ commited' = commited \cup {h}
  /\ UNCHANGED <<received, seen>>

Next ==
  \/ Register
  \/ \E h \in TxHashes : Commit(h)

Spec == Init /\ [][Next]_vars
=============================================================================
