------------------------------- MODULE TxList -------------------------------
(***************************************************************************)
(* What the mempool promises those who walk along its list of transactions *)
(* while it changes: transactions come in at the end only, the ones that   *)
(* stay keep their order, their height and their senders, and a sender may *)
(* be added to any of them.  Mempool implements this specification, and    *)
(* MempoolReactor reads a list that changes in these ways.                 *)
(***************************************************************************)
EXTENDS Integers, Sequences, FiniteSets, SequencesExt

VARIABLE list     \* the transactions: [tx, height, senders]

Init == list = << >>

\* The new transaction has one sender.
PushBack(e) ==
  /\ Cardinality(e.senders) = 1
  /\ list' = Append(list, e)

\* Element i of what is left was the one at at[i].
Keep(at) ==
  /\ \A i, j \in DOMAIN list' : i < j => at[i] < at[j]
  /\ \A i \in DOMAIN list' : list'[i] = list[at[i]]

Take(pos) == pos \in DOMAIN list /\ list' = RemoveAt(list, pos)

AddSender(pos, sender) ==
  /\ pos \in DOMAIN list
  /\ list' = [list EXCEPT ![pos].senders = @ \cup {sender}]

Next ==
  \/ list' # << >> /\ PushBack(list'[Len(list')])
  \/ \E at \in [DOMAIN list' -> DOMAIN list] : Keep(at)
  \/ /\ Len(list') = Len(list)
     /\ \E pos \in DOMAIN list :
          \E sender \in list'[pos].senders : AddSender(pos, sender)

Spec == Init /\ [][Next]_list
=============================================================================
