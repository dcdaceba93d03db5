---------------------------- MODULE WendyReactor ----------------------------
(***************************************************************************)
(* The Wendy reactor of the Tendermint node (tendermint/wendy/reactor.go): *)
(* the mempool notifies it of transactions, it numbers a vote for each and *)
(* sends it.                                                               *)
(*                                                                         *)
(* OnNewTx starts a goroutine that waits on the unbuffered txChan; AddPeer *)
(* starts a broadcastTxRoutine that checks whether its peer is running,    *)
(* receives a transaction, numbers a vote and sends it to its peer.  Each  *)
(* of these is a step of its own.  A peer that reconnects is another       *)
(* element of Peers, and a transaction that the mempool notifies again, as *)
(* it does when it had no room the first time, another element of Txs.     *)
(* The p2p switch and the connection are external: a peer stops at any     *)
(* time, and what is sent to a stopped peer, or times out in Send, is      *)
(* lost; the result of Send is ignored.                                    *)
(***************************************************************************)
EXTENDS Integers, Sequences, FiniteSets, SequencesExt

CONSTANTS
  Txs,          \* the calls of OnNewTx, each with its transaction
  Peers,        \* the connections to peers
  Unreliable    \* the connections that may stop or lose a vote

ASSUME ReactorAssumption == Unreliable \subseteq Peers

VARIABLES
  waiting,      \* transactions of the goroutines blocked on txChan
  notified,     \* transactions passed to OnNewTx
  seq,          \* the last sequence number used
  running,      \* the peers that are running
  routine,      \* the broadcastTxRoutine of each peer
  received      \* the votes that each peer's Receive was called with

reactorVars == <<waiting, notified, seq, running, routine, received>>

At(pc) == [pc |-> pc]

ReactorInit ==
  /\ waiting = {}
  /\ notified = {}
  /\ seq = 0
  /\ running = {}
  /\ routine = [p \in Peers |-> At("none")]
  /\ received = [p \in Peers |-> << >>]

OnNewTx(tx) ==
  /\ tx \notin notified
  /\ notified' = notified \cup {tx}
  /\ waiting' = waiting \cup {tx}
  /\ UNCHANGED <<seq, running, routine, received>>

AddPeer(p) ==
  /\ routine[p].pc = "none"
  /\ running' = running \cup {p}
  /\ routine' = [routine EXCEPT ![p] = At("check")]
  /\ UNCHANGED <<waiting, notified, seq, received>>

PeerStops(p) ==
  /\ p \in Unreliable \cap running
  /\ running' = running \ {p}
  /\ UNCHANGED <<waiting, notified, seq, routine, received>>

\* Mutant: the check is turned round.
CheckNotRunning(p) ==
  /\ routine[p].pc = "check"
  /\ routine' = [routine EXCEPT
                   ![p] = At(IF p \in running THEN "returned" ELSE "receive")]
  /\ UNCHANGED <<waiting, notified, seq, running, received>>

\* `if !peer.IsRunning() { return }' at the head of the loop.
CheckRunning(p) ==
  /\ routine[p].pc = "check"
  /\ routine' = [routine EXCEPT
                   ![p] = At(IF p \in running THEN "receive" ELSE "returned")]
  /\ UNCHANGED <<waiting, notified, seq, running, received>>

\* `tx := <-r.txChan': any routine meets any waiting goroutine.
ReceiveTx(p, tx) ==
  /\ routine[p].pc = "receive"
  /\ tx \in waiting
  /\ waiting' = waiting \ {tx}
  /\ routine' = [routine EXCEPT ![p] = [pc |-> "number", tx |-> tx]]
  /\ UNCHANGED <<notified, seq, running, received>>

\* Mutant: the number is read but not incremented.
NewVoteSameSeq(p) ==
  /\ routine[p].pc = "number"
  /\ routine' = [routine EXCEPT
                   ![p] = [pc |-> "send",
                           vote |-> [seq |-> seq + 1, tx |-> @.tx]]]
  /\ UNCHANGED <<waiting, notified, seq, running, received>>

\* newVote: the atomic increment of nextSeq.
NewVote(p) ==
  /\ routine[p].pc = "number"
  /\ seq' = seq + 1
  /\ routine' = [routine EXCEPT
                   ![p] = [pc |-> "send",
                           vote |-> [seq |-> seq + 1, tx |-> @.tx]]]
  /\ UNCHANGED <<waiting, notified, running, received>>

Send(p, delivered) ==
  /\ routine[p].pc = "send"
  /\ delivered => p \in running
  /\ ~delivered => p \in Unreliable
  /\ received' = IF delivered
                 THEN [received EXCEPT ![p] = Append(@, routine[p].vote)]
                 ELSE received
  /\ routine' = [routine EXCEPT ![p] = At("check")]
  /\ UNCHANGED <<waiting, notified, seq, running>>

Step(p) ==
  \/ CheckRunning(p)
  \/ \E tx \in Txs : ReceiveTx(p, tx)
  \/ NewVote(p)
  \/ \E delivered \in BOOLEAN : Send(p, delivered)

ReactorNext ==
  \/ \E tx \in Txs : OnNewTx(tx)
  \/ \E p \in Peers : AddPeer(p)
  \/ \E p \in Peers : PeerStops(p)
  \/ \E p \in Peers : Step(p)

ReactorSpec == ReactorInit /\ [][ReactorNext]_reactorVars

\* Goroutines are scheduled; every reliable peer connects sooner or later.
ReactorFairSpec ==
  /\ ReactorSpec
  /\ \A p \in Peers : WF_reactorVars(Step(p))
  /\ \A p \in Peers \ Unreliable : WF_reactorVars(AddPeer(p))

-----------------------------------------------------------------------------
(* Properties                                                              *)

Votes(p) == ToSet(received[p])
AllReceived == UNION {Votes(p) : p \in Peers}
InSend == {p \in Peers : routine[p].pc = "send"}
AllVotes == AllReceived \cup {routine[p].vote : p \in InSend}

\* Concurrent routines never give one number to two votes or two numbers to
\* one transaction (reactor.go:50-55, 67-79): each transaction leaves txChan
\* once and nextSeq is atomic.
VotesAreUnique ==
  \A v, w \in AllVotes : v.seq = w.seq <=> v.tx = w.tx

\* Every transaction the mempool notifies is voted for, as long as one peer
\* stays connected: no routine that returned holds a transaction back.
EveryTxIsNumbered ==
  \A tx \in Txs :
    tx \in notified ~> (tx \notin waiting /\ \A p \in Peers :
                          routine[p].pc = "number" => routine[p].tx # tx)
=============================================================================
