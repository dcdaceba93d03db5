----------------------------- MODULE Simulation -----------------------------
(***************************************************************************)
(* The network of the simulation package (simulation/node.go): nodes that  *)
(* gossip transactions and votes, each with a Wendy of its own.            *)
(*                                                                         *)
(* Every node has one goroutine, recvMsgs; the test's goroutine, Main,     *)
(* calls AddTx on the nodes of its script, one call after the other, and   *)
(* waits on the WaitGroup in between or not.  `send' starts a goroutine    *)
(* that blocks on an unbuffered channel of the receiver, so the messages   *)
(* in flight form a bag and arrive in any order.  handleTx is split where  *)
(* the goroutines of a node share seq and lastVote; the sends of a handler *)
(* and its WaitGroup operations belong to the step that decides on them.   *)
(* Transactions stand for their hashes.                                    *)
(***************************************************************************)
EXTENDS Peer

CONSTANTS
  AllNodes,     \* the nodes
  AllTxs,       \* the transactions
  Networks      \* the networks, with what Main does in them: records of
                \*   peers    the set of peers of every node
                \*   label    the label of every transaction
                \*   script   the calls of AddTx, in order: records [node, tx]
                \*   waits    whether Main waits on the WaitGroup before a call

Main == "main"

\* What a node sends to its peers, and these to theirs, reaches every node.
Connected(peers) ==
  \A S \in SUBSET DOMAIN peers :
    S # {} /\ (\A n \in S : peers[n] \subseteq S) => S = DOMAIN peers

\* The networks of the tests are connected, and the transactions they add are
\* different ones.
ASSUME SimulationAssumption ==
  /\ Main \notin AllNodes
  /\ IsFiniteSet(AllNodes)
  /\ \A w \in Networks :
       /\ DOMAIN w.peers \subseteq AllNodes
       /\ \A n \in DOMAIN w.peers : w.peers[n] \subseteq DOMAIN w.peers \ {n}
       /\ Connected(w.peers)
       /\ w.script \in Seq([node : DOMAIN w.peers, tx : AllTxs])
       /\ \A i, j \in DOMAIN w.script :
            w.script[i].tx = w.script[j].tx => i = j
       /\ w.waits \in BOOLEAN

VARIABLES
  net,        \* the network, chosen once
  known,      \* the transactions each node's Wendy holds
  buckets,    \* what each node's Wendy holds of each voter by label
  seq,        \* the vote counter of each node
  lastVote,   \* the hash of the last vote of each node, NoHash if it is nil
  inFlight,   \* the bag of messages of blocked senders
  handler,    \* where each goroutine is in handleTx
  calls,      \* the calls of AddTx Main has begun
  refused     \* history: the votes for which some AddVote returned an error

vars == <<net, known, buckets, seq, lastVote, inFlight, handler, calls,
          refused>>

\* All nodes of the network are validators.
Nodes == DOMAIN net.peers
Goroutines == Nodes \cup {Main}
Topology == net.peers
Script == net.script
Label == net.label
TxHashes == {Script[i].tx : i \in DOMAIN Script}
Labels == {Label[h] : h \in TxHashes}

NoHash == << >>
Idle == [pc |-> "idle"]

NewNetwork ==
  /\ net \in Networks
  /\ known = [n \in Nodes |-> {}]
  /\ buckets = [n \in Nodes |-> [voter \in Nodes |->
                                   [l \in Labels |-> newPeerBucket]]]
  /\ seq = [n \in Nodes |-> 0]
  /\ lastVote = [n \in Nodes |-> NoHash]
  /\ inFlight = EmptyBag
  /\ handler = [g \in Goroutines |-> Idle]
  /\ calls = 0
  /\ refused = {}

Init == NewNetwork

-----------------------------------------------------------------------------
(* Messages                                                                *)

TxMsg(to, from, tx) == [kind |-> "tx", to |-> to, from |-> from, tx |-> tx]
VoteMsg(to, from, v) == [kind |-> "vote", to |-> to, from |-> from, vote |-> v]

\* One message is taken from its sender, others are sent.
Exchange(taken, sent) ==
  inFlight' = (inFlight (-) SetToBag(taken)) (+) SetToBag(sent)

\* wg.Wait returns: no message is blocked or being handled.
WgIsZero ==
  inFlight = EmptyBag /\ \A n \in Nodes : handler[n] = Idle

-----------------------------------------------------------------------------
(* handleTx                                                                *)

\* Mutant: a known transaction is never done with.
HandleTxNotDone(g, n, tx, from, taken) ==
  /\ IF tx \in known[n]
     THEN UNCHANGED <<inFlight, known, handler>>
     ELSE /\ known' = [known EXCEPT ![n] = @ \cup {tx}]
          /\ Exchange(taken, {TxMsg(p, n, tx) : p \in Topology[n] \ {from}})
          /\ handler' = [handler EXCEPT
                           ![g] = [pc |-> "number", node |-> n, tx |-> tx]]
  /\ UNCHANGED <<net, buckets, seq, lastVote, refused>>

\* AddTx of Wendy and the broadcast of a new transaction, by goroutine g.
HandleTx(g, n, tx, from, taken) ==
  /\ IF tx \in known[n]
     THEN Exchange(taken, {}) /\ UNCHANGED <<known, handler>>
     ELSE /\ known' = [known EXCEPT ![n] = @ \cup {tx}]
          /\ Exchange(taken, {TxMsg(p, n, tx) : p \in Topology[n] \ {from}})
          /\ handler' = [handler EXCEPT
                           ![g] = [pc |-> "number", node |-> n, tx |-> tx]]
  /\ UNCHANGED <<net, buckets, seq, lastVote, refused>>

\* nextVote: the atomic increment of the counter ...
NextSeq(g) ==
  /\ handler[g].pc = "number"
  /\ LET n == handler[g].node
     IN  /\ seq' = [seq EXCEPT ![n] = @ + 1]
         /\ handler' = [handler EXCEPT
                          ![g] = [pc |-> "link", node |-> n,
                                  vote |-> [pubkey |-> n,
                                            label |-> Label[@.tx],
                                            seq |-> seq[n],
                                            txHash |-> @.tx, time |-> 0,
                                            prevHash |-> NoHash]]]
  /\ UNCHANGED <<net, known, buckets, lastVote, inFlight, calls, refused>>

\* ... the read of lastVote ...
ReadLastVote(g) ==
  /\ handler[g].pc = "link"
  /\ handler' = [handler EXCEPT
                    ![g].pc = "store",
                    ![g].vote.prevHash = lastVote[handler[g].node]]
  /\ UNCHANGED <<net, known, buckets, seq, lastVote, inFlight, calls, refused>>

\* Mutant: lastVote is not written.
DontWriteLastVote(g) ==
  /\ handler[g].pc = "store"
  /\ handler' = [handler EXCEPT ![g].pc = "vote"]
  /\ UNCHANGED <<net, known, buckets, seq, lastVote, inFlight, calls, refused>>

\* ... and the write to it, neither of them synchronised.
WriteLastVote(g) ==
  /\ handler[g].pc = "store"
  /\ lastVote' = [lastVote EXCEPT ![handler[g].node] = Hash(handler[g].vote)]
  /\ handler' = [handler EXCEPT ![g].pc = "vote"]
  /\ UNCHANGED <<net, known, buckets, seq, inFlight, calls, refused>>

-----------------------------------------------------------------------------
(* handleVote                                                              *)

\* Mutants: only the voter's own votes are sent, or all but them.
SendVoteIf(sends, n, v, from, taken) ==
  LET r == AddVote(buckets[n][v.pubkey][v.label], v)
  IN  /\ buckets' = [buckets EXCEPT ![n][v.pubkey][v.label] = r.bucket]
      /\ Exchange(taken, IF r.added /\ ~r.err /\ sends
                         THEN {VoteMsg(p, n, v) :
                                 p \in Topology[n] \ {from, v.pubkey}}
                         ELSE {})
      /\ refused' = IF r.err THEN refused \cup {v} ELSE refused

HandleVoteOfOthersSilently(n, v, from, taken) ==
  SendVoteIf(n = v.pubkey, n, v, from, taken)

HandleMyVoteSilently(n, v, from, taken) ==
  SendVoteIf(n # v.pubkey, n, v, from, taken)

\* A vote that is new to node n is passed on, but neither back nor to the
\* voter.
HandleVote(n, v, from, taken) ==
  LET r == AddVote(buckets[n][v.pubkey][v.label], v)
  IN  /\ buckets' = [buckets EXCEPT ![n][v.pubkey][v.label] = r.bucket]
      /\ Exchange(taken, IF r.added /\ ~r.err
                         THEN {VoteMsg(p, n, v) :
                                 p \in Topology[n] \ {from, v.pubkey}}
                         ELSE {})
      /\ refused' = IF r.err THEN refused \cup {v} ELSE refused

HandleMyVote(g) ==
  /\ handler[g].pc = "vote"
  /\ HandleVote(handler[g].node, handler[g].vote, handler[g].node, {})
  /\ handler' = [handler EXCEPT ![g] = Idle]
  /\ UNCHANGED <<net, known, seq, lastVote, calls>>

-----------------------------------------------------------------------------
(* The goroutines                                                          *)

\* The test calls AddTx on the next node of its script.
AddTx ==
  /\ handler[Main] = Idle
  /\ calls < Len(Script)
  /\ net.waits => WgIsZero
  /\ calls' = calls + 1
  /\ LET call == Script[calls + 1]
     IN  HandleTx(Main, call.node, call.tx, call.node, {})

\* recvMsgs: any waiting sender of either channel may be served.
RecvTx(n, m) ==
  /\ handler[n] = Idle
  /\ m.kind = "tx" /\ m.to = n
  /\ HandleTx(n, n, m.tx, m.from, {m})
  /\ UNCHANGED calls

RecvVote(n, m) ==
  /\ handler[n] = Idle
  /\ m.kind = "vote" /\ m.to = n
  /\ HandleVote(n, m.vote, m.from, {m})
  /\ UNCHANGED <<net, known, seq, lastVote, handler, calls>>

HandleTxStep(g) ==
  \/ NextSeq(g)
  \/ ReadLastVote(g)
  \/ WriteLastVote(g)
  \/ HandleMyVote(g)

RecvMsgs(n) ==
  \/ \E m \in BagToSet(inFlight) : RecvTx(n, m) \/ RecvVote(n, m)
  \/ HandleTxStep(n)

MainStep == AddTx \/ HandleTxStep(Main)

Next == MainStep \/ \E n \in Nodes : RecvMsgs(n)

Spec == Init /\ [][Next]_vars

\* The Go scheduler runs every goroutine that can run.
FairSpec ==
  /\ Spec
  /\ WF_vars(MainStep)
  /\ \A n \in AllNodes : WF_vars(n \in Nodes /\ RecvMsgs(n))

-----------------------------------------------------------------------------
(* What the tests ask the Wendy of a node                                  *)

hasQuorum(voters) == Cardinality(voters) >= QuorumOf(Cardinality(Nodes))

IsBlocked(n, h) == ~hasQuorum({p \in Nodes : Seen(buckets[n][p][Label[h]], h)})

IsBlockedBy(n, h1, h2) ==
  ~hasQuorum({p \in Nodes : Before(buckets[n][p][Label[h1]], h1, h2)})

-----------------------------------------------------------------------------
(* Properties                                                              *)

\* All calls of the script up to now have returned and their messages are
\* handled.
Quiet == WgIsZero /\ handler[Main] = Idle

Called == {Script[i].tx : i \in 1..calls}

VotesHeld(n) ==
  UNION {ToSet(buckets[n][p][l].votes) : p \in Nodes, l \in Labels}

\* "01".IsBlocked(tx) is false after wg.Wait (simulation_test.go:164-168),
\* and so it is on every node: the votes of all nodes have reached each of
\* them through whatever paths the topology has.  As in the tests, Main
\* waits after each call, and there is one label: a node numbers its votes with
\* one counter for all labels.
NotBlockedWhenQuiet ==
  Quiet /\ net.waits /\ Cardinality(Labels) = 1 =>
    \A n \in Nodes, h \in Called : ~IsBlocked(n, h)

\* IsBlockedBy(testTx0, testTx1) is false at the end of testWithDelays
\* (simulation_test.go:200-202): when the calls wait for each other, every
\* node orders the transactions as Main added them.
OrderOfCallsIsKept ==
  Quiet /\ net.waits =>
    \A n \in Nodes : \A i, j \in 1..calls :
      i < j /\ Label[Script[i].tx] = Label[Script[j].tx] =>
        /\ ~IsBlockedBy(n, Script[i].tx, Script[j].tx)
        /\ IsBlockedBy(n, Script[j].tx, Script[i].tx)

\* No Wendy refuses the vote of a node of the network (peer.go:86-97), as long
\* as Main waits: otherwise two goroutines of a node race for lastVote.
NoVoteRefused == net.waits => refused = {}

\* A node that is done with a transaction has told its peers: once nothing is
\* under way, all nodes hold the same votes but for those their own Wendy
\* refused, and the same transactions (node.go:109-148).
SameViewWhenQuiet ==
  Quiet =>
    \A n, m \in Nodes :
      /\ known[n] = Called
      /\ refused = {} => VotesHeld(n) = VotesHeld(m)

\* The gossip dies out and Main finishes its script: every wg.Wait of the
\* tests returns, although nodes of a cyclic topology pass everything on to
\* each other (node.go:109-148).
GossipEnds == <>[](Quiet /\ calls = Len(Script))
=============================================================================
