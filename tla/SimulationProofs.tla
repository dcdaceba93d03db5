-------------------------- MODULE SimulationProofs --------------------------
(***************************************************************************)
(* For any connected network, any labels and any script that adds no       *)
(* transaction twice: once nothing is under way all nodes hold the same    *)
(* transactions and votes; and when the calls wait for each other no vote  *)
(* is refused, every node orders the transactions as they were added, and  *)
(* with one label none of them is blocked.                                 *)
(***************************************************************************)
EXTENDS Simulation, Lemmas, FiniteSetTheorems

-----------------------------------------------------------------------------
(* Types                                                                   *)

\* The messages of blocked senders.
Msgs == BagToSet(inFlight)

Votes(n, p, l) == ToSet(buckets[n][p][l].votes)

\* A vote of node p under label l.
IsVoteOf(v, p, l) == v.pubkey = p /\ v.label = l /\ v.seq \in Nat

BucketOK(b, p, l) ==
  /\ b \in BucketsOf(ToSet(b.votes), {})
  /\ \A v \in ToSet(b.votes) : IsVoteOf(v, p, l)

\* A goroutine works on the vote of a node for a transaction.
IsHandler(h, nodes, labels, txs) ==
  \/ h = Idle
  \/ /\ h = [pc |-> "number", node |-> h.node, tx |-> h.tx]
     /\ h.node \in nodes /\ h.tx \in txs
  \/ /\ h = [pc |-> h.pc, node |-> h.node, vote |-> h.vote]
     /\ h.pc \in {"link", "store", "vote"} /\ h.node \in nodes
     /\ h.vote = [pubkey |-> h.node, label |-> h.vote.label,
                  seq |-> h.vote.seq, txHash |-> h.vote.txHash, time |-> 0,
                  prevHash |-> h.vote.prevHash]
     /\ h.vote.label \in labels /\ h.vote.seq \in Nat

TxMsgOK(m) ==
  /\ m.kind = "tx" /\ m.to \in Nodes /\ m.from \in Nodes
  /\ m = TxMsg(m.to, m.from, m.tx)

VoteMsgOK(m) ==
  /\ m.kind = "vote" /\ m.to \in Nodes /\ m.from \in Nodes
  /\ m = VoteMsg(m.to, m.from, m.vote)
  /\ m.vote.pubkey \in Nodes /\ m.vote.label \in Labels
  /\ IsVoteOf(m.vote, m.vote.pubkey, m.vote.label)

BucketsOK ==
  /\ DOMAIN buckets = Nodes
  /\ \A n \in Nodes : DOMAIN buckets[n] = Nodes
  /\ \A n, p \in Nodes : DOMAIN buckets[n][p] = Labels
  /\ \A n, p \in Nodes, l \in Labels : BucketOK(buckets[n][p][l], p, l)

MsgsOK ==
  IsABag(inFlight) /\ \A m \in Msgs : TxMsgOK(m) \/ VoteMsgOK(m)

HandlersOK ==
  /\ DOMAIN handler = Goroutines
  /\ \A g \in Goroutines : IsHandler(handler[g], Nodes, Labels, Called)
  /\ \A n \in Nodes : handler[n] # Idle => handler[n].node = n

TypeInv ==
  /\ net \in Networks
  /\ known \in [Nodes -> SUBSET Called]
  /\ seq \in [Nodes -> Nat]
  /\ DOMAIN lastVote = Nodes
  /\ calls \in 0..Len(Script)
  /\ BucketsOK /\ MsgsOK /\ HandlersOK

-----------------------------------------------------------------------------
(* The gossip of transactions                                              *)

\* A transaction on its way is known to its sender; a node that knows one has
\* told its peers, or is telling them.
KnownInv ==
  /\ \A m \in Msgs : m.kind = "tx" => m.tx \in known[m.from]
  /\ \A n \in Nodes : \A tx \in known[n] : \A p \in Topology[n] :
       tx \in known[p] \/ TxMsg(p, n, tx) \in Msgs
  /\ \A i \in 1..calls : Script[i].tx \in known[Script[i].node]

-----------------------------------------------------------------------------
(* The gossip of votes                                                     *)

Holds(n, v) == v \in Votes(n, v.pubkey, v.label)

\* The goroutine has drawn a number for a vote.
HasNumber(g) == handler[g].pc \in {"link", "store", "vote"}

\* Every goroutine draws a number of its own, and a node holds its own votes
\* with numbers that nobody else has.
NumbersInv ==
  /\ \A g \in Goroutines :
       HasNumber(g) => handler[g].vote.seq < seq[handler[g].node]
  /\ \A g, h \in Goroutines :
       HasNumber(g) /\ HasNumber(h) /\ g # h
       /\ handler[g].node = handler[h].node
       => handler[g].vote.seq # handler[h].vote.seq
  /\ \A n \in Nodes, l \in Labels : \A v \in Votes(n, n, l) :
       /\ v.seq < seq[n]
       /\ \A g \in Goroutines : HasNumber(g) /\ handler[g].node = n =>
            v.seq # handler[g].vote.seq
       /\ \A u \in Votes(n, n, l) : u.seq = v.seq => u = v

\* A vote that a node holds or sends is held by its voter; a vote on its way is
\* held by its sender; a node that holds one has told its peers, or is telling
\* them.
GossipInv ==
  /\ \A m \in Msgs : m.kind = "vote" => Holds(m.from, m.vote)
  /\ \A n, q \in Nodes, l \in Labels : \A v \in Votes(n, q, l) :
       /\ v \in Votes(q, q, l)
       /\ \A p \in Topology[n] :
            v \in Votes(p, q, l) \/ VoteMsg(p, n, v) \in Msgs

-----------------------------------------------------------------------------
(* Calls that wait for each other                                          *)

\* The hash of the vote for each call, the same for all nodes.
Links ==
  LET hash[i \in 0..Len(Script)] ==
        IF i = 0 THEN NoHash ELSE <<i - 1, Script[i].tx, 0, hash[i-1]>>
  IN  hash

\* A vote of node n for call i, which links to the hash prev.
VoteFor(n, i, prev) ==
  [pubkey |-> n, label |-> Label[Script[i].tx], seq |-> i - 1,
   txHash |-> Script[i].tx, time |-> 0, prevHash |-> prev]

\* The vote of node n for call i.
VoteBy(n, i) == VoteFor(n, i, Links[i-1])

VotesBy(n, l) ==
  {VoteBy(n, i) : i \in {j \in 1..calls : Label[Script[j].tx] = l}}

\* Some goroutine is at one of these places with a vote of node n.
IsAt(n, pcs) ==
  \E g \in Goroutines : handler[g].pc \in pcs /\ handler[g].node = n

\* Node n knows all transactions up to the last call and is past these places
\* with its vote for it.
IsPast(n, pcs) == known[n] = Called /\ ~IsAt(n, pcs)

\* What a goroutine does is about the last call.
ToldOfCall(h) ==
  /\ h.pc = "number" => h.tx = Script[calls].tx
  /\ h.pc = "link" => h.vote = VoteFor(h.node, calls, NoHash)
  /\ h.pc \in {"store", "vote"} => h.vote = VoteBy(h.node, calls)

Busy == {"number", "link", "store", "vote"}

\* All nodes know the transactions of the calls before the last one.
EarlierKnown ==
  \A n \in Nodes : \A i \in 1..(calls - 1) : Script[i].tx \in known[n]

\* The transactions on their way are that of the last call, the votes those
\* for the calls up to it.
MsgsTell ==
  \A m \in Msgs :
    /\ calls > 0
    /\ m.kind = "tx" => m.tx = Script[calls].tx
    /\ m.kind = "vote" => m.vote \in VotesBy(m.vote.pubkey, m.vote.label)

\* The goroutines work on the last call, one on each node.
HandlersTell ==
  /\ \A g \in Goroutines : handler[g] # Idle =>
       calls > 0 /\ ToldOfCall(handler[g]) /\ known[handler[g].node] = Called
  /\ handler[Main] # Idle => handler[handler[Main].node] = Idle

\* A node has one number and one link for each call it is done with.
CountersTell(n) ==
  /\ seq[n] = IF IsPast(n, {"number"}) THEN calls ELSE calls - 1
  /\ lastVote[n] = Links[IF IsPast(n, {"number", "link", "store"})
                         THEN calls ELSE calls - 1]
  /\ calls > 0 /\ IsPast(n, Busy) => Holds(n, VoteBy(n, calls))

\* All nodes hold the votes for the calls before the last one, and no other
\* votes than those for the calls.
VotesTell ==
  \A n, p \in Nodes :
    /\ \A i \in 1..(calls - 1) : Holds(n, VoteBy(p, i))
    /\ \A l \in Labels : Votes(n, p, l) \subseteq VotesBy(p, l)

WaitInv ==
  /\ refused = {}
  /\ EarlierKnown /\ MsgsTell /\ HandlersTell /\ VotesTell
  /\ \A n \in Nodes : CountersTell(n)

\* With one label the votes of a voter arrive one after the other.
OrderInv ==
  Cardinality(Labels) = 1 =>
    \A n, p \in Nodes, l \in Labels :
      HeadIs(buckets[n][p][l].votes, 0) /\ Exact(buckets[n][p][l])

\* The invariant without the calls that wait for each other.
GossipingInv ==
  /\ TypeInv
  /\ KnownInv
  /\ refused = {} => NumbersInv /\ GossipInv

Inv == GossipingInv /\ (net.waits => WaitInv /\ OrderInv)

-----------------------------------------------------------------------------
(* Bags and sequences                                                      *)

\* What is in a bag after messages were taken from it and others put in.
LEMMA BagAfter ==
  ASSUME NEW B, IsABag(B), NEW T, NEW S,
         NEW C, C = (B (-) SetToBag(T)) (+) SetToBag(S)
  PROVE  /\ IsABag(C)
         /\ BagToSet(C) \subseteq BagToSet(B) \cup S
         /\ BagToSet(B) \ T \subseteq BagToSet(C)
         /\ S \subseteq BagToSet(C)
<1> DEFINE left == [e \in DOMAIN B |-> IF e \in T THEN B[e] - 1 ELSE B[e]]
           D == {d \in DOMAIN B : left[d] > 0}
<1>1. B (-) SetToBag(T) = [e \in D |-> left[e]]
  BY DEF SetToBag, (-)
<1>2. C = [e \in D \cup S |-> (IF e \in D THEN left[e] ELSE 0)
                              + (IF e \in S THEN 1 ELSE 0)]
  BY <1>1 DEF SetToBag, (+)
<1>3. \A e \in DOMAIN B : B[e] \in Nat /\ B[e] > 0
  BY DEF IsABag
<1>4. \A e \in D : left[e] \in Nat /\ left[e] > 0
  BY <1>3
<1>5. \A e \in DOMAIN B \ T : e \in D
  BY <1>3
<1>6. DOMAIN C = D \cup S
  BY <1>2
<1>7. \A e \in D \cup S : C[e] \in Nat /\ C[e] > 0
  BY <1>2, <1>4
<1>8. IsABag(C)
  BY <1>2, <1>6, <1>7 DEF IsABag
<1> QED
  BY <1>5, <1>6, <1>8 DEF BagToSet

\* An empty bag holds nothing.
LEMMA NothingInFlight == EmptyBag = inFlight => Msgs = {}
BY DEF EmptyBag, SetToBag, Msgs, BagToSet

\* A sequence is one of its elements.
LEMMA SeqOfElements ==
  ASSUME NEW S, NEW s \in Seq(S)
  PROVE  /\ s \in Seq(ToSet(s))
         /\ ToSet(s) \subseteq S
         /\ \A i \in 1..Len(s) : s[i] \in ToSet(s)
         /\ DOMAIN s = 1..Len(s) /\ Len(s) \in Nat
<1>1. DOMAIN s = 1..Len(s) /\ Len(s) \in Nat /\ \A i \in 1..Len(s) : s[i] \in S
  OBVIOUS
<1>2. ToSet(s) = {s[i] : i \in 1..Len(s)}
  BY <1>1 DEF ToSet
<1>3. s \in [1..Len(s) -> ToSet(s)]
  BY <1>1, <1>2
<1> QED
  BY <1>1, <1>2, <1>3

\* A sequence of elements of a set is one of elements of a larger set.
LEMMA SeqOfMore ==
  ASSUME NEW S, NEW T, S \subseteq T, NEW s \in Seq(S)
  PROVE  s \in Seq(T)
OBVIOUS

-----------------------------------------------------------------------------
(* AddVote                                                                 *)

\* A vote that is not added, without an error, changes nothing.
LEMMA NotAddedIsThere ==
  ASSUME NEW b, NEW v, ~AddVote(b, v).added, ~AddVote(b, v).err
  PROVE  AddVote(b, v).bucket = b
<1> DEFINE pos == PrevElement(b.votes, v)
<1>1. CASE pos = 0
  <2>1. AddVote(b, v) = Inserted(b, Append(b.votes, v), Len(b.votes) + 1)
    BY <1>1 DEF AddVote
  <2> QED
    BY <2>1 DEF Inserted, Result
<1>2. CASE pos # 0 /\ b.votes[pos].seq = v.seq
  <2>1. AddVote(b, v) = Result(b, FALSE, FALSE)
    BY <1>2 DEF AddVote
  <2> QED
    BY <2>1 DEF Result
<1>3. CASE pos # 0 /\ b.votes[pos].seq # v.seq /\ ~validHashes(b.votes[pos], v)
  <2>1. AddVote(b, v) = Result(b, FALSE, TRUE)
    BY <1>3 DEF AddVote
  <2> QED
    BY <2>1 DEF Result
<1>4. CASE pos # 0 /\ b.votes[pos].seq # v.seq /\ validHashes(b.votes[pos], v)
  <2>1. AddVote(b, v) = InsertAfter(b, v, pos)
    BY <1>4 DEF AddVote
  <2> QED
    BY <2>1 DEF InsertAfter, Inserted, Result
<1> QED
  BY <1>1, <1>2, <1>3, <1>4

\* The result r of AddVote of vote v to bucket b of voter p and label l.
IsResult(r, b, v, p, l) ==
  /\ BucketOK(r.bucket, p, l)
  /\ r.added \in BOOLEAN /\ r.err \in BOOLEAN
  /\ ToSet(b.votes) \subseteq ToSet(r.bucket.votes)
  /\ ToSet(r.bucket.votes) \subseteq ToSet(b.votes) \cup {v}
  /\ ~r.err => \/ v \in ToSet(r.bucket.votes)
               \/ \E u \in ToSet(b.votes) : u.seq = v.seq
  /\ ~r.err /\ ~r.added => r.bucket = b

\* What AddVote does to a bucket and to the set of its votes.
LEMMA BucketAfter ==
  ASSUME NEW b, NEW p, NEW l, BucketOK(b, p, l), NEW v, IsVoteOf(v, p, l),
         NEW r, r = AddVote(b, v)
  PROVE  IsResult(r, b, v, p, l)
<1> DEFINE S == ToSet(b.votes) \cup {v}
<1>1. /\ b \in BucketsOf(ToSet(b.votes), {})
      /\ \A u \in S : IsVoteOf(u, p, l)
  BY DEF BucketOK
<1>2. b.votes \in Seq(ToSet(b.votes)) /\ b.lastSeqSeen \in Nat
      /\ b.commitedHashes \in SUBSET {}
      /\ b = [votes |-> b.votes, lastSeqSeen |-> b.lastSeqSeen,
              commitedHashes |-> b.commitedHashes]
  BY <1>1 DEF BucketsOf
<1>3. b.votes \in Seq(S)
  BY <1>2, SeqOfMore
<1>4. b \in BucketsOf(S, {}) /\ v \in S
  BY <1>2, <1>3 DEF BucketsOf
<1>5. Numbered(S)
  BY <1>1 DEF Numbered, IsVoteOf
<1> HIDE DEF S
<1>6. AddVoteDoes(b, AddVote(b, v), v, S, {})
  BY <1>4, <1>5, AddVoteIs
<1>7. /\ r.bucket \in BucketsOf(S, {})
      /\ r.added \in BOOLEAN /\ r.err \in BOOLEAN
      /\ Puts(b, r, v) \/ Refuses(b, r, v)
  BY <1>6 DEF AddVoteDoes
<1>8. r.bucket.votes \in Seq(S)
  BY <1>7 DEF BucketsOf
<1>9. /\ ToSet(b.votes) \subseteq ToSet(r.bucket.votes)
      /\ ToSet(r.bucket.votes) \subseteq ToSet(b.votes) \cup {v}
      /\ ~r.err => \/ v \in ToSet(r.bucket.votes)
                   \/ \E u \in ToSet(b.votes) : u.seq = v.seq
  <2>1. CASE Puts(b, r, v)
    <3>1. PICK pos : PutBehind(b.votes, r.bucket.votes, v, pos)
      BY <2>1 DEF Puts
    <3>2. /\ DOMAIN b.votes = 1..Len(b.votes) /\ Len(b.votes) \in Nat
          /\ DOMAIN r.bucket.votes = 1..Len(r.bucket.votes)
      BY <1>3, <1>8
    <3> DEFINE old == b.votes
               new == r.bucket.votes
    <3>3. /\ \A i \in DOMAIN old : \E j \in DOMAIN new : new[j] = old[i]
          /\ \A j \in DOMAIN new :
               new[j] = v \/ \E i \in DOMAIN old : new[j] = old[i]
      <4> HIDE DEF old, new
      <4>1. /\ PutBehind(old, new, v, pos)
            /\ old \in Seq(S) /\ new \in Seq(S)
        BY <1>3, <1>8, <3>1 DEF old, new
      <4> QED
        BY <4>1, PutBehindVotes
    <3>4. pos + 1 \in DOMAIN r.bucket.votes /\ r.bucket.votes[pos + 1] = v
      BY <3>1, <3>2 DEF PutBehind
    <3> QED
      BY <3>3, <3>4 DEF ToSet
  <2>2. CASE Refuses(b, r, v)
    BY <2>2 DEF Refuses, SeqsIn, ToSet
  <2> QED
    BY <1>7, <2>1, <2>2
<1>10. BucketOK(r.bucket, p, l)
  <2>1. r.bucket.votes \in Seq(ToSet(r.bucket.votes))
    BY <1>8, SeqOfElements
  <2>2. r.bucket \in BucketsOf(ToSet(r.bucket.votes), {})
    BY <1>7, <2>1 DEF BucketsOf
  <2> QED
    BY <1>1, <1>9, <2>2 DEF BucketOK, S
<1> QED
  BY <1>7, <1>9, <1>10, NotAddedIsThere DEF IsResult
-----------------------------------------------------------------------------
(* The network                                                             *)

\* What SimulationAssumption says of the network that was chosen.
LEMMA NetworkIs ==
  ASSUME net \in Networks
  PROVE  /\ Main \notin Nodes
         /\ IsFiniteSet(Nodes)
         /\ \A n \in Nodes : Topology[n] \subseteq Nodes \ {n}
         /\ Connected(Topology)
         /\ Script \in Seq([node : Nodes, tx : AllTxs])
         /\ \A i, j \in DOMAIN Script : Script[i].tx = Script[j].tx => i = j
         /\ net.waits \in BOOLEAN
<1>1. IsFiniteSet(Nodes)
  BY SimulationAssumption, FS_Subset DEF Nodes
<1> QED
  BY <1>1, SimulationAssumption DEF Nodes, Topology, Script

\* What holds of some node, and of the peers of each node it holds of, holds of
\* all nodes.
LEMMA ReachesAll ==
  ASSUME net \in Networks, NEW S \in SUBSET Nodes, S # {},
         \A n \in S : Topology[n] \subseteq S
  PROVE  S = Nodes
<1>1. Connected(Topology) /\ DOMAIN Topology = Nodes
  BY NetworkIs DEF Topology, Nodes
<1> QED
  BY <1>1 DEF Connected

\* The transactions of the calls.
LEMMA CalledIs ==
  ASSUME net \in Networks, calls \in 0..Len(Script)
  PROVE  /\ Len(Script) \in Nat /\ DOMAIN Script = 1..Len(Script)
         /\ Called \subseteq TxHashes
         /\ \A h \in Called : Label[h] \in Labels
         /\ \A i \in 1..Len(Script) : Script[i].node \in Nodes
         /\ \A i \in 1..Len(Script) : Label[Script[i].tx] \in Labels
         /\ \A i \in 1..calls : Script[i].tx \in Called
<1>1. Script \in Seq([node : Nodes, tx : AllTxs])
  BY NetworkIs
<1>2. /\ Len(Script) \in Nat /\ DOMAIN Script = 1..Len(Script)
      /\ \A i \in 1..Len(Script) : Script[i] \in [node : Nodes, tx : AllTxs]
  BY <1>1, SeqOfElements
<1>3. 1..calls \subseteq DOMAIN Script
  BY <1>2
<1>4. \A i \in DOMAIN Script : Script[i].tx \in TxHashes
  BY DEF TxHashes
<1>5. \A h \in TxHashes : Label[h] \in Labels
  BY DEF Labels
<1>6. Called \subseteq TxHashes
  BY <1>3, <1>4 DEF Called
<1> QED
  BY <1>2, <1>3, <1>4, <1>5, <1>6 DEF Called

\* The network does not change.
LEMMA NetworkStays ==
  ASSUME net' = net
  PROVE  /\ Nodes' = Nodes /\ Goroutines' = Goroutines
         /\ Topology' = Topology /\ Script' = Script
         /\ Label' = Label /\ Labels' = Labels /\ TxHashes' = TxHashes
  BY DEF Nodes, Goroutines, Topology, Script, Label, Labels, TxHashes

-----------------------------------------------------------------------------
(* What the steps do                                                       *)

\* A goroutine takes a step of handleTx.
LEMMA HandlerBecomes ==
  ASSUME HandlersOK, NEW g \in Goroutines, NEW h,
         handler' = [handler EXCEPT ![g] = h]
  PROVE  /\ DOMAIN handler' = Goroutines
         /\ handler'[g] = h
         /\ \A k \in Goroutines : k # g => handler'[k] = handler[k]
  BY DEF HandlersOK

\* What is known of a goroutine by its place.
LEMMA PlaceIs ==
  ASSUME HandlersOK, NEW g \in Goroutines
  PROVE  LET h == handler[g]
         IN  /\ h.pc = "idle" <=> h = Idle
             /\ h.pc \in {"idle", "number", "link", "store", "vote"}
             /\ h.pc = "number" =>
                  /\ h = [pc |-> "number", node |-> h.node, tx |-> h.tx]
                  /\ h.node \in Nodes /\ h.tx \in Called
             /\ h.pc \in {"link", "store", "vote"} =>
                  /\ h = [pc |-> h.pc, node |-> h.node, vote |-> h.vote]
                  /\ h.node \in Nodes
                  /\ h.vote = [pubkey |-> h.node, label |-> h.vote.label,
                               seq |-> h.vote.seq, txHash |-> h.vote.txHash,
                               time |-> 0, prevHash |-> h.vote.prevHash]
                  /\ h.vote.label \in Labels /\ h.vote.seq \in Nat
                  /\ h.vote.pubkey = h.node
             /\ h # Idle => h.node \in Nodes
             /\ h # Idle /\ g \in Nodes => h.node = g
<1> DEFINE h == handler[g]
<1>1. /\ IsHandler(h, Nodes, Labels, Called)
      /\ g \in Nodes /\ h # Idle => h.node = g
  BY DEF HandlersOK
<1> HIDE DEF h
<1>2. CASE h = Idle
  <2>1. h.pc = "idle"
    BY <1>2 DEF Idle
  <2> QED
    BY <1>2, <2>1 DEF h
<1>3. CASE /\ h = [pc |-> "number", node |-> h.node, tx |-> h.tx]
           /\ h.node \in Nodes /\ h.tx \in Called
  <2>1. h.pc = "number"
    BY <1>3
  <2>2. h # Idle
    BY <2>1 DEF Idle
  <2> QED
    BY <1>1, <1>3, <2>1, <2>2 DEF h
<1>4. CASE /\ h = [pc |-> h.pc, node |-> h.node, vote |-> h.vote]
           /\ h.pc \in {"link", "store", "vote"} /\ h.node \in Nodes
           /\ h.vote = [pubkey |-> h.node, label |-> h.vote.label,
                        seq |-> h.vote.seq, txHash |-> h.vote.txHash,
                        time |-> 0, prevHash |-> h.vote.prevHash]
           /\ h.vote.label \in Labels /\ h.vote.seq \in Nat
  <2>1. h # Idle
    BY <1>4 DEF Idle
  <2>2. h.vote.pubkey = h.node
    BY <1>4
  <2> QED
    BY <1>1, <1>4, <2>1, <2>2 DEF h
<1> QED
  BY <1>1, <1>2, <1>3, <1>4 DEF IsHandler
\* The vote of a goroutine with the hash x it links to.
LinkedTo(v, x) ==
  [pubkey |-> v.pubkey, label |-> v.label, seq |-> v.seq, txHash |-> v.txHash,
   time |-> 0, prevHash |-> x]

\* The vote a goroutine gets for transaction tx of node n.
NewVote(n, tx) ==
  [pubkey |-> n, label |-> Label[tx], seq |-> seq[n], txHash |-> tx,
   time |-> 0, prevHash |-> NoHash]

\* Goroutine g goes on with h, the others stay where they are.
GoesOn(g, h) ==
  /\ DOMAIN handler' = Goroutines
  /\ handler'[g] = h
  /\ \A k \in Goroutines : k # g => handler'[k] = handler[k]

\* Goroutine g of node n draws a number.
NumberStep(g, n) ==
  /\ handler[g].pc = "number" /\ handler[g].node = n /\ n \in Nodes
  /\ handler[g].tx \in Called
  /\ seq' = [seq EXCEPT ![n] = seq[n] + 1]
  /\ GoesOn(g, [pc |-> "link", node |-> n, vote |-> NewVote(n, handler[g].tx)])
  /\ UNCHANGED <<net, known, buckets, lastVote, inFlight, calls, refused>>

\* The code of nextSeq takes that step.
LEMMA NextSeqDoes ==
  ASSUME HandlersOK, NEW g \in Goroutines, NextSeq(g)
  PROVE  NumberStep(g, handler[g].node)
<1> DEFINE n == handler[g].node
           tx == handler[g].tx
           h == [pc |-> "link", node |-> n, vote |-> NewVote(n, tx)]
<1>1. /\ handler[g].pc = "number"
      /\ seq' = [seq EXCEPT ![n] = seq[n] + 1]
      /\ handler' = [handler EXCEPT ![g] = h]
      /\ UNCHANGED <<net, known, buckets, lastVote, inFlight, calls, refused>>
  BY DEF NextSeq, NewVote
<1>2. n \in Nodes /\ tx \in Called
  BY <1>1, PlaceIs
<1> HIDE DEF h
<1>3. GoesOn(g, h)
  BY <1>1, HandlerBecomes DEF GoesOn
<1> QED
  BY <1>1, <1>2, <1>3 DEF h, NumberStep

\* Goroutine g of node n links its vote to the last one.
LinkStep(g, n) ==
  /\ handler[g].pc = "link" /\ handler[g].node = n /\ n \in Nodes
  /\ GoesOn(g, [pc |-> "store", node |-> n,
                vote |-> LinkedTo(handler[g].vote, lastVote[n])])
  /\ UNCHANGED <<net, known, buckets, seq, lastVote, inFlight, calls, refused>>

\* The code that reads lastVote takes that step.
LEMMA ReadLastVoteDoes ==
  ASSUME HandlersOK, NEW g \in Goroutines, ReadLastVote(g)
  PROVE  LinkStep(g, handler[g].node)
<1> DEFINE old == handler[g]
           n == old.node
           x == lastVote[n]
           h == [pc |-> "store", node |-> n, vote |-> LinkedTo(old.vote, x)]
           set == [[old EXCEPT !.pc = "store"] EXCEPT !.vote.prevHash = x]
<1>1. /\ old.pc = "link"
      /\ handler' = [handler EXCEPT ![g].pc = "store",
                                    ![g].vote.prevHash = x]
      /\ UNCHANGED <<net, known, buckets, seq, lastVote, inFlight, calls,
                     refused>>
  BY DEF ReadLastVote
<1>2. DOMAIN handler = Goroutines
  BY DEF HandlersOK
<1>3. handler' = [handler EXCEPT ![g] = set]
  BY <1>1, <1>2
<1>4. /\ old = [pc |-> old.pc, node |-> old.node, vote |-> old.vote]
      /\ n \in Nodes
      /\ old.vote = [pubkey |-> n, label |-> old.vote.label,
                     seq |-> old.vote.seq, txHash |-> old.vote.txHash,
                     time |-> 0, prevHash |-> old.vote.prevHash]
  BY <1>1, PlaceIs
<1>5. set = h
  <2> HIDE DEF old, n, x
  <2> DEFINE a == [old EXCEPT !.pc = "store"]
             w == [old.vote EXCEPT !.prevHash = x]
  <2>1. a = [pc |-> "store", node |-> old.node, vote |-> old.vote]
    BY <1>4
  <2>2. w = LinkedTo(old.vote, x)
    BY <1>4 DEF LinkedTo
  <2>3. set = [a EXCEPT !.vote = w]
    <3>1. a.vote = old.vote
      BY <2>1
    <3> QED
      BY <3>1
  <2> HIDE DEF a, w
  <2>4. [a EXCEPT !.vote = w] = [pc |-> "store", node |-> old.node, vote |-> w]
    BY <2>1
  <2> QED
    BY <2>2, <2>3, <2>4 DEF n
<1> HIDE DEF h, set
<1>6. GoesOn(g, h)
  BY <1>3, <1>5, HandlerBecomes DEF GoesOn
<1> QED
  BY <1>1, <1>4, <1>6 DEF h, LinkStep

\* The vote of goroutine g becomes the last one of node n.
StoreStep(g, n) ==
  /\ handler[g].pc = "store" /\ handler[g].node = n /\ n \in Nodes
  /\ GoesOn(g, [pc |-> "vote", node |-> n, vote |-> handler[g].vote])
  /\ lastVote' = [lastVote EXCEPT ![n] = Hash(handler[g].vote)]
  /\ UNCHANGED <<net, known, buckets, seq, inFlight, calls, refused>>

\* The code that writes lastVote takes that step.
LEMMA WriteLastVoteDoes ==
  ASSUME HandlersOK, NEW g \in Goroutines, WriteLastVote(g)
  PROVE  StoreStep(g, handler[g].node)
<1> DEFINE old == handler[g]
           n == old.node
           h == [pc |-> "vote", node |-> n, vote |-> old.vote]
           set == [old EXCEPT !.pc = "vote"]
<1>1. /\ old.pc = "store"
      /\ handler' = [handler EXCEPT ![g].pc = "vote"]
      /\ lastVote' = [lastVote EXCEPT ![n] = Hash(old.vote)]
      /\ UNCHANGED <<net, known, buckets, seq, inFlight, calls, refused>>
  BY DEF WriteLastVote
<1>2. handler' = [handler EXCEPT ![g] = set]
  BY <1>1
<1>3. /\ old = [pc |-> old.pc, node |-> old.node, vote |-> old.vote]
      /\ n \in Nodes
  BY <1>1, PlaceIs
<1>4. set = h
  <2> HIDE DEF old
  <2> QED
    BY <1>3
<1> HIDE DEF h, set
<1>5. GoesOn(g, h)
  BY <1>2, <1>4, HandlerBecomes DEF GoesOn
<1> QED
  BY <1>1, <1>3, <1>5 DEF h, StoreStep

\* The messages that pass on vote v of node n.
PassedOn(n, v, from) ==
  {VoteMsg(p, n, v) : p \in Topology[n] \ {from, v.pubkey}}

\* What handleVote does to the buckets and the messages.
VoteIsHandled(n, v, from, taken) ==
  LET q == v.pubkey
      l == v.label
      r == AddVote(buckets[n][q][l], v)
  IN  /\ BucketsOK' /\ IsABag(inFlight')
      /\ buckets'[n][q][l] = r.bucket
      /\ \A m, p \in Nodes, k \in Labels :
           ~(m = n /\ p = q /\ k = l) => buckets'[m][p][k] = buckets[m][p][k]
      /\ Votes(n, q, l) \subseteq Votes(n, q, l)'
      /\ Votes(n, q, l)' \subseteq Votes(n, q, l) \cup {v}
      /\ Msgs \ taken \subseteq Msgs'
      /\ Msgs' \subseteq Msgs \cup PassedOn(n, v, from)
      /\ r.err \in BOOLEAN
      /\ refused' = IF r.err THEN refused \cup {v} ELSE refused
      /\ ~r.err =>
           /\ v \in Votes(n, q, l)' \/ \E u \in Votes(n, q, l) : u.seq = v.seq
           /\ \/ PassedOn(n, v, from) \subseteq Msgs'
              \/ buckets'[n][q][l] = buckets[n][q][l]

\* HandleVote does so, whoever calls it.
LEMMA HandleVoteDoes ==
  ASSUME BucketsOK, IsABag(inFlight), net' = net, NEW n \in Nodes, NEW v,
         v.pubkey \in Nodes, v.label \in Labels, v.seq \in Nat,
         NEW from, NEW taken, HandleVote(n, v, from, taken)
  PROVE  VoteIsHandled(n, v, from, taken)
<1> DEFINE q == v.pubkey
           l == v.label
           b == buckets[n][q][l]
           r == AddVote(b, v)
           sent == IF r.added /\ ~r.err THEN PassedOn(n, v, from) ELSE {}
<1>1. /\ buckets' = [buckets EXCEPT ![n][q][l] = r.bucket]
      /\ inFlight' = (inFlight (-) SetToBag(taken)) (+) SetToBag(sent)
      /\ refused' = IF r.err THEN refused \cup {v} ELSE refused
  BY DEF HandleVote, Exchange, PassedOn
<1>2. BucketOK(b, q, l) /\ IsVoteOf(v, q, l)
  BY DEF BucketsOK, IsVoteOf
<1> DEFINE nb == r.bucket
<1>3. /\ BucketOK(nb, q, l)
      /\ r.added \in BOOLEAN /\ r.err \in BOOLEAN
      /\ ToSet(b.votes) \subseteq ToSet(nb.votes)
      /\ ToSet(nb.votes) \subseteq ToSet(b.votes) \cup {v}
      /\ ~r.err => \/ v \in ToSet(nb.votes)
                   \/ \E u \in ToSet(b.votes) : u.seq = v.seq
      /\ ~r.err /\ ~r.added => nb = b
  <2>1. r = AddVote(b, v)
    OBVIOUS
  <2> HIDE DEF b, r, q, l
  <2>2. IsResult(r, b, v, q, l)
    BY <1>2, <2>1, BucketAfter
  <2> QED
    BY <2>2 DEF IsResult
<1>4. /\ IsABag(inFlight')
      /\ Msgs' \subseteq Msgs \cup sent
      /\ Msgs \ taken \subseteq Msgs'
      /\ sent \subseteq Msgs'
  <2> HIDE DEF sent
  <2> QED
    BY <1>1, BagAfter DEF Msgs
<1>5. Nodes' = Nodes /\ Labels' = Labels
  BY NetworkStays
<1> HIDE DEF nb
<1>6. /\ DOMAIN buckets' = Nodes
      /\ \A m \in Nodes : DOMAIN buckets'[m] = Nodes
      /\ \A m, p \in Nodes : DOMAIN buckets'[m][p] = Labels
      /\ buckets'[n][q][l] = nb
      /\ \A m, p \in Nodes, k \in Labels :
           ~(m = n /\ p = q /\ k = l) => buckets'[m][p][k] = buckets[m][p][k]
  <2>1. /\ DOMAIN buckets = Nodes /\ \A m \in Nodes : DOMAIN buckets[m] = Nodes
        /\ \A m, p \in Nodes : DOMAIN buckets[m][p] = Labels
    BY DEF BucketsOK
  <2>2. buckets' = [buckets EXCEPT ![n][q][l] = nb]
    BY <1>1 DEF nb
  <2> HIDE DEF q, l
  <2>3. q \in Nodes /\ l \in Labels
    BY DEF q, l
  <2> QED
    BY <2>1, <2>2, <2>3
<1>7. BucketsOK'
  <2>1. \A m, p \in Nodes, k \in Labels : BucketOK(buckets'[m][p][k], p, k)
    <3> SUFFICES ASSUME NEW m \in Nodes, NEW p \in Nodes, NEW k \in Labels
                 PROVE  BucketOK(buckets'[m][p][k], p, k)
      OBVIOUS
    <3>1. CASE m = n /\ p = q /\ k = l
      BY <1>3, <1>6, <3>1 DEF nb
    <3>2. CASE ~(m = n /\ p = q /\ k = l)
      BY <1>6, <3>2 DEF BucketsOK
    <3> QED
      BY <3>1, <3>2
  <2> QED
    BY <1>5, <1>6, <2>1 DEF BucketsOK, BucketOK, IsVoteOf
<1>8. Votes(n, q, l)' = ToSet(nb.votes) /\ Votes(n, q, l) = ToSet(b.votes)
  BY <1>6 DEF Votes
<1>9. sent \subseteq PassedOn(n, v, from)
  OBVIOUS
<1>10. ~r.err => \/ PassedOn(n, v, from) \subseteq Msgs'
                 \/ buckets'[n][q][l] = buckets[n][q][l]
  BY <1>3, <1>4, <1>6 DEF nb
<1>11. Msgs' \subseteq Msgs \cup PassedOn(n, v, from)
  BY <1>4, <1>9
<1>12. /\ Votes(n, q, l) \subseteq Votes(n, q, l)'
       /\ Votes(n, q, l)' \subseteq Votes(n, q, l) \cup {v}
       /\ ~r.err => \/ v \in Votes(n, q, l)'
                    \/ \E u \in Votes(n, q, l) : u.seq = v.seq
  BY <1>3, <1>8 DEF nb
<1> QED
  <2> HIDE DEF sent
  <2> QED
    BY <1>1, <1>3, <1>4, <1>6, <1>7, <1>10, <1>11, <1>12
    DEF VoteIsHandled, nb
\* The messages that pass on a transaction.
Spread(n, tx, from) == {TxMsg(p, n, tx) : p \in Topology[n] \ {from}}

\* What the first step of handleTx does.
TxIsHandled(g, n, tx, from, taken) ==
  /\ IsABag(inFlight')
  /\ Msgs \ taken \subseteq Msgs'
  /\ \/ /\ tx \in known[n]
        /\ Msgs' \subseteq Msgs
        /\ UNCHANGED <<known, handler>>
     \/ /\ tx \notin known[n]
        /\ known' = [known EXCEPT ![n] = known[n] \cup {tx}]
        /\ Spread(n, tx, from) \subseteq Msgs'
        /\ Msgs' \subseteq Msgs \cup Spread(n, tx, from)
        /\ GoesOn(g, [pc |-> "number", node |-> n, tx |-> tx])
  /\ UNCHANGED <<net, buckets, seq, lastVote, refused>>

\* HandleTx does so, whoever calls it.
LEMMA HandleTxDoes ==
  ASSUME HandlersOK, IsABag(inFlight), NEW g \in Goroutines, NEW n, NEW tx,
         NEW from, NEW taken, HandleTx(g, n, tx, from, taken)
  PROVE  TxIsHandled(g, n, tx, from, taken)
<1> DEFINE h == [pc |-> "number", node |-> n, tx |-> tx]
           sent == IF tx \in known[n] THEN {} ELSE Spread(n, tx, from)
<1>1. /\ inFlight' = (inFlight (-) SetToBag(taken)) (+) SetToBag(sent)
      /\ UNCHANGED <<net, buckets, seq, lastVote, refused>>
      /\ tx \in known[n] => UNCHANGED <<known, handler>>
      /\ tx \notin known[n] =>
           /\ known' = [known EXCEPT ![n] = known[n] \cup {tx}]
           /\ handler' = [handler EXCEPT ![g] = h]
  BY DEF HandleTx, Exchange, Spread
<1>2. /\ IsABag(inFlight')
      /\ Msgs' \subseteq Msgs \cup sent
      /\ Msgs \ taken \subseteq Msgs'
      /\ sent \subseteq Msgs'
  <2> HIDE DEF sent
  <2> QED
    BY <1>1, BagAfter DEF Msgs
<1> HIDE DEF h
<1>3. tx \notin known[n] => GoesOn(g, h)
  BY <1>1, HandlerBecomes DEF GoesOn
<1> QED
  BY <1>1, <1>2, <1>3 DEF TxIsHandled, h

\* Main begins a call.
CallStep ==
  /\ handler[Main] = Idle
  /\ calls < Len(Script) /\ calls' = calls + 1
  /\ net.waits => WgIsZero
  /\ TxIsHandled(Main, Script[calls + 1].node, Script[calls + 1].tx,
                 Script[calls + 1].node, {})

\* Node n takes message m.
TxStep(n, m) ==
  /\ handler[n] = Idle /\ m \in Msgs /\ m.kind = "tx" /\ m.to = n /\ TxMsgOK(m)
  /\ TxIsHandled(n, n, m.tx, m.from, {m})
  /\ UNCHANGED calls

VoteStep(n, m) ==
  /\ handler[n] = Idle /\ m \in Msgs /\ m.kind = "vote" /\ m.to = n
  /\ VoteMsgOK(m)
  /\ VoteIsHandled(n, m.vote, m.from, {m})
  /\ UNCHANGED <<net, known, seq, lastVote, handler, calls>>

\* Goroutine g adds the vote of node n to the node's own Wendy.
OwnVoteStep(g, n) ==
  /\ handler[g].pc = "vote" /\ handler[g].node = n /\ n \in Nodes
  /\ \E v : v = handler[g].vote /\ VoteIsHandled(n, v, n, {})
  /\ GoesOn(g, Idle)
  /\ UNCHANGED <<net, known, seq, lastVote, calls>>

\* One of these steps is taken.
Steps ==
  \/ CallStep
  \/ \E n \in Nodes, m \in Msgs : TxStep(n, m) \/ VoteStep(n, m)
  \/ \E g \in Goroutines, n \in Nodes :
       \/ NumberStep(g, n) \/ LinkStep(g, n)
       \/ StoreStep(g, n) \/ OwnVoteStep(g, n)

\* The places of handleTx.
LEMMA HandleTxSteps ==
  ASSUME BucketsOK, MsgsOK, HandlersOK, NEW g \in Goroutines, HandleTxStep(g)
  PROVE  Steps
<1>1. CASE NextSeq(g)
  BY <1>1, NextSeqDoes DEF Steps, NumberStep
<1>2. CASE ReadLastVote(g)
  BY <1>2, ReadLastVoteDoes DEF Steps, LinkStep
<1>3. CASE WriteLastVote(g)
  BY <1>3, WriteLastVoteDoes DEF Steps, StoreStep
<1>4. CASE HandleMyVote(g)
  <2> DEFINE n == handler[g].node
  <2> PICK v : v = handler[g].vote
    OBVIOUS
  <2>1. /\ handler[g].pc = "vote"
        /\ HandleVote(n, v, n, {})
        /\ handler' = [handler EXCEPT ![g] = Idle]
        /\ UNCHANGED <<net, known, seq, lastVote, calls>>
    BY <1>4 DEF HandleMyVote
  <2>2. /\ n \in Nodes /\ v.label \in Labels /\ v.seq \in Nat
        /\ v.pubkey = n
    BY <2>1, PlaceIs
  <2>3. IsABag(inFlight) /\ net' = net
    BY <2>1 DEF MsgsOK
  <2>4. GoesOn(g, Idle)
    BY <2>1, HandlerBecomes DEF GoesOn
  <2>5. VoteIsHandled(n, v, n, {})
    <3> HIDE DEF n
    <3> QED
      BY <2>1, <2>2, <2>3, HandleVoteDoes
  <2>6. OwnVoteStep(g, n)
    BY <2>1, <2>2, <2>4, <2>5 DEF OwnVoteStep
  <2> QED
    BY <2>2, <2>6 DEF Steps
<1> QED
  BY <1>1, <1>2, <1>3, <1>4 DEF HandleTxStep

\* Every step of the network is one of these.
LEMMA NextIs ==
  ASSUME TypeInv, Next
  PROVE  Steps
<1>1. BucketsOK /\ MsgsOK /\ HandlersOK /\ IsABag(inFlight)
  BY DEF TypeInv, MsgsOK
<1>2. Main \in Goroutines /\ Nodes \subseteq Goroutines
  BY DEF Goroutines
<1>3. CASE AddTx
  <2>1. TxIsHandled(Main, Script[calls + 1].node, Script[calls + 1].tx,
                    Script[calls + 1].node, {})
    BY <1>1, <1>2, <1>3, HandleTxDoes DEF AddTx
  <2> QED
    BY <1>3, <2>1 DEF AddTx, CallStep, Steps
<1>4. ASSUME NEW n \in Nodes, NEW m \in Msgs, RecvTx(n, m)
      PROVE  Steps
  <2>1. m.kind = "tx" /\ HandleTx(n, n, m.tx, m.from, {m})
    BY <1>4 DEF RecvTx
  <2>2. TxMsgOK(m)
    BY <1>1, <2>1 DEF MsgsOK, VoteMsgOK
  <2>3. TxIsHandled(n, n, m.tx, m.from, {m})
    BY <1>1, <1>2, <2>1, HandleTxDoes
  <2>4. TxStep(n, m)
    BY <1>4, <2>2, <2>3 DEF RecvTx, TxStep
  <2> QED
    BY <2>4 DEF Steps
<1>5. ASSUME NEW n \in Nodes, NEW m \in Msgs, RecvVote(n, m)
      PROVE  Steps
  <2>1. /\ m.kind = "vote" /\ HandleVote(n, m.vote, m.from, {m})
        /\ net' = net
    BY <1>5 DEF RecvVote
  <2>2. VoteMsgOK(m)
    BY <1>1, <2>1 DEF MsgsOK, TxMsgOK
  <2>3. /\ m.vote.pubkey \in Nodes /\ m.vote.label \in Labels
        /\ m.vote.seq \in Nat
    BY <2>2 DEF VoteMsgOK, IsVoteOf
  <2>4. VoteIsHandled(n, m.vote, m.from, {m})
    BY <1>1, <2>1, <2>3, HandleVoteDoes
  <2>5. VoteStep(n, m)
    BY <1>5, <2>2, <2>4 DEF RecvVote, VoteStep
  <2> QED
    BY <2>5 DEF Steps
<1> QED
  BY <1>1, <1>2, <1>3, <1>4, <1>5, HandleTxSteps
  DEF Next, MainStep, RecvMsgs, Msgs
-----------------------------------------------------------------------------
(* Types and the gossip of transactions                                    *)

\* A goroutine that goes on keeps the type of all.
LEMMA HandlersAfter ==
  ASSUME HandlersOK, net' = net, Called \subseteq Called',
         NEW g \in Goroutines, NEW h, GoesOn(g, h),
         IsHandler(h, Nodes, Labels, Called'),
         g \in Nodes /\ h # Idle => h.node = g
  PROVE  HandlersOK'
<1>1. Nodes' = Nodes /\ Goroutines' = Goroutines /\ Labels' = Labels
  BY NetworkStays
<1>2. ASSUME NEW k \in Goroutines
      PROVE  IsHandler(handler'[k], Nodes, Labels, Called')
  <2>1. CASE k = g
    BY <2>1 DEF GoesOn
  <2>2. CASE k # g
    <3>1. /\ handler'[k] = handler[k]
          /\ IsHandler(handler[k], Nodes, Labels, Called)
      BY <2>2 DEF GoesOn, HandlersOK
    <3>2. IsHandler(handler[k], Nodes, Labels, Called')
      BY <3>1 DEF IsHandler
    <3> QED
      BY <3>1, <3>2
  <2> QED
    BY <2>1, <2>2
<1>3. ASSUME NEW n \in Nodes, handler'[n] # Idle
      PROVE  handler'[n].node = n
  <2>1. n \in Goroutines
    BY DEF Goroutines
  <2> QED
    BY <1>3, <2>1 DEF GoesOn, HandlersOK
<1>4. DOMAIN handler' = Goroutines
  BY DEF GoesOn
<1> QED
  BY <1>1, <1>2, <1>3, <1>4 DEF HandlersOK, Idle

\* The calls that have begun only become more.
LEMMA CalledGrows ==
  ASSUME net' = net, calls \in Nat, calls' = calls \/ calls' = calls + 1
  PROVE  /\ Called \subseteq Called'
         /\ calls' = calls + 1 => Called' = Called \cup {Script[calls + 1].tx}
         /\ calls' = calls => Called' = Called
<1>1. Script' = Script
  BY NetworkStays
<1>2. calls' = calls => Called' = Called
  BY <1>1 DEF Called
<1>3. calls' = calls + 1 => Called' = Called \cup {Script[calls + 1].tx}
  <2> SUFFICES ASSUME calls' = calls + 1
               PROVE  Called' = Called \cup {Script[calls + 1].tx}
    OBVIOUS
  <2>1. 1..calls' = (1..calls) \cup {calls + 1}
    OBVIOUS
  <2> QED
    BY <1>1, <2>1 DEF Called
<1> QED
  BY <1>2, <1>3

\* Messages keep their type while the network stays.
LEMMA MsgsAfter ==
  ASSUME MsgsOK, net' = net, IsABag(inFlight'),
         \A m \in Msgs' : m \in Msgs \/ TxMsgOK(m) \/ VoteMsgOK(m)
  PROVE  MsgsOK'
<1>1. Nodes' = Nodes /\ Labels' = Labels
  BY NetworkStays
<1>2. \A m \in Msgs' : TxMsgOK(m) \/ VoteMsgOK(m)
  BY DEF MsgsOK
<1> QED
  BY <1>1, <1>2 DEF MsgsOK, TxMsgOK, VoteMsgOK

\* The messages a node sends to its peers.
LEMMA SpreadIs ==
  ASSUME net \in Networks, NEW n \in Nodes, NEW tx, NEW from
  PROVE  \A m \in Spread(n, tx, from) :
           TxMsgOK(m) /\ m.kind = "tx" /\ m.from = n /\ m.tx = tx
<1> SUFFICES ASSUME NEW m \in Spread(n, tx, from)
             PROVE  TxMsgOK(m) /\ m.kind = "tx" /\ m.from = n /\ m.tx = tx
  OBVIOUS
<1>1. PICK p \in Topology[n] : m = TxMsg(p, n, tx)
  BY DEF Spread
<1>2. p \in Nodes
  BY NetworkIs
<1> QED
  BY <1>1, <1>2 DEF TxMsg, TxMsgOK

\* The messages that pass a vote on are well formed.
LEMMA PassedOnIs ==
  ASSUME net \in Networks, NEW n \in Nodes, NEW v, NEW from,
         v.pubkey \in Nodes, v.label \in Labels, v.seq \in Nat
  PROVE  \A m \in PassedOn(n, v, from) :
           VoteMsgOK(m) /\ m.kind = "vote" /\ m.from = n /\ m.vote = v
<1> SUFFICES ASSUME NEW m \in PassedOn(n, v, from)
             PROVE  VoteMsgOK(m) /\ m.kind = "vote" /\ m.from = n /\ m.vote = v
  OBVIOUS
<1>1. PICK p \in Topology[n] : m = VoteMsg(p, n, v)
  BY DEF PassedOn
<1>2. p \in Nodes
  BY NetworkIs
<1> QED
  BY <1>1, <1>2 DEF VoteMsg, VoteMsgOK, IsVoteOf

\* The first step of handleTx keeps the types and tells the peers.
LEMMA TxIsSpread ==
  ASSUME TypeInv, KnownInv, NEW g \in Goroutines, NEW n \in Nodes, NEW tx,
         NEW from \in Nodes, NEW taken, TxIsHandled(g, n, tx, from, taken),
         calls' = calls \/ calls' = calls + 1, calls' \in 0..Len(Script),
         tx \in Called', g \in Nodes => g = n,
         from # n => tx \in known[from],
         \A m \in taken : m.kind = "tx" /\ m.to = n /\ m.tx = tx
  PROVE  /\ TypeInv'
         /\ \A m \in Msgs' : m.kind = "tx" => m.tx \in known'[m.from]
         /\ \A k \in Nodes : \A t \in known'[k] : \A p \in Topology[k] :
              t \in known'[p] \/ TxMsg(p, k, t) \in Msgs'
         /\ \A k \in Nodes : known[k] \subseteq known'[k]
         /\ tx \in known'[n]
<1>1. /\ net' = net /\ net \in Networks /\ calls \in Nat
      /\ known \in [Nodes -> SUBSET Called] /\ IsABag(inFlight')
      /\ UNCHANGED <<buckets, seq, lastVote>>
  BY NetworkIs DEF TypeInv, TxIsHandled
<1>2. Nodes' = Nodes /\ Goroutines' = Goroutines /\ Labels' = Labels
      /\ Script' = Script /\ Topology' = Topology
  BY <1>1, NetworkStays
<1>3. Called \subseteq Called'
  BY <1>1, CalledGrows
<1>4. BucketsOK'
  BY <1>1, <1>2 DEF TypeInv, BucketsOK, BucketOK, IsVoteOf
<1>5. CASE tx \in known[n]
  <2>1. Msgs' \subseteq Msgs /\ Msgs \ taken \subseteq Msgs'
        /\ known' = known /\ handler' = handler
    BY <1>5 DEF TxIsHandled
  <2>2. MsgsOK'
    BY <1>1, <2>1, MsgsAfter DEF TypeInv
  <2>3. HandlersOK'
    <3>1. \A k \in Goroutines : IsHandler(handler[k], Nodes, Labels, Called')
      BY <1>3 DEF TypeInv, HandlersOK, IsHandler
    <3> QED
      BY <1>2, <2>1, <3>1 DEF TypeInv, HandlersOK, Idle
  <2>4. known' \in [Nodes -> SUBSET Called']
    BY <1>1, <1>3, <2>1
  <2>5. TypeInv'
    BY <1>1, <1>2, <1>4, <2>2, <2>3, <2>4 DEF TypeInv
  <2>6. ASSUME NEW k \in Nodes, NEW t \in known'[k], NEW p \in Topology[k]
        PROVE  t \in known'[p] \/ TxMsg(p, k, t) \in Msgs'
    <3>1. CASE TxMsg(p, k, t) \in taken
      <4>1. p = n /\ t = tx
        BY <3>1 DEF TxMsg
      <4> QED
        BY <1>5, <2>1, <4>1
    <3>2. CASE TxMsg(p, k, t) \notin taken
      BY <2>1, <3>2 DEF KnownInv
    <3> QED
      BY <3>1, <3>2
  <2> QED
    BY <1>5, <2>1, <2>5, <2>6 DEF KnownInv
<1>6. CASE tx \notin known[n]
  <2> DEFINE h == [pc |-> "number", node |-> n, tx |-> tx]
  <2>1. /\ Msgs' \subseteq Msgs \cup Spread(n, tx, from)
        /\ Msgs \ taken \subseteq Msgs' /\ Spread(n, tx, from) \subseteq Msgs'
        /\ known' = [known EXCEPT ![n] = known[n] \cup {tx}]
        /\ GoesOn(g, h)
    BY <1>6 DEF TxIsHandled
  <2>2. /\ known'[n] = known[n] \cup {tx}
        /\ \A k \in Nodes : k # n => known'[k] = known[k]
        /\ known' \in [Nodes -> SUBSET Called']
    BY <1>1, <1>3, <2>1
  <2>3. MsgsOK'
    BY <1>1, <2>1, MsgsAfter, SpreadIs DEF TypeInv
  <2>4. HandlersOK'
    <3>1. IsHandler(h, Nodes, Labels, Called') /\ h.node = n
      BY DEF IsHandler
    <3> HIDE DEF h
    <3> QED
      BY <1>1, <1>3, <2>1, <3>1, HandlersAfter DEF TypeInv
  <2>5. TypeInv'
    BY <1>1, <1>2, <1>4, <2>2, <2>3, <2>4 DEF TypeInv
  <2>6. ASSUME NEW m \in Msgs', m.kind = "tx"
        PROVE  m.tx \in known'[m.from]
    <3>1. CASE m \in Msgs
      <4>1. m.tx \in known[m.from] /\ m.from \in Nodes
        BY <2>6, <3>1 DEF KnownInv, TypeInv, MsgsOK, TxMsgOK, VoteMsgOK
      <4> QED
        BY <2>2, <4>1
    <3>2. CASE m \in Spread(n, tx, from)
      BY <1>1, <2>2, <3>2, SpreadIs
    <3> QED
      BY <2>1, <3>1, <3>2
  <2>7. ASSUME NEW k \in Nodes, NEW t \in known'[k], NEW p \in Topology[k]
        PROVE  t \in known'[p] \/ TxMsg(p, k, t) \in Msgs'
    <3>1. p \in Nodes
      BY <1>1, NetworkIs
    <3>2. CASE t \in known[k]
      <4>1. t \in known[p] \/ TxMsg(p, k, t) \in Msgs
        BY <3>2 DEF KnownInv
      <4>2. CASE TxMsg(p, k, t) \in taken
        <5>1. p = n /\ t = tx
          BY <4>2 DEF TxMsg
        <5> QED
          BY <2>2, <5>1
      <4>3. CASE TxMsg(p, k, t) \notin taken
        BY <2>1, <2>2, <3>1, <4>1, <4>3
      <4> QED
        BY <4>2, <4>3
    <3>3. CASE t \notin known[k]
      <4>1. k = n /\ t = tx
        BY <2>2, <3>3
      <4>2. p # n
        BY <1>1, <4>1, NetworkIs
      <4>3. CASE p = from
        BY <2>2, <4>1, <4>2, <4>3
      <4>4. CASE p # from
        BY <2>1, <4>1, <4>4 DEF Spread
      <4> QED
        BY <4>3, <4>4
    <3> QED
      BY <3>2, <3>3
  <2> QED
    BY <2>2, <2>5, <2>6, <2>7
<1> QED
  BY <1>5, <1>6

\* A vote that is handled keeps the types.
LEMMA VoteKeepsTypes ==
  ASSUME TypeInv, NEW n \in Nodes, NEW v, NEW from, NEW taken,
         v.pubkey \in Nodes, v.label \in Labels, v.seq \in Nat,
         VoteIsHandled(n, v, from, taken),
         UNCHANGED <<net, known, seq, lastVote, calls>>, HandlersOK'
  PROVE  TypeInv'
<1>1. Nodes' = Nodes /\ Script' = Script /\ Called' = Called
  BY NetworkStays DEF Called
<1>2. /\ BucketsOK' /\ IsABag(inFlight')
      /\ Msgs' \subseteq Msgs \cup PassedOn(n, v, from)
  BY DEF VoteIsHandled
<1>3. MsgsOK'
  BY <1>2, MsgsAfter, PassedOnIs DEF TypeInv
<1> QED
  BY <1>1, <1>2, <1>3 DEF TypeInv

\* A vote that is handled keeps the messages of transactions.
LEMMA VoteKeepsTxMsgs ==
  ASSUME TypeInv, KnownInv, NEW n \in Nodes, NEW v, NEW from, NEW taken,
         v.pubkey \in Nodes, v.label \in Labels, v.seq \in Nat,
         VoteIsHandled(n, v, from, taken),
         UNCHANGED <<net, known, seq, lastVote, calls>>,
         \A m \in taken : m.kind = "vote"
  PROVE  KnownInv'
<1>1. Nodes' = Nodes /\ Topology' = Topology /\ Script' = Script
  BY NetworkStays
<1>2. /\ Msgs \ taken \subseteq Msgs'
      /\ Msgs' \subseteq Msgs \cup PassedOn(n, v, from)
  BY DEF VoteIsHandled
<1>3. \A m \in Msgs' : m.kind = "tx" => m.tx \in known'[m.from]
  <2> SUFFICES ASSUME NEW m \in Msgs', m.kind = "tx"
               PROVE  m.tx \in known[m.from]
    OBVIOUS
  <2>1. m \in Msgs
    BY <1>2, PassedOnIs DEF TypeInv
  <2> QED
    BY <2>1 DEF KnownInv
<1>4. \A k \in Nodes : \A t \in known'[k] : \A p \in Topology[k] :
        t \in known'[p] \/ TxMsg(p, k, t) \in Msgs'
  <2> SUFFICES ASSUME NEW k \in Nodes, NEW t \in known[k],
                      NEW p \in Topology[k]
               PROVE  t \in known[p] \/ TxMsg(p, k, t) \in Msgs'
    OBVIOUS
  <2>1. TxMsg(p, k, t) \notin taken
    BY DEF TxMsg
  <2> QED
    BY <1>2, <2>1 DEF KnownInv
<1> QED
  BY <1>1, <1>3, <1>4 DEF KnownInv

\* While neither messages nor calls change, transactions are known as before.
LEMMA KnownStays ==
  ASSUME KnownInv, UNCHANGED <<net, known, inFlight, calls>>
  PROVE  KnownInv'
<1>1. Nodes' = Nodes /\ Topology' = Topology /\ Script' = Script
  BY NetworkStays
<1> QED
  BY <1>1 DEF KnownInv, Msgs

\* A goroutine that works on its vote keeps the types.
LEMMA GoesOnKeepsTypes ==
  ASSUME TypeInv, NEW g \in Goroutines, NEW h, GoesOn(g, h),
         IsHandler(h, Nodes, Labels, Called), g \in Nodes => h.node = g,
         UNCHANGED <<net, known, buckets, inFlight, calls, refused>>,
         seq' \in [Nodes -> Nat], DOMAIN lastVote' = Nodes
  PROVE  TypeInv'
<1>1. /\ Nodes' = Nodes /\ Script' = Script
      /\ Called' = Called /\ Labels' = Labels
  BY NetworkStays DEF Called
<1>2. HandlersOK'
  BY <1>1, HandlersAfter DEF TypeInv
<1>3. BucketsOK' /\ MsgsOK'
  BY <1>1 DEF TypeInv, BucketsOK, BucketOK, IsVoteOf, MsgsOK, Msgs, TxMsgOK,
              VoteMsgOK
<1> QED
  BY <1>1, <1>2, <1>3 DEF TypeInv

\* The types are kept, and what is known spreads.
LEMMA KnownNext ==
  ASSUME TypeInv, KnownInv, Steps
  PROVE  TypeInv' /\ KnownInv'
<1>1. /\ HandlersOK /\ MsgsOK /\ calls \in 0..Len(Script)
      /\ net \in Networks
      /\ Len(Script) \in Nat /\ Nodes \subseteq Goroutines
      /\ Main \in Goroutines /\ Main \notin Nodes /\ calls \in Nat
  BY CalledIs, NetworkIs DEF TypeInv, Goroutines
<1>2. CASE CallStep
  <2> DEFINE n == Script[calls + 1].node
             tx == Script[calls + 1].tx
  <2>1. /\ TxIsHandled(Main, n, tx, n, {}) /\ calls' = calls + 1
        /\ calls < Len(Script) /\ net' = net
    BY <1>2 DEF CallStep, TxIsHandled
  <2>2. n \in Nodes /\ calls' \in 0..Len(Script)
    BY <1>1, <2>1, CalledIs
  <2>3. tx \in Called'
    BY <1>1, <2>1, CalledGrows
  <2>4. Nodes' = Nodes /\ Topology' = Topology /\ Script' = Script
    BY <2>1, NetworkStays
  <2>5. /\ TypeInv'
        /\ \A m \in Msgs' : m.kind = "tx" => m.tx \in known'[m.from]
        /\ \A k \in Nodes : \A t \in known'[k] : \A p \in Topology[k] :
             t \in known'[p] \/ TxMsg(p, k, t) \in Msgs'
        /\ \A k \in Nodes : known[k] \subseteq known'[k]
        /\ tx \in known'[n]
    <3> HIDE DEF n, tx
    <3> QED
      BY <1>1, <2>1, <2>2, <2>3, TxIsSpread
  <2>6. \A i \in 1..calls' : Script[i].tx \in known'[Script[i].node]
    <3> SUFFICES ASSUME NEW i \in 1..calls'
                 PROVE  Script[i].tx \in known'[Script[i].node]
      OBVIOUS
    <3>1. CASE i = calls + 1
      BY <2>5, <3>1
    <3>2. CASE i \in 1..calls
      <4>1. Script[i].node \in Nodes
        BY <1>1, <3>2, CalledIs
      <4> QED
        BY <2>5, <3>2, <4>1 DEF KnownInv
    <3> QED
      BY <1>1, <2>1, <3>1, <3>2
  <2> QED
    BY <2>4, <2>5, <2>6 DEF KnownInv
<1>3. ASSUME NEW n \in Nodes, NEW m \in Msgs, TxStep(n, m)
      PROVE  TypeInv' /\ KnownInv'
  <2>1. /\ TxIsHandled(n, n, m.tx, m.from, {m}) /\ calls' = calls
        /\ net' = net /\ m.kind = "tx" /\ m.to = n /\ m.from \in Nodes
    BY <1>3 DEF TxStep, TxIsHandled, TxMsgOK
  <2>2. m.tx \in known[m.from] /\ m.tx \in Called
    BY <2>1 DEF KnownInv, TypeInv
  <2>3. m.tx \in Called'
    BY <1>1, <2>1, <2>2, CalledGrows
  <2>4. Nodes' = Nodes /\ Topology' = Topology /\ Script' = Script
    BY <2>1, NetworkStays
  <2>5. /\ TypeInv'
        /\ \A k \in Msgs' : k.kind = "tx" => k.tx \in known'[k.from]
        /\ \A k \in Nodes : \A t \in known'[k] : \A p \in Topology[k] :
             t \in known'[p] \/ TxMsg(p, k, t) \in Msgs'
        /\ \A k \in Nodes : known[k] \subseteq known'[k]
    <3> DEFINE tx == m.tx
               from == m.from
               taken == {m}
    <3>1. /\ TxIsHandled(n, n, tx, from, taken) /\ from \in Nodes
          /\ tx \in Called' /\ tx \in known[from]
          /\ \A k \in taken : k.kind = "tx" /\ k.to = n /\ k.tx = tx
      BY <2>1, <2>2, <2>3
    <3> HIDE DEF tx, from, taken
    <3>2. n \in Goroutines /\ calls' \in 0..Len(Script)
      BY <1>1, <2>1
    <3> QED
      BY <2>1, <3>1, <3>2, TxIsSpread
  <2>6. \A i \in 1..calls' : Script[i].tx \in known'[Script[i].node]
    <3> SUFFICES ASSUME NEW i \in 1..calls
                 PROVE  Script[i].tx \in known'[Script[i].node]
      BY <2>1
    <3>1. Script[i].node \in Nodes
      BY <1>1, CalledIs
    <3> QED
      BY <2>5, <3>1 DEF KnownInv
  <2> QED
    BY <2>4, <2>5, <2>6 DEF KnownInv
<1>4. ASSUME NEW n \in Nodes, NEW m \in Msgs, VoteStep(n, m)
      PROVE  TypeInv' /\ KnownInv'
  <2> DEFINE v == m.vote
             from == m.from
             taken == {m}
  <2>1. /\ VoteIsHandled(n, v, from, taken)
        /\ UNCHANGED <<net, known, seq, lastVote, handler, calls>>
        /\ v.pubkey \in Nodes /\ v.label \in Labels /\ v.seq \in Nat
        /\ \A k \in taken : k.kind = "vote"
    BY <1>4 DEF VoteStep, VoteMsgOK, IsVoteOf
  <2>2. Nodes' = Nodes /\ Goroutines' = Goroutines /\ Labels' = Labels
        /\ Called' = Called
    BY <2>1, NetworkStays DEF Called
  <2>3. HandlersOK'
    BY <1>1, <2>1, <2>2 DEF HandlersOK, Idle
  <2> HIDE DEF v, from, taken
  <2> QED
    BY <2>1, <2>3, VoteKeepsTypes, VoteKeepsTxMsgs
<1>5. ASSUME NEW g \in Goroutines, NEW n \in Nodes,
             NumberStep(g, n) \/ LinkStep(g, n) \/ StoreStep(g, n)
      PROVE  TypeInv' /\ KnownInv'
  <2>1. /\ handler[g].node = n /\ (g \in Nodes => n = g)
        /\ UNCHANGED <<net, known, buckets, inFlight, calls, refused>>
    <3>1. /\ handler[g].node = n /\ handler[g].pc # "idle"
          /\ UNCHANGED <<net, known, buckets, inFlight, calls, refused>>
      BY <1>5 DEF NumberStep, LinkStep, StoreStep
    <3>2. g \in Nodes => handler[g].node = g
      BY <1>1, <3>1, PlaceIs
    <3> QED
      BY <3>1, <3>2
  <2>2. KnownInv'
    BY <2>1, KnownStays
  <2>3. CASE NumberStep(g, n)
    <3> DEFINE w == NewVote(n, handler[g].tx)
               h == [pc |-> "link", node |-> n, vote |-> w]
    <3>1. /\ handler[g].tx \in Called /\ GoesOn(g, h)
          /\ seq' = [seq EXCEPT ![n] = seq[n] + 1] /\ lastVote' = lastVote
      BY <2>3 DEF NumberStep
    <3>2. /\ w.label \in Labels /\ w.seq \in Nat
          /\ w = [pubkey |-> n, label |-> w.label, seq |-> w.seq,
                  txHash |-> w.txHash, time |-> 0, prevHash |-> w.prevHash]
      BY <1>1, <3>1, CalledIs DEF NewVote, TypeInv
    <3> HIDE DEF w
    <3>3. IsHandler(h, Nodes, Labels, Called) /\ h.node = n
      BY <3>2 DEF IsHandler
    <3> HIDE DEF h
    <3>4. seq' \in [Nodes -> Nat] /\ DOMAIN lastVote' = Nodes
      BY <3>1 DEF TypeInv
    <3> QED
      BY <2>1, <2>2, <3>1, <3>3, <3>4, GoesOnKeepsTypes
  <2>4. CASE LinkStep(g, n)
    <3> DEFINE old == handler[g]
               w == LinkedTo(old.vote, lastVote[n])
               h == [pc |-> "store", node |-> n, vote |-> w]
    <3>1. /\ GoesOn(g, h) /\ old.pc = "link"
          /\ seq' = seq /\ lastVote' = lastVote
      BY <2>4 DEF LinkStep
    <3>2. /\ old.vote.pubkey = n
          /\ old.vote.label \in Labels /\ old.vote.seq \in Nat
      BY <1>1, <2>1, <3>1, PlaceIs
    <3>3. /\ w.label \in Labels /\ w.seq \in Nat
          /\ w = [pubkey |-> n, label |-> w.label, seq |-> w.seq,
                  txHash |-> w.txHash, time |-> 0, prevHash |-> w.prevHash]
      BY <3>2 DEF LinkedTo
    <3> HIDE DEF w
    <3>4. IsHandler(h, Nodes, Labels, Called) /\ h.node = n
      BY <3>3 DEF IsHandler
    <3> HIDE DEF h
    <3>5. seq' \in [Nodes -> Nat] /\ DOMAIN lastVote' = Nodes
      BY <3>1 DEF TypeInv
    <3> QED
      BY <2>1, <2>2, <3>1, <3>4, <3>5, GoesOnKeepsTypes
  <2>5. CASE StoreStep(g, n)
    <3> DEFINE old == handler[g]
               h == [pc |-> "vote", node |-> n, vote |-> old.vote]
    <3>1. /\ GoesOn(g, h) /\ old.pc = "store"
          /\ seq' = seq /\ lastVote' = [lastVote EXCEPT ![n] = Hash(old.vote)]
      BY <2>5 DEF StoreStep
    <3>2. /\ old.vote = [pubkey |-> n, label |-> old.vote.label,
                         seq |-> old.vote.seq, txHash |-> old.vote.txHash,
                         time |-> 0, prevHash |-> old.vote.prevHash]
          /\ old.vote.label \in Labels /\ old.vote.seq \in Nat
      BY <1>1, <2>1, <3>1, PlaceIs
    <3>3. IsHandler(h, Nodes, Labels, Called) /\ h.node = n
      <4> HIDE DEF old
      <4> QED
        BY <3>2 DEF IsHandler
    <3>4. seq' \in [Nodes -> Nat] /\ DOMAIN lastVote' = Nodes
      BY <3>1 DEF TypeInv
    <3> HIDE DEF h
    <3> QED
      BY <2>1, <2>2, <3>1, <3>3, <3>4, GoesOnKeepsTypes
  <2> QED
    BY <1>5, <2>3, <2>4, <2>5
<1>6. ASSUME NEW g \in Goroutines, NEW n \in Nodes, OwnVoteStep(g, n)
      PROVE  TypeInv' /\ KnownInv'
  <2> PICK v : v = handler[g].vote /\ VoteIsHandled(n, v, n, {})
    BY <1>6 DEF OwnVoteStep
  <2>1. /\ VoteIsHandled(n, v, n, {}) /\ GoesOn(g, Idle)
        /\ UNCHANGED <<net, known, seq, lastVote, calls>>
        /\ v.pubkey \in Nodes /\ v.label \in Labels /\ v.seq \in Nat
    <3>1. handler[g].pc = "vote"
      BY <1>6 DEF OwnVoteStep
    <3>2. v.pubkey = handler[g].node
      BY <1>1, <3>1, PlaceIs
    <3> QED
      BY <1>1, <1>6, <3>1, <3>2, PlaceIs DEF OwnVoteStep
  <2>2. Called' = Called
    BY <2>1, NetworkStays DEF Called
  <2>3. IsHandler(Idle, Nodes, Labels, Called')
    BY DEF IsHandler
  <2>4. HandlersOK'
    BY <1>1, <2>1, <2>2, <2>3, HandlersAfter
  <2> QED
    BY <2>1, <2>4, VoteKeepsTypes, VoteKeepsTxMsgs
<1> QED
  BY <1>2, <1>3, <1>4, <1>5, <1>6 DEF Steps
-----------------------------------------------------------------------------
(* The gossip of votes                                                     *)

\* The votes of all nodes after one was handled.
LEMMA VotesAfter ==
  ASSUME NEW n \in Nodes, NEW v, NEW from, NEW taken,
         VoteIsHandled(n, v, from, taken)
  PROVE  \A k, p \in Nodes, j \in Labels :
           /\ Votes(k, p, j) \subseteq Votes(k, p, j)'
           /\ \A u \in Votes(k, p, j)' :
                \/ u \in Votes(k, p, j)
                \/ u = v /\ k = n /\ p = v.pubkey /\ j = v.label
<1> SUFFICES ASSUME NEW k \in Nodes, NEW p \in Nodes, NEW j \in Labels
             PROVE  /\ Votes(k, p, j) \subseteq Votes(k, p, j)'
                    /\ \A u \in Votes(k, p, j)' :
                         \/ u \in Votes(k, p, j)
                         \/ u = v /\ k = n /\ p = v.pubkey /\ j = v.label
  OBVIOUS
<1>1. CASE k = n /\ p = v.pubkey /\ j = v.label
  BY <1>1 DEF VoteIsHandled
<1>2. CASE ~(k = n /\ p = v.pubkey /\ j = v.label)
  <2>1. buckets'[k][p][j] = buckets[k][p][j]
    BY <1>2 DEF VoteIsHandled
  <2> QED
    BY <2>1 DEF Votes
<1> QED
  BY <1>1, <1>2

\* Goroutines that draw no number, and votes that are held already.
LEMMA NumbersStay ==
  ASSUME NumbersInv, net' = net, seq' = seq,
         \A k \in Goroutines : HasNumber(k)' =>
           /\ HasNumber(k)
           /\ handler'[k].node = handler[k].node
           /\ handler'[k].vote.seq = handler[k].vote.seq,
         \A n \in Nodes, l \in Labels : Votes(n, n, l)' = Votes(n, n, l)
  PROVE  NumbersInv'
<1>1. Nodes' = Nodes /\ Goroutines' = Goroutines /\ Labels' = Labels
  BY NetworkStays
<1>2. \A g \in Goroutines :
        HasNumber(g)' => handler'[g].vote.seq < seq'[handler'[g].node]
  BY DEF NumbersInv
<1>3. \A g, h \in Goroutines :
        HasNumber(g)' /\ HasNumber(h)' /\ g # h
        /\ handler'[g].node = handler'[h].node
        => handler'[g].vote.seq # handler'[h].vote.seq
  BY DEF NumbersInv
<1>4. \A n \in Nodes, l \in Labels : \A v \in Votes(n, n, l)' :
        /\ v.seq < seq'[n]
        /\ \A g \in Goroutines : HasNumber(g)' /\ handler'[g].node = n =>
             v.seq # handler'[g].vote.seq
        /\ \A u \in Votes(n, n, l)' : u.seq = v.seq => u = v
  BY DEF NumbersInv
<1> QED
  BY <1>1, <1>2, <1>3, <1>4 DEF NumbersInv

\* Neither the buckets nor the messages of votes change.
LEMMA GossipStays ==
  ASSUME GossipInv, UNCHANGED <<net, buckets>>,
         \A m : m \in Msgs' /\ m.kind = "vote"
                <=> m \in Msgs /\ m.kind = "vote"
  PROVE  GossipInv'
<1>1. Nodes' = Nodes /\ Topology' = Topology /\ Labels' = Labels
  BY NetworkStays
<1>2. \A n, q, l : Votes(n, q, l)' = Votes(n, q, l)
  BY DEF Votes
<1>3. \A n, v : Holds(n, v)' <=> Holds(n, v)
  BY <1>2 DEF Holds
<1>4. \A m \in Msgs' : m.kind = "vote" => Holds(m.from, m.vote)'
  BY <1>3 DEF GossipInv
<1>5. \A p, n, v : VoteMsg(p, n, v) \in Msgs => VoteMsg(p, n, v) \in Msgs'
  BY DEF VoteMsg
<1>6. \A n, q \in Nodes, l \in Labels : \A v \in Votes(n, q, l)' :
        /\ v \in Votes(q, q, l)'
        /\ \A p \in Topology[n] :
             v \in Votes(p, q, l)' \/ VoteMsg(p, n, v) \in Msgs'
  BY <1>2, <1>5 DEF GossipInv
<1> QED
  BY <1>1, <1>4, <1>6 DEF GossipInv

\* The first step of handleTx touches neither numbers nor votes.
LEMMA TxKeepsGossip ==
  ASSUME TypeInv, NumbersInv, GossipInv, NEW g \in Goroutines, NEW n \in Nodes,
         NEW tx, NEW from, NEW taken, TxIsHandled(g, n, tx, from, taken),
         \A m \in taken : m.kind = "tx"
  PROVE  NumbersInv' /\ GossipInv'
<1>1. /\ UNCHANGED <<net, buckets, seq>> /\ net \in Networks
      /\ Msgs \ taken \subseteq Msgs'
      /\ Msgs' \subseteq Msgs \cup Spread(n, tx, from)
  BY DEF TxIsHandled, TypeInv
<1>2. \A m : m \in Msgs' /\ m.kind = "vote" <=> m \in Msgs /\ m.kind = "vote"
  BY <1>1, SpreadIs
<1>3. GossipInv'
  BY <1>1, <1>2, GossipStays
<1>4. \A k \in Goroutines : HasNumber(k)' =>
        /\ HasNumber(k)
        /\ handler'[k].node = handler[k].node
        /\ handler'[k].vote.seq = handler[k].vote.seq
  <2> SUFFICES ASSUME NEW k \in Goroutines, HasNumber(k)'
               PROVE  handler'[k] = handler[k]
    BY DEF HasNumber
  <2>1. CASE handler' = handler
    BY <2>1
  <2>2. CASE GoesOn(g, [pc |-> "number", node |-> n, tx |-> tx])
    BY <2>2 DEF GoesOn, HasNumber
  <2> QED
    BY <2>1, <2>2 DEF TxIsHandled
<1>5. \A k \in Nodes, l \in Labels : Votes(k, k, l)' = Votes(k, k, l)
  BY <1>1 DEF Votes
<1>6. NumbersInv'
  BY <1>1, <1>4, <1>5, NumbersStay
<1> QED
  BY <1>3, <1>6

\* Vote v is known to its voter, and from node `from' it reaches node n, or the
\* voter n adds it.
LEMMA VoteIsPassedOn ==
  ASSUME TypeInv, NumbersInv, GossipInv, NEW n \in Nodes, NEW v,
         NEW from \in Nodes, NEW taken, VoteIsHandled(n, v, from, taken),
         net' = net, v.pubkey \in Nodes, v.label \in Labels, v.seq \in Nat,
         v \in Votes(n, v.pubkey, v.label)',
         v \in Votes(v.pubkey, v.pubkey, v.label)',
         v \in Votes(from, v.pubkey, v.label)',
         ~AddVote(buckets[n][v.pubkey][v.label], v).err,
         \A m \in taken : m.vote = v /\ m.to = n
  PROVE  GossipInv'
<1>1. Nodes' = Nodes /\ Topology' = Topology /\ Labels' = Labels
      /\ net \in Networks
  BY NetworkStays DEF TypeInv
<1>2. /\ Msgs \ taken \subseteq Msgs'
      /\ Msgs' \subseteq Msgs \cup PassedOn(n, v, from)
  BY DEF VoteIsHandled
<1>3. \A k, p \in Nodes, j \in Labels :
        /\ Votes(k, p, j) \subseteq Votes(k, p, j)'
        /\ \A u \in Votes(k, p, j)' :
             \/ u \in Votes(k, p, j)
             \/ u = v /\ k = n /\ p = v.pubkey /\ j = v.label
  BY VotesAfter
<1>4. \A m \in Msgs' : m.kind = "vote" => Holds(m.from, m.vote)'
  <2> SUFFICES ASSUME NEW m \in Msgs', m.kind = "vote"
               PROVE  m.vote \in Votes(m.from, m.vote.pubkey, m.vote.label)'
    BY DEF Holds
  <2>1. CASE m \in Msgs
    <3>1. /\ m.from \in Nodes /\ m.vote.pubkey \in Nodes
          /\ m.vote.label \in Labels
      BY <2>1 DEF TypeInv, MsgsOK, VoteMsgOK, TxMsgOK
    <3>2. m.vote \in Votes(m.from, m.vote.pubkey, m.vote.label)
      BY <2>1 DEF GossipInv, Holds
    <3> QED
      BY <1>3, <3>1, <3>2
  <2>2. CASE m \in PassedOn(n, v, from)
    BY <1>1, <2>2, PassedOnIs
  <2> QED
    BY <1>2, <2>1, <2>2
<1>5. ASSUME NEW k \in Nodes, NEW q \in Nodes, NEW j \in Labels,
             NEW u \in Votes(k, q, j)'
      PROVE  /\ u \in Votes(q, q, j)'
             /\ \A p \in Topology[k] :
                  u \in Votes(p, q, j)' \/ VoteMsg(p, k, u) \in Msgs'
  <2>1. CASE u \in Votes(k, q, j)
    <3>1. u \in Votes(q, q, j)'
      BY <1>3, <2>1 DEF GossipInv
    <3>2. ASSUME NEW p \in Topology[k]
          PROVE  u \in Votes(p, q, j)' \/ VoteMsg(p, k, u) \in Msgs'
      <4>1. p \in Nodes
        BY <1>1, NetworkIs
      <4>2. u \in Votes(p, q, j) \/ VoteMsg(p, k, u) \in Msgs
        BY <2>1 DEF GossipInv
      <4>3. CASE VoteMsg(p, k, u) \in taken
        <5>1. u = v /\ p = n
          BY <4>3 DEF VoteMsg
        <5>2. u.pubkey = q /\ u.label = j
          BY <2>1 DEF TypeInv, BucketsOK, BucketOK, IsVoteOf, Votes
        <5> QED
          BY <5>1, <5>2
      <4>4. CASE VoteMsg(p, k, u) \notin taken
        BY <1>2, <1>3, <4>1, <4>2, <4>4
      <4> QED
        BY <4>3, <4>4
    <3> QED
      BY <3>1, <3>2
  <2>2. CASE u \notin Votes(k, q, j)
    <3>1. u = v /\ k = n /\ q = v.pubkey /\ j = v.label
      BY <1>3, <2>2
    <3>2. buckets'[n][q][j] # buckets[n][q][j]
      BY <2>2, <3>1 DEF Votes
    <3>3. PassedOn(n, v, from) \subseteq Msgs'
      BY <3>1, <3>2 DEF VoteIsHandled
    <3>4. ASSUME NEW p \in Topology[k]
          PROVE  u \in Votes(p, q, j)' \/ VoteMsg(p, k, u) \in Msgs'
      <4>1. CASE p \in {from, v.pubkey}
        BY <3>1, <4>1
      <4>2. CASE p \notin {from, v.pubkey}
        BY <3>1, <3>3, <4>2 DEF PassedOn
      <4> QED
        BY <4>1, <4>2
    <3> QED
      BY <3>1, <3>4
  <2> QED
    BY <2>1, <2>2
<1> QED
  BY <1>1, <1>4, <1>5 DEF GossipInv

\* A vote that another node passed on.
LEMMA VoteKeepsGossip ==
  ASSUME TypeInv, NumbersInv, GossipInv, NEW n \in Nodes, NEW m \in Msgs,
         VoteStep(n, m), refused' = {}
  PROVE  NumbersInv' /\ GossipInv'
<1> DEFINE v == m.vote
           q == v.pubkey
           l == v.label
           from == m.from
           taken == {m}
<1>1. /\ VoteIsHandled(n, v, from, taken)
      /\ UNCHANGED <<net, seq, handler>>
      /\ from \in Nodes /\ q \in Nodes /\ l \in Labels /\ v.seq \in Nat
      /\ \A k \in taken : k.vote = v /\ k.to = n
  BY DEF VoteStep, VoteMsgOK, IsVoteOf
<1>2. v \in Votes(from, q, l)
  BY DEF VoteStep, GossipInv, Holds
<1> HIDE DEF v, from, taken
<1>3. v \in Votes(q, q, l)
  BY <1>1, <1>2 DEF GossipInv
<1>4. ~AddVote(buckets[n][q][l], v).err
  BY <1>1 DEF VoteIsHandled
<1>5. v \in Votes(n, q, l)'
  <2>1. CASE v \in Votes(n, q, l)'
    BY <2>1
  <2>2. ASSUME NEW u \in Votes(n, q, l), u.seq = v.seq
        PROVE  v \in Votes(n, q, l)'
    <3>1. u \in Votes(q, q, l)
      BY <1>1 DEF GossipInv
    <3>2. u = v
      BY <1>1, <1>3, <2>2, <3>1 DEF NumbersInv
    <3>3. Votes(n, q, l) \subseteq Votes(n, q, l)'
      BY <1>1 DEF VoteIsHandled
    <3> QED
      BY <3>2, <3>3
  <2>3. v \in Votes(n, q, l)' \/ \E u \in Votes(n, q, l) : u.seq = v.seq
    BY <1>1, <1>4 DEF VoteIsHandled
  <2> QED
    BY <2>1, <2>2, <2>3
<1>6. \A k, p \in Nodes, j \in Labels :
        /\ Votes(k, p, j) \subseteq Votes(k, p, j)'
        /\ \A u \in Votes(k, p, j)' :
             \/ u \in Votes(k, p, j)
             \/ u = v /\ k = n /\ p = v.pubkey /\ j = v.label
  BY <1>1, VotesAfter
<1>7. v \in Votes(q, q, l)' /\ v \in Votes(from, q, l)'
  BY <1>1, <1>2, <1>3, <1>6
<1>8. GossipInv'
  BY <1>1, <1>4, <1>5, <1>7, VoteIsPassedOn
<1>9. \A k \in Nodes, j \in Labels : Votes(k, k, j)' = Votes(k, k, j)
  BY <1>3, <1>6
<1>10. \A k \in Goroutines : HasNumber(k)' =>
         /\ HasNumber(k)
         /\ handler'[k].node = handler[k].node
         /\ handler'[k].vote.seq = handler[k].vote.seq
  BY <1>1 DEF HasNumber
<1>11. NumbersInv'
  BY <1>1, <1>9, <1>10, NumbersStay
<1> QED
  BY <1>8, <1>11

\* A vote of the node's own.
LEMMA OwnVoteKeepsGossip ==
  ASSUME TypeInv, NumbersInv, GossipInv, NEW g \in Goroutines, NEW n \in Nodes,
         OwnVoteStep(g, n), refused' = {}
  PROVE  NumbersInv' /\ GossipInv'
<1> PICK v : v = handler[g].vote /\ VoteIsHandled(n, v, n, {})
  BY DEF OwnVoteStep
<1> DEFINE l == v.label
<1>1. /\ VoteIsHandled(n, v, n, {}) /\ GoesOn(g, Idle)
      /\ UNCHANGED <<net, seq>> /\ handler[g].node = n /\ HasNumber(g)
  BY DEF OwnVoteStep, HasNumber
<1>2. v.pubkey = n /\ l \in Labels /\ v.seq \in Nat
  BY <1>1, PlaceIs DEF TypeInv, HasNumber
<1>3. ~AddVote(buckets[n][n][l], v).err
  BY <1>1, <1>2 DEF VoteIsHandled
<1>4. /\ v.seq < seq[n]
      /\ \A u \in Votes(n, n, l) : u.seq # v.seq
      /\ \A k \in Goroutines :
           k # g /\ HasNumber(k) /\ handler[k].node = n =>
             handler[k].vote.seq # v.seq
  BY <1>1, <1>2 DEF NumbersInv
<1>5. v \in Votes(n, n, l)'
  BY <1>1, <1>2, <1>3, <1>4 DEF VoteIsHandled
<1>6. \A k, p \in Nodes, j \in Labels :
        /\ Votes(k, p, j) \subseteq Votes(k, p, j)'
        /\ \A u \in Votes(k, p, j)' :
             \/ u \in Votes(k, p, j)
             \/ u = v /\ k = n /\ p = v.pubkey /\ j = v.label
  BY <1>1, VotesAfter
<1>7. GossipInv'
  <2> DEFINE none == {}
  <2>1. VoteIsHandled(n, v, n, none) /\ \A m \in none : m.vote = v /\ m.to = n
    BY <1>1
  <2> HIDE DEF none
  <2> QED
    BY <1>1, <1>2, <1>3, <1>5, <2>1, VoteIsPassedOn
<1>8. Nodes' = Nodes /\ Goroutines' = Goroutines /\ Labels' = Labels
  BY <1>1, NetworkStays
<1>9. \A k \in Goroutines : HasNumber(k)' =>
        k # g /\ HasNumber(k) /\ handler'[k] = handler[k]
  BY <1>1 DEF HasNumber, GoesOn, Idle
<1>10. \A k \in Goroutines :
         HasNumber(k)' => handler'[k].vote.seq < seq'[handler'[k].node]
  BY <1>1, <1>9 DEF NumbersInv
<1>11. \A h, k \in Goroutines :
         HasNumber(h)' /\ HasNumber(k)' /\ h # k
         /\ handler'[h].node = handler'[k].node
         => handler'[h].vote.seq # handler'[k].vote.seq
  BY <1>9 DEF NumbersInv
<1>12. ASSUME NEW k \in Nodes, NEW j \in Labels, NEW w \in Votes(k, k, j)'
       PROVE  /\ w.seq < seq'[k]
              /\ \A h \in Goroutines : HasNumber(h)' /\ handler'[h].node = k =>
                   w.seq # handler'[h].vote.seq
              /\ \A u \in Votes(k, k, j)' : u.seq = w.seq => u = w
  <2>1. CASE w \in Votes(k, k, j)
    <3>1. /\ w.seq < seq'[k]
          /\ \A h \in Goroutines : HasNumber(h)' /\ handler'[h].node = k =>
               w.seq # handler'[h].vote.seq
      BY <1>1, <1>9, <2>1 DEF NumbersInv
    <3>2. ASSUME NEW u \in Votes(k, k, j)', u.seq = w.seq PROVE u = w
      <4>1. CASE u \in Votes(k, k, j)
        BY <2>1, <3>2, <4>1 DEF NumbersInv
      <4>2. CASE u \notin Votes(k, k, j)
        <5>1. u = v /\ k = n /\ j = l
          BY <1>6, <4>2
        <5> QED
          BY <1>4, <2>1, <3>2, <5>1
      <4> QED
        BY <4>1, <4>2
    <3> QED
      BY <3>1, <3>2
  <2>2. CASE w \notin Votes(k, k, j)
    <3>1. w = v /\ k = n /\ j = l
      BY <1>6, <2>2
    <3>2. w.seq < seq'[k]
      BY <1>1, <1>4, <3>1
    <3>3. \A h \in Goroutines : HasNumber(h)' /\ handler'[h].node = k =>
            w.seq # handler'[h].vote.seq
      BY <1>4, <1>9, <3>1
    <3>4. ASSUME NEW u \in Votes(k, k, j)', u.seq = w.seq PROVE u = w
      <4>1. u \notin Votes(k, k, j)
        BY <1>4, <3>1, <3>4
      <4> QED
        BY <1>6, <3>1, <4>1
    <3> QED
      BY <3>2, <3>3, <3>4
  <2> QED
    BY <2>1, <2>2
<1>13. NumbersInv'
  BY <1>8, <1>10, <1>11, <1>12 DEF NumbersInv
<1> QED
  BY <1>7, <1>13

\* A goroutine that keeps its number, and changes neither votes nor messages.
LEMMA GoesOnKeepsGossip ==
  ASSUME NumbersInv, GossipInv, NEW g \in Goroutines, NEW h, GoesOn(g, h),
         HasNumber(g), h.node = handler[g].node,
         h.vote.seq = handler[g].vote.seq,
         UNCHANGED <<net, buckets, seq, inFlight>>
  PROVE  NumbersInv' /\ GossipInv'
<1>1. GossipInv'
  BY GossipStays DEF Msgs
<1>2. \A k \in Goroutines : HasNumber(k)' =>
        /\ HasNumber(k)
        /\ handler'[k].node = handler[k].node
        /\ handler'[k].vote.seq = handler[k].vote.seq
  BY DEF GoesOn, HasNumber
<1>3. \A n \in Nodes, l \in Labels : Votes(n, n, l)' = Votes(n, n, l)
  BY DEF Votes
<1>4. NumbersInv'
  BY <1>2, <1>3, NumbersStay
<1> QED
  BY <1>1, <1>4

\* A goroutine draws a number that no vote of its node has.
LEMMA NumberKeepsGossip ==
  ASSUME TypeInv, NumbersInv, GossipInv, NEW g \in Goroutines, NEW n \in Nodes,
         NumberStep(g, n)
  PROVE  NumbersInv' /\ GossipInv'
<1> DEFINE tx == handler[g].tx
           h == [pc |-> "link", node |-> n, vote |-> NewVote(n, tx)]
<1>1. /\ UNCHANGED <<net, buckets, inFlight>>
      /\ seq' = [seq EXCEPT ![n] = seq[n] + 1]
      /\ GoesOn(g, h)
      /\ handler[g].pc = "number"
      /\ seq \in [Nodes -> Nat] /\ HandlersOK
  BY DEF NumberStep, TypeInv
<1>2. h.node = n /\ h.vote.seq = seq[n]
  BY DEF NewVote
<1> HIDE DEF h
<1>3. GossipInv'
  BY <1>1, GossipStays DEF Msgs
<1>4. Nodes' = Nodes /\ Goroutines' = Goroutines /\ Labels' = Labels
  BY <1>1, NetworkStays
<1>5. \A k \in Goroutines : HasNumber(k)' =>
        \/ k = g /\ handler'[k] = h
        \/ k # g /\ HasNumber(k) /\ handler'[k] = handler[k]
  BY <1>1 DEF GoesOn, HasNumber
<1>6. \A k \in Goroutines : HasNumber(k) =>
        /\ handler[k].node \in Nodes /\ handler[k].vote.seq \in Nat
        /\ handler[k].vote.seq < seq[handler[k].node]
  BY <1>1, PlaceIs DEF NumbersInv, HasNumber
<1>7. /\ seq[n] \in Nat /\ seq'[n] = seq[n] + 1
      /\ \A k \in Nodes : k # n => seq'[k] = seq[k]
  BY <1>1
<1>8. \A k \in Goroutines :
        HasNumber(k)' => handler'[k].vote.seq < seq'[handler'[k].node]
  <2> SUFFICES ASSUME NEW k \in Goroutines, HasNumber(k)'
               PROVE  handler'[k].vote.seq < seq'[handler'[k].node]
    OBVIOUS
  <2>1. CASE k = g /\ handler'[k] = h
    BY <1>2, <1>7, <2>1
  <2>2. CASE k # g /\ HasNumber(k) /\ handler'[k] = handler[k]
    <3>1. /\ handler[k].node \in Nodes /\ handler[k].vote.seq \in Nat
          /\ handler[k].vote.seq < seq[handler[k].node]
      BY <1>6, <2>2
    <3>2. seq[handler[k].node] \in Nat
      BY <1>1, <3>1
    <3> QED
      BY <1>7, <2>2, <3>1, <3>2
  <2> QED
    BY <1>5, <2>1, <2>2
<1>9. \A j, k \in Goroutines :
        HasNumber(j)' /\ HasNumber(k)' /\ j # k
        /\ handler'[j].node = handler'[k].node
        => handler'[j].vote.seq # handler'[k].vote.seq
  <2>1. \A k \in Goroutines : HasNumber(k) /\ handler[k].node = n =>
          handler[k].vote.seq # seq[n]
    BY <1>6, <1>7
  <2> QED
    BY <1>2, <1>5, <2>1 DEF NumbersInv
<1>10. \A k \in Nodes, l \in Labels : Votes(k, k, l)' = Votes(k, k, l)
  BY <1>1 DEF Votes
<1>11. ASSUME NEW k \in Nodes, NEW l \in Labels, NEW v \in Votes(k, k, l)'
       PROVE  /\ v.seq < seq'[k]
              /\ \A j \in Goroutines : HasNumber(j)' /\ handler'[j].node = k =>
                   v.seq # handler'[j].vote.seq
              /\ \A u \in Votes(k, k, l)' : u.seq = v.seq => u = v
  <2>1. /\ v.seq < seq[k]
        /\ \A j \in Goroutines : HasNumber(j) /\ handler[j].node = k =>
             v.seq # handler[j].vote.seq
        /\ \A u \in Votes(k, k, l) : u.seq = v.seq => u = v
    BY <1>10 DEF NumbersInv
  <2>2. v.seq \in Nat /\ seq[k] \in Nat
    BY <1>1, <1>10 DEF TypeInv, BucketsOK, BucketOK, IsVoteOf, Votes
  <2>3. v.seq < seq'[k]
    BY <1>7, <2>1, <2>2
  <2>4. ASSUME NEW j \in Goroutines, HasNumber(j)', handler'[j].node = k
        PROVE  v.seq # handler'[j].vote.seq
    <3>1. CASE j = g /\ handler'[j] = h
      BY <1>2, <2>1, <2>2, <2>4, <3>1
    <3>2. CASE j # g /\ HasNumber(j) /\ handler'[j] = handler[j]
      BY <2>1, <2>4, <3>2
    <3> QED
      BY <1>5, <2>4, <3>1, <3>2
  <2> QED
    BY <1>10, <2>1, <2>3, <2>4
<1>12. NumbersInv'
  BY <1>4, <1>8, <1>9, <1>11 DEF NumbersInv
<1> QED
  BY <1>3, <1>12

\* A refused vote stays one.
LEMMA RefusedGrows ==
  ASSUME Steps
  PROVE  refused \subseteq refused'
<1>1. CASE CallStep
  BY <1>1 DEF CallStep, TxIsHandled
<1>2. ASSUME NEW n \in Nodes, NEW m \in Msgs, TxStep(n, m) \/ VoteStep(n, m)
      PROVE  refused \subseteq refused'
  <2>1. CASE TxStep(n, m)
    BY <2>1 DEF TxStep, TxIsHandled
  <2>2. CASE VoteStep(n, m)
    <3> DEFINE v == m.vote
    <3>1. VoteIsHandled(n, v, m.from, {m})
      BY <2>2 DEF VoteStep
    <3> HIDE DEF v
    <3>2. refused' = refused \/ refused' = refused \cup {v}
      BY <3>1 DEF VoteIsHandled
    <3> QED
      BY <3>2
  <2> QED
    BY <1>2, <2>1, <2>2
<1>3. ASSUME NEW g \in Goroutines, NEW n \in Nodes,
             \/ NumberStep(g, n) \/ LinkStep(g, n) \/ StoreStep(g, n)
             \/ OwnVoteStep(g, n)
      PROVE  refused \subseteq refused'
  <2>1. CASE NumberStep(g, n) \/ LinkStep(g, n) \/ StoreStep(g, n)
    BY <2>1 DEF NumberStep, LinkStep, StoreStep
  <2>2. CASE OwnVoteStep(g, n)
    <3>1. PICK v : VoteIsHandled(n, v, n, {})
      BY <2>2 DEF OwnVoteStep
    <3>2. refused' = refused \/ refused' = refused \cup {v}
      BY <3>1 DEF VoteIsHandled
    <3> QED
      BY <3>2
  <2> QED
    BY <1>3, <2>1, <2>2
<1> QED
  BY <1>1, <1>2, <1>3 DEF Steps

\* While no vote is refused, numbers and gossip are kept.
LEMMA GossipNext ==
  ASSUME TypeInv, refused = {} => NumbersInv /\ GossipInv, Steps, refused' = {}
  PROVE  NumbersInv' /\ GossipInv'
<1>1. /\ Nodes \subseteq Goroutines /\ Main \in Goroutines
      /\ HandlersOK /\ net \in Networks /\ calls \in 0..Len(Script)
      /\ Len(Script) \in Nat
  BY CalledIs DEF Goroutines, TypeInv
<1>2. refused = {}
  BY RefusedGrows
<1>3. NumbersInv /\ GossipInv
  BY <1>2
<1>4. CASE CallStep
  <2> DEFINE n == Script[calls + 1].node
             tx == Script[calls + 1].tx
             none == {}
  <2>1. TxIsHandled(Main, n, tx, n, none) /\ \A m \in none : m.kind = "tx"
    BY <1>4 DEF CallStep
  <2>2. n \in Nodes
    BY <1>1, <1>4, CalledIs DEF CallStep
  <2> HIDE DEF n, tx, none
  <2> QED
    BY <1>1, <1>3, <2>1, <2>2, TxKeepsGossip
<1>5. ASSUME NEW n \in Nodes, NEW m \in Msgs, TxStep(n, m)
      PROVE  NumbersInv' /\ GossipInv'
  <2> DEFINE tx == m.tx
             from == m.from
             taken == {m}
  <2>1. TxIsHandled(n, n, tx, from, taken) /\ \A k \in taken : k.kind = "tx"
    BY <1>5 DEF TxStep
  <2> HIDE DEF tx, from, taken
  <2> QED
    BY <1>1, <1>3, <2>1, TxKeepsGossip
<1>6. ASSUME NEW n \in Nodes, NEW m \in Msgs, VoteStep(n, m)
      PROVE  NumbersInv' /\ GossipInv'
  BY <1>3, <1>6, VoteKeepsGossip
<1>7. ASSUME NEW g \in Goroutines, NEW n \in Nodes, NumberStep(g, n)
      PROVE  NumbersInv' /\ GossipInv'
  BY <1>3, <1>7, NumberKeepsGossip
<1>8. ASSUME NEW g \in Goroutines, NEW n \in Nodes, LinkStep(g, n)
      PROVE  NumbersInv' /\ GossipInv'
  <2> DEFINE h == [pc |-> "store", node |-> n,
                   vote |-> LinkedTo(handler[g].vote, lastVote[n])]
  <2>1. /\ GoesOn(g, h) /\ UNCHANGED <<net, buckets, seq, inFlight>>
        /\ HasNumber(g)
        /\ h.node = handler[g].node /\ h.vote.seq = handler[g].vote.seq
    BY <1>8 DEF LinkStep, LinkedTo, HasNumber
  <2> HIDE DEF h
  <2> QED
    BY <1>3, <2>1, GoesOnKeepsGossip
<1>9. ASSUME NEW g \in Goroutines, NEW n \in Nodes, StoreStep(g, n)
      PROVE  NumbersInv' /\ GossipInv'
  <2> DEFINE h == [pc |-> "vote", node |-> n, vote |-> handler[g].vote]
  <2>1. /\ GoesOn(g, h) /\ UNCHANGED <<net, buckets, seq, inFlight>>
        /\ HasNumber(g)
        /\ h.node = handler[g].node /\ h.vote.seq = handler[g].vote.seq
    BY <1>9 DEF StoreStep, HasNumber
  <2> HIDE DEF h
  <2> QED
    BY <1>3, <2>1, GoesOnKeepsGossip
<1>10. ASSUME NEW g \in Goroutines, NEW n \in Nodes, OwnVoteStep(g, n)
       PROVE  NumbersInv' /\ GossipInv'
  BY <1>3, <1>10, OwnVoteKeepsGossip
<1> QED
  BY <1>4, <1>5, <1>6, <1>7, <1>8, <1>9, <1>10 DEF Steps

-----------------------------------------------------------------------------
(* The hashes of the votes of calls that wait for each other               *)

\* Function f has the hashes of the votes of the first n calls.
AreLinks(f, n) ==
  /\ f = [i \in 0..n |-> f[i]]
  /\ \A i \in 0..n :
       f[i] = IF i = 0 THEN NoHash ELSE <<i - 1, Script[i].tx, 0, f[i-1]>>

\* There are such hashes, by the least number of calls without.
LEMMA LinksExist ==
  ASSUME NEW n \in Nat
  PROVE  \E f : AreLinks(f, n)
<1> DEFINE Bad == {k \in Nat : ~ \E f : AreLinks(f, k)}
<1> SUFFICES ASSUME Bad # {} PROVE FALSE
  OBVIOUS
<1>1. Bad \in SUBSET Nat
  OBVIOUS
<1> HIDE DEF Bad
<1>2. PICK m \in Bad : \A k \in Bad : m <= k
  BY <1>1, LeastExists
<1>3. m \in Nat
  BY <1>1
<1> USE DEF Bad
<1>4. CASE m = 0
  <2>1. AreLinks([i \in 0..0 |-> NoHash], 0)
    BY DEF AreLinks
  <2> QED
    BY <2>1, <1>4
<1>5. CASE m > 0
  <2>1. m - 1 \in Nat /\ m - 1 \notin Bad
    BY <1>2, <1>3, <1>5
  <2>2. PICK f : AreLinks(f, m - 1)
    BY <2>1
  <2> DEFINE e == <<m - 1, Script[m].tx, 0, f[m-1]>>
             h == [i \in 0..m |-> IF i < m THEN f[i] ELSE e]
  <2>3. ASSUME NEW i \in 0..m
        PROVE  h[i] = IF i = 0 THEN NoHash
                      ELSE <<i - 1, Script[i].tx, 0, h[i-1]>>
    <3>1. CASE i < m
      <4>1. i \in 0..(m-1) /\ h[i] = f[i]
        BY <3>1, <1>3
      <4>2. i # 0 => h[i-1] = f[i-1]
        BY <3>1, <1>3
      <4>3. f[i] = IF i = 0 THEN NoHash
                   ELSE <<i - 1, Script[i].tx, 0, f[i-1]>>
        BY <4>1, <2>2 DEF AreLinks
      <4> QED
        BY <4>1, <4>2, <4>3
    <3>2. CASE i = m
      <4>1. h[m-1] = f[m-1] /\ h[m] = e
        BY <1>3, <1>5
      <4> HIDE DEF h
      <4> QED
        BY <4>1, <3>2, <1>3, <1>5
    <3> QED
      BY <3>1, <3>2, <1>3
  <2>4. h = [i \in 0..m |-> h[i]]
    OBVIOUS
  <2>5. AreLinks(h, m)
    <3> HIDE DEF h
    <3> QED
      BY <2>3, <2>4 DEF AreLinks
  <2> QED
    BY <2>5
<1> QED
  BY <1>3, <1>4, <1>5

\* Links has them.
LEMMA LinksAre ==
  ASSUME Len(Script) \in Nat
  PROVE  /\ Links[0] = NoHash
         /\ \A i \in 1..Len(Script) :
              Links[i] = <<i - 1, Script[i].tx, 0, Links[i-1]>>
<1> DEFINE n == Len(Script)
           step(f, i) == IF i = 0 THEN NoHash
                         ELSE <<i - 1, Script[i].tx, 0, f[i-1]>>
           links == CHOOSE f : f = [i \in 0..n |-> step(f, i)]
<1>1. Links = links
  BY DEF Links
<1>2. PICK g : AreLinks(g, n)
  BY LinksExist
<1>3. g = [i \in 0..n |-> step(g, i)]
  BY <1>2 DEF AreLinks
<1>4. links = [i \in 0..n |-> step(links, i)]
  BY <1>3
<1> HIDE DEF links
<1>5. \A i \in 0..n : links[i] = step(links, i)
  BY <1>4
<1>6. 0 \in 0..n /\ \A i \in 1..n : i \in 0..n /\ i # 0
  OBVIOUS
<1>7. links[0] = NoHash
  BY <1>5, <1>6
<1>8. ASSUME NEW i \in 1..n
      PROVE  links[i] = <<i - 1, Script[i].tx, 0, links[i-1]>>
  BY <1>5, <1>6
<1> QED
  BY <1>1, <1>7, <1>8

-----------------------------------------------------------------------------
(* When no message is on its way                                           *)

\* All nodes know the transactions of all calls.
LEMMA KnownByAll ==
  ASSUME TypeInv, KnownInv, Msgs = {}
  PROVE  \A n \in Nodes : known[n] = Called
<1>1. net \in Networks /\ calls \in 0..Len(Script)
  BY DEF TypeInv
<1> SUFFICES ASSUME NEW n \in Nodes, NEW i \in 1..calls
             PROVE  Script[i].tx \in known[n]
  BY DEF Called, TypeInv
<1> DEFINE S == {k \in Nodes : Script[i].tx \in known[k]}
<1>2. Script[i].node \in S
  BY <1>1, CalledIs DEF KnownInv
<1>3. \A k \in S : Topology[k] \subseteq S
  BY <1>1, NetworkIs DEF KnownInv
<1>4. S \in SUBSET Nodes /\ S # {}
  BY <1>2
<1> HIDE DEF S
<1>5. S = Nodes
  BY <1>1, <1>3, <1>4, ReachesAll
<1> QED
  BY <1>5 DEF S

\* All nodes hold the same votes.
LEMMA HeldByAll ==
  ASSUME TypeInv, GossipInv, Msgs = {}
  PROVE  \A n, m, q \in Nodes, l \in Labels :
           Votes(n, q, l) \subseteq Votes(m, q, l)
<1>1. net \in Networks
  BY DEF TypeInv
<1> SUFFICES ASSUME NEW n \in Nodes, NEW m \in Nodes, NEW q \in Nodes,
                    NEW l \in Labels, NEW v \in Votes(n, q, l)
             PROVE  v \in Votes(m, q, l)
  OBVIOUS
<1> DEFINE S == {k \in Nodes : v \in Votes(k, q, l)}
<1>2. n \in S
  OBVIOUS
<1>3. \A k \in S : Topology[k] \subseteq S
  BY <1>1, NetworkIs DEF GossipInv
<1>4. S \in SUBSET Nodes /\ S # {}
  BY <1>2
<1> HIDE DEF S
<1>5. S = Nodes
  BY <1>1, <1>3, <1>4, ReachesAll
<1> QED
  BY <1>5 DEF S

-----------------------------------------------------------------------------
(* The same view                                                           *)

\* A new network holds nothing.
LEMMA NewNetworkIs ==
  ASSUME Init
  PROVE  /\ TypeInv /\ KnownInv /\ NumbersInv /\ GossipInv
         /\ Called = {} /\ Msgs = {}
         /\ \A n, p \in Nodes, l \in Labels : Votes(n, p, l) = {}
<1>1. /\ net \in Networks
      /\ known = [n \in Nodes |-> {}]
      /\ buckets = [n \in Nodes |-> [p \in Nodes |->
                                       [l \in Labels |-> newPeerBucket]]]
      /\ seq = [n \in Nodes |-> 0]
      /\ lastVote = [n \in Nodes |-> NoHash]
      /\ inFlight = EmptyBag
      /\ handler = [g \in Goroutines |-> Idle]
      /\ calls = 0
  BY DEF Init, NewNetwork
<1>2. Msgs = {} /\ Called = {}
  BY <1>1, NothingInFlight DEF Called
<1>3. IsABag(inFlight)
  BY <1>1 DEF IsABag, EmptyBag, SetToBag
<1>4. \A g \in Goroutines : handler[g] = Idle /\ handler[g].pc = "idle"
  BY <1>1 DEF Idle
<1>5. \A n, p \in Nodes, l \in Labels : buckets[n][p][l] = newPeerBucket
  BY <1>1
<1>6. ToSet(newPeerBucket.votes) = {}
  BY DEF newPeerBucket, ToSet
<1>7. \A n, p \in Nodes, l \in Labels : Votes(n, p, l) = {}
  BY <1>5, <1>6 DEF Votes
<1>8. \A p \in Nodes, l \in Labels : BucketOK(newPeerBucket, p, l)
  <2>1. newPeerBucket \in BucketsOf({}, {})
    BY DEF newPeerBucket, BucketsOf
  <2> QED
    BY <1>6, <2>1 DEF BucketOK
<1>9. BucketsOK
  BY <1>1, <1>5, <1>8 DEF BucketsOK
<1>10. HandlersOK
  BY <1>1, <1>4 DEF HandlersOK, IsHandler, Goroutines
<1>11. Len(Script) \in Nat
  BY <1>1, NetworkIs, SeqOfElements
<1>12. TypeInv
  BY <1>1, <1>2, <1>3, <1>9, <1>10, <1>11 DEF TypeInv, MsgsOK
<1>13. KnownInv
  BY <1>1, <1>2 DEF KnownInv
<1>14. NumbersInv /\ GossipInv
  BY <1>2, <1>4, <1>7 DEF NumbersInv, GossipInv, HasNumber
<1> QED
  BY <1>2, <1>7, <1>12, <1>13, <1>14

\* A step that changes nothing keeps it.
LEMMA GossipingStutters ==
  ASSUME GossipingInv, UNCHANGED vars
  PROVE  GossipingInv'
<1>1. /\ Nodes' = Nodes /\ Goroutines' = Goroutines
      /\ Topology' = Topology /\ Script' = Script
      /\ Labels' = Labels /\ Called' = Called /\ Msgs' = Msgs
  BY NetworkStays DEF vars, Called, Msgs
<1>2. UNCHANGED <<net, known, buckets, seq, lastVote, inFlight, handler, calls,
                  refused>>
  BY DEF vars
<1>3. \A n, q, l : Votes(n, q, l)' = Votes(n, q, l)
  BY <1>2 DEF Votes
<1>4. TypeInv' /\ KnownInv'
  BY <1>1, <1>2
  DEF GossipingInv, TypeInv, KnownInv, BucketsOK, BucketOK, IsVoteOf, MsgsOK,
      TxMsgOK, VoteMsgOK, HandlersOK
<1>5. refused = {} => NumbersInv' /\ GossipInv'
  BY <1>1, <1>2, <1>3
  DEF GossipingInv, NumbersInv, HasNumber, GossipInv, Holds
<1> QED
  BY <1>2, <1>4, <1>5 DEF GossipingInv

\* It holds at all times.
LEMMA GossipingInvariant == Spec => []GossipingInv
<1>1. Init => GossipingInv
  BY NewNetworkIs DEF GossipingInv
<1>2. GossipingInv /\ [Next]_vars => GossipingInv'
  <2> SUFFICES ASSUME GossipingInv, [Next]_vars PROVE GossipingInv'
    OBVIOUS
  <2>1. CASE Next
    <3>1. Steps
      BY <2>1, NextIs DEF GossipingInv
    <3>2. TypeInv' /\ KnownInv'
      BY <3>1, KnownNext DEF GossipingInv
    <3>3. refused' = {} => NumbersInv' /\ GossipInv'
      BY <3>1, GossipNext DEF GossipingInv
    <3> QED
      BY <3>2, <3>3 DEF GossipingInv
  <2>2. CASE UNCHANGED vars
    BY <2>2, GossipingStutters
  <2> QED
    BY <2>1, <2>2
<1> QED
  BY <1>1, <1>2, PTL DEF Spec

\* Once nothing is under way, all nodes hold the transactions of all calls and
\* the same votes, over any connected network.
THEOREM SameViews == Spec => []SameViewWhenQuiet
<1>1. GossipingInv => SameViewWhenQuiet
  <2> SUFFICES ASSUME GossipingInv, Quiet, NEW n \in Nodes, NEW m \in Nodes
               PROVE  /\ known[n] = Called
                      /\ refused = {} => VotesHeld(n) = VotesHeld(m)
    BY DEF SameViewWhenQuiet
  <2>1. Msgs = {}
    BY NothingInFlight DEF Quiet, WgIsZero
  <2>2. known[n] = Called
    BY <2>1, KnownByAll DEF GossipingInv
  <2>3. ASSUME refused = {}
        PROVE  VotesHeld(n) = VotesHeld(m)
    <3>1. \A p \in Nodes, l \in Labels : Votes(n, p, l) = Votes(m, p, l)
      BY <2>1, <2>3, HeldByAll DEF GossipingInv
    <3> QED
      BY <3>1 DEF VotesHeld, Votes
  <2> QED
    BY <2>2, <2>3
<1> QED
  BY <1>1, GossipingInvariant, PTL

-----------------------------------------------------------------------------
(* The votes of calls that wait for each other                             *)

\* The votes for the calls depend on the network only.
LEMMA VotesOfCallsStay ==
  ASSUME net' = net
  PROVE  /\ \A n, i, x : VoteFor(n, i, x)' = VoteFor(n, i, x)
         /\ Links' = Links
         /\ \A n, i : VoteBy(n, i)' = VoteBy(n, i)
<1>1. Script' = Script /\ Label' = Label
  BY NetworkStays
<1>2. \A n, i, x : VoteFor(n, i, x)' = VoteFor(n, i, x)
  BY <1>1 DEF VoteFor
<1>3. Links' = Links
  BY <1>1 DEF Links
<1> QED
  BY <1>2, <1>3 DEF VoteBy

\* What the vote of node n for call i says.
LEMMA VoteByIs ==
  ASSUME NEW n, NEW i
  PROVE  /\ VoteBy(n, i).pubkey = n
         /\ VoteBy(n, i).label = Label[Script[i].tx]
         /\ VoteBy(n, i).seq = i - 1
         /\ VoteBy(n, i).txHash = Script[i].tx
         /\ VoteBy(n, i).prevHash = Links[i-1]
         /\ Hash(VoteBy(n, i)) = <<i - 1, Script[i].tx, 0, Links[i-1]>>
BY DEF VoteBy, VoteFor, Hash

\* The votes of a node are those of an honest voter.
LEMMA VotesOfCallsAreHonest ==
  ASSUME net \in Networks, calls \in 0..Len(Script), NEW p, NEW l
  PROVE  HonestVotes(VotesBy(p, l)) /\ Numbered(VotesBy(p, l))
<1>1. /\ Len(Script) \in Nat
      /\ DOMAIN Script = 1..Len(Script)
      /\ \A i, j \in DOMAIN Script : Script[i].tx = Script[j].tx => i = j
  BY CalledIs, NetworkIs
<1>2. \A i \in 1..Len(Script) :
        Links[i] = <<i - 1, Script[i].tx, 0, Links[i-1]>>
  BY <1>1, LinksAre
<1>3. ASSUME NEW v \in VotesBy(p, l), NEW w \in VotesBy(p, l)
      PROVE  /\ v.seq = w.seq => v = w
             /\ v.txHash = w.txHash => v = w
             /\ v.seq + 1 = w.seq => w.prevHash = Hash(v)
             /\ v.seq \in Nat
  <2>1. PICK i \in 1..calls : v = VoteBy(p, i)
    BY DEF VotesBy
  <2>2. PICK j \in 1..calls : w = VoteBy(p, j)
    BY DEF VotesBy
  <2>3. /\ i \in 1..Len(Script) /\ j \in 1..Len(Script)
        /\ i \in Nat /\ j \in Nat /\ i > 0
    BY <1>1
  <2>4. /\ v.seq = i - 1 /\ v.txHash = Script[i].tx
        /\ Hash(v) = <<i - 1, Script[i].tx, 0, Links[i-1]>>
        /\ w.seq = j - 1 /\ w.txHash = Script[j].tx /\ w.prevHash = Links[j-1]
    BY <2>1, <2>2, VoteByIs
  <2>5. v.seq = w.seq => i = j
    BY <2>3, <2>4
  <2>6. v.txHash = w.txHash => i = j
    BY <1>1, <2>3, <2>4
  <2>7. v.seq + 1 = w.seq => i = j - 1
    BY <2>3, <2>4
  <2> QED
    BY <1>2, <2>1, <2>2, <2>3, <2>4, <2>5, <2>6, <2>7
<1> QED
  BY <1>3 DEF HonestVotes, Numbered

\* What AddVote does with the vote for a call.
LEMMA VoteOfCallIsAdded ==
  ASSUME TypeInv, VotesTell, NEW n \in Nodes, NEW p \in Nodes,
         NEW l \in Labels,
         NEW v \in VotesBy(p, l), NEW b, b = buckets[n][p][l],
         NEW r, r = AddVote(b, v)
  PROVE  /\ b \in BucketsOf(VotesBy(p, l), {})
         /\ AddVoteDoes(b, r, v, VotesBy(p, l), {})
         /\ ~r.err
<1> DEFINE S == VotesBy(p, l)
<1>1. BucketOK(b, p, l) /\ ToSet(b.votes) \subseteq S
  BY DEF TypeInv, BucketsOK, VotesTell, Votes
<1>2. HonestVotes(S) /\ Numbered(S)
  BY VotesOfCallsAreHonest DEF TypeInv
<1> HIDE DEF S
<1>3. b \in BucketsOf(S, {})
  <2>1. b \in BucketsOf(ToSet(b.votes), {})
    BY <1>1 DEF BucketOK
  <2>2. b.votes \in Seq(ToSet(b.votes)) /\ b.lastSeqSeen \in Nat
        /\ b.commitedHashes \in SUBSET {}
        /\ b = [votes |-> b.votes, lastSeqSeen |-> b.lastSeqSeen,
                commitedHashes |-> b.commitedHashes]
    BY <2>1 DEF BucketsOf
  <2>3. b.votes \in Seq(S)
    BY <1>1, <2>2, SeqOfMore
  <2> QED
    BY <2>2, <2>3 DEF BucketsOf
<1>4. v \in S
  BY DEF S
<1>5. AddVoteDoes(b, r, v, S, {})
  BY <1>2, <1>3, <1>4, AddVoteIs
<1>6. ~r.err
  BY <1>2, <1>3, <1>4, <1>5, HonestVoteIsNotRefused
<1> QED
  BY <1>3, <1>5, <1>6 DEF S

\* The vote for a call is not refused, and all nodes keep what they hold.
LEMMA VoteOfCallIsHandled ==
  ASSUME TypeInv, VotesTell, NEW n \in Nodes, NEW v, NEW from, NEW taken,
         v.pubkey \in Nodes, v.label \in Labels,
         v \in VotesBy(v.pubkey, v.label),
         VoteIsHandled(n, v, from, taken), UNCHANGED <<net, calls>>
  PROVE  /\ refused' = refused
         /\ v \in Votes(n, v.pubkey, v.label)'
         /\ VotesTell'
<1> DEFINE q == v.pubkey
           l == v.label
           r == AddVote(buckets[n][q][l], v)
<1>1. /\ net \in Networks /\ calls \in 0..Len(Script) /\ Len(Script) \in Nat
      /\ \A i \in 1..Len(Script) : Label[Script[i].tx] \in Labels
  BY CalledIs DEF TypeInv
<1>2. ~r.err
  BY VoteOfCallIsAdded
<1>3. refused' = refused
  BY <1>2 DEF VoteIsHandled
<1>4. v \in Votes(n, q, l)'
  <2>1. v \in Votes(n, q, l)' \/ \E u \in Votes(n, q, l) : u.seq = v.seq
    BY <1>2 DEF VoteIsHandled
  <2>2. Votes(n, q, l) \subseteq Votes(n, q, l)'
    BY DEF VoteIsHandled
  <2>3. \A u \in Votes(n, q, l) : u.seq = v.seq => u = v
    BY <1>1, VotesOfCallsAreHonest DEF VotesTell, HonestVotes
  <2> QED
    BY <2>1, <2>2, <2>3
<1>5. /\ Nodes' = Nodes /\ Labels' = Labels /\ Script' = Script
      /\ Label' = Label
  BY NetworkStays
<1>6. /\ \A k, i : VoteBy(k, i)' = VoteBy(k, i)
      /\ \A p, j : VotesBy(p, j)' = VotesBy(p, j)
  BY <1>5, VotesOfCallsStay DEF VotesBy
<1>7. \A k, p \in Nodes, j \in Labels :
        /\ Votes(k, p, j) \subseteq Votes(k, p, j)'
        /\ \A u \in Votes(k, p, j)' :
             \/ u \in Votes(k, p, j)
             \/ u = v /\ k = n /\ p = v.pubkey /\ j = v.label
  BY VotesAfter
<1>8. \A k, p \in Nodes : \A i \in 1..(calls - 1) : Holds(k, VoteBy(p, i))'
  <2> SUFFICES ASSUME NEW k \in Nodes, NEW p \in Nodes,
                      NEW i \in 1..(calls - 1)
               PROVE  Holds(k, VoteBy(p, i))'
    OBVIOUS
  <2> DEFINE u == VoteBy(p, i)
  <2>1. Holds(k, u)
    BY DEF VotesTell
  <2>2. u.pubkey = p /\ u.label \in Labels
    BY <1>1, VoteByIs
  <2>3. u \in Votes(k, p, u.label)'
    <3> HIDE DEF u
    <3>1. u \in Votes(k, p, u.label)
      BY <2>1, <2>2 DEF Holds
    <3>2. PICK j \in Labels : j = u.label
      BY <2>2
    <3>3. PICK w : w = u
      OBVIOUS
    <3>4. w \in Votes(k, p, j)'
      BY <1>7, <3>1, <3>2, <3>3
    <3>5. u' = u
      BY <1>6 DEF u
    <3> QED
      BY <3>2, <3>3, <3>4, <3>5
  <2>4. u' = u
    BY <1>6
  <2> HIDE DEF u
  <2>5. u \in Votes(k, u.pubkey, u.label)'
    BY <2>2, <2>3, <2>4
  <2> QED
    BY <1>6, <2>4, <2>5 DEF u, Holds
<1>9. \A k, p \in Nodes, j \in Labels : Votes(k, p, j)' \subseteq VotesBy(p, j)
  BY <1>7 DEF VotesTell
<1>10. VotesTell'
  BY <1>5, <1>6, <1>8, <1>9 DEF VotesTell
<1> QED
  BY <1>3, <1>4, <1>10

\* With one label, all votes of a voter are under it.
LEMMA OneLabel ==
  ASSUME net \in Networks, Cardinality(Labels) = 1,
         NEW k \in Labels, NEW l \in Labels
  PROVE  k = l
<1> DEFINE n == Len(Script)
           f == [i \in 1..n |-> Label[Script[i].tx]]
<1>1. n \in Nat /\ DOMAIN Script = 1..n
  BY NetworkIs, SeqOfElements
<1>2. IsFiniteSet(1..n)
  BY <1>1, FS_Interval
<1>3. Labels = {Label[Script[i].tx] : i \in 1..n}
  BY <1>1 DEF Labels, TxHashes
<1>4. f \in Surjection(1..n, Labels)
  BY <1>3 DEF Surjection, Range
<1> HIDE DEF f, n
<1>5. IsFiniteSet(Labels)
  BY <1>2, <1>4, FS_Surjection
<1>6. \E x : Labels = {x}
  BY <1>5, FS_Singleton
<1> QED
  BY <1>6

\* With one label a vote for a call comes to its place.
LEMMA VoteOfCallIsInOrder ==
  ASSUME TypeInv, VotesTell, OrderInv, NEW n \in Nodes, NEW v, NEW from,
         NEW taken, v.pubkey \in Nodes, v.label \in Labels,
         v \in VotesBy(v.pubkey, v.label),
         VoteIsHandled(n, v, from, taken), UNCHANGED <<net, calls>>
  PROVE  OrderInv'
<1> DEFINE q == v.pubkey
           l == v.label
           S == VotesBy(q, l)
           b == buckets[n][q][l]
           nb == buckets'[n][q][l]
           r == AddVote(b, v)
<1>1. /\ net \in Networks /\ calls \in 0..Len(Script) /\ Len(Script) \in Nat
      /\ \A i \in 1..Len(Script) : Label[Script[i].tx] \in Labels
  BY CalledIs DEF TypeInv
<1>2. Nodes' = Nodes /\ Labels' = Labels
  BY NetworkStays
<1> SUFFICES ASSUME Cardinality(Labels) = 1
             PROVE  \A k, p \in Nodes, j \in Labels :
                      /\ HeadIs(buckets'[k][p][j].votes, 0)
                      /\ Exact(buckets'[k][p][j])
  BY <1>2 DEF OrderInv
<1>3. HeadIs(b.votes, 0) /\ Exact(b)
  BY DEF OrderInv
<1>4. /\ b \in BucketsOf(S, {})
      /\ AddVoteDoes(b, r, v, S, {})
      /\ ~r.err
  BY VoteOfCallIsAdded
<1>5. nb = r.bucket
  BY DEF VoteIsHandled
<1>6. Numbered(S) /\ v \in S /\ v.seq \in Nat
  BY <1>1, VotesOfCallsAreHonest DEF Numbered
<1>7. b.votes = << >> => v.seq = 0
  <2> SUFFICES ASSUME b.votes = << >> PROVE v.seq = 0
    OBVIOUS
  <2>1. PICK i \in 1..calls : v = VoteBy(q, i)
    BY <1>6 DEF VotesBy
  <2>2. CASE calls = 1
    <3>1. i = 1
      BY <2>2
    <3>2. v.seq = i - 1
      BY <2>1, VoteByIs
    <3> QED
      BY <3>1, <3>2
  <2>3. CASE calls # 1
    <3>1. 1 \in 1..(calls - 1) /\ 1 \in 1..Len(Script)
      BY <1>1, <2>3
    <3>2. Holds(n, VoteBy(q, 1))
      BY <3>1 DEF VotesTell
    <3>3. VoteBy(q, 1).pubkey = q /\ VoteBy(q, 1).label = l
      <4>1. VoteBy(q, 1).label \in Labels
        BY <1>1, <3>1, VoteByIs
      <4> QED
        BY <1>1, <4>1, OneLabel, VoteByIs
    <3>4. VoteBy(q, 1) \in ToSet(b.votes)
      BY <3>2, <3>3 DEF Holds, Votes
    <3> QED
      BY <3>4 DEF ToSet
  <2> QED
    BY <2>2, <2>3
<1>8. HeadIs(r.bucket.votes, 0) /\ Exact(r.bucket)
  <2> HIDE DEF b, r, S
  <2>1. HeadIs(r.bucket.votes, 0)
    <3>1. CASE Refuses(b, r, v)
      BY <1>3, <3>1 DEF Refuses
    <3>2. CASE Puts(b, r, v)
      <4>1. PICK pos : /\ PutBehind(b.votes, r.bucket.votes, v, pos)
                       /\ IsPlaceOf(b.votes, v, pos)
        BY <3>2 DEF Puts
      <4>2. b.votes \in Seq(S) /\ Len(b.votes) \in Nat
        BY <1>4 DEF BucketsOf
      <4>3. CASE b.votes = << >>
        BY <1>7, <4>1, <4>2, <4>3 DEF PutBehind, HeadIs
      <4>4. CASE b.votes # << >>
        <5>1. Len(b.votes) # 0
          BY <4>2, <4>4
        <5>2. pos # 0
          BY <4>1, <5>1 DEF IsPlaceOf
        <5>3. r.bucket.votes[1] = b.votes[1]
          BY <4>1, <4>2, <5>2 DEF PutBehind
        <5> QED
          BY <1>3, <4>4, <5>3 DEF HeadIs
      <4> QED
        BY <4>3, <4>4
    <3> QED
      BY <1>4, <3>1, <3>2 DEF AddVoteDoes
  <2>2. Exact(r.bucket)
    <3> DEFINE first == 0
    <3>1. /\ v.seq >= first /\ (HeadIs(b.votes, first) => Exact(b))
          /\ HeadIs(r.bucket.votes, first)
      BY <1>3, <1>6, <2>1
    <3> HIDE DEF first
    <3> QED
      BY <1>4, <1>6, <3>1, AddVoteKeepsExact
  <2> QED
    BY <2>1, <2>2
<1>9. ASSUME NEW k \in Nodes, NEW p \in Nodes, NEW j \in Labels
      PROVE  /\ HeadIs(buckets'[k][p][j].votes, 0)
             /\ Exact(buckets'[k][p][j])
  <2>1. CASE k = n /\ p = q /\ j = l
    BY <1>5, <1>8, <2>1
  <2>2. CASE ~(k = n /\ p = q /\ j = l)
    <3>1. buckets'[k][p][j] = buckets[k][p][j]
      BY <2>2 DEF VoteIsHandled
    <3> QED
      BY <3>1 DEF OrderInv
  <2> QED
    BY <2>1, <2>2
<1> QED
  BY <1>9

-----------------------------------------------------------------------------
(* The places of the goroutines when calls wait for each other             *)

\* One goroutine works on each node.
LEMMA OneBusy ==
  ASSUME HandlersOK, HandlersTell, net \in Networks,
         NEW g \in Goroutines, NEW k \in Goroutines,
         handler[g] # Idle, handler[k] # Idle,
         handler[g].node = handler[k].node
  PROVE  g = k
<1>1. /\ \A j \in Nodes : handler[j] # Idle => handler[j].node = j
      /\ handler[Main] # Idle => handler[handler[Main].node] = Idle
  BY DEF HandlersOK, HandlersTell
<1>2. g \in Nodes \/ g = Main
  BY DEF Goroutines
<1>3. k \in Nodes \/ k = Main
  BY DEF Goroutines
<1> QED
  BY <1>1, <1>2, <1>3

\* A goroutine of node n goes on: that is all that changes in the places.
LEMMA PlacesAfter ==
  ASSUME HandlersOK, HandlersTell, net \in Networks, net' = net,
         NEW g \in Goroutines, NEW n, handler[g] # Idle, handler[g].node = n,
         NEW h, GoesOn(g, h), h = Idle \/ h.node = n, NEW pcs \in SUBSET Busy
  PROVE  /\ IsAt(n, pcs) <=> handler[g].pc \in pcs
         /\ IsAt(n, pcs)' <=> h.pc \in pcs
         /\ \A k \in Nodes : k # n => (IsAt(k, pcs)' <=> IsAt(k, pcs))
<1>1. Goroutines' = Goroutines
  BY NetworkStays
<1>2. Idle.pc \notin pcs
  BY DEF Idle, Busy
<1>3. \A k \in Goroutines :
        handler[k].pc \in pcs /\ handler[k].node = n => k = g
  BY <1>2, OneBusy
<1>4. \A k \in Goroutines : k # g => handler'[k] = handler[k]
  BY DEF GoesOn
<1>5. handler'[g] = h
  BY DEF GoesOn
<1>6. IsAt(n, pcs) <=> handler[g].pc \in pcs
  BY <1>3 DEF IsAt
<1>7. IsAt(n, pcs)' <=> h.pc \in pcs
  <2>1. ASSUME h.pc \in pcs PROVE IsAt(n, pcs)'
    BY <1>1, <1>2, <1>5, <2>1 DEF IsAt
  <2>2. ASSUME IsAt(n, pcs)' PROVE h.pc \in pcs
    <3>1. PICK k \in Goroutines : /\ handler'[k].pc \in pcs
                                  /\ handler'[k].node = n
      BY <1>1, <2>2 DEF IsAt
    <3> QED
      BY <1>3, <1>4, <1>5, <3>1
  <2> QED
    BY <2>1, <2>2
<1>8. ASSUME NEW k \in Nodes, k # n
      PROVE  IsAt(k, pcs)' <=> IsAt(k, pcs)
  <2>1. \A j \in Goroutines :
          handler'[j].pc \in pcs /\ handler'[j].node = k <=>
            handler[j].pc \in pcs /\ handler[j].node = k
    BY <1>2, <1>4, <1>5, <1>8
  <2> QED
    BY <1>1, <2>1 DEF IsAt
<1> QED
  BY <1>6, <1>7, <1>8

\* What is said of a place depends on the network and the calls only.
LEMMA ToldStays ==
  ASSUME UNCHANGED <<net, calls>>, NEW h
  PROVE  ToldOfCall(h)' <=> ToldOfCall(h)
<1>1. /\ Script' = Script
      /\ \A n, i, x : VoteFor(n, i, x)' = VoteFor(n, i, x)
      /\ \A n, i : VoteBy(n, i)' = VoteBy(n, i)
  BY NetworkStays, VotesOfCallsStay
<1> QED
  BY <1>1 DEF ToldOfCall

\* A goroutine that goes on with the last call.
LEMMA HandlersStillTell ==
  ASSUME TypeInv, HandlersTell, NEW g \in Goroutines, NEW n,
         handler[g] # Idle, handler[g].node = n, NEW h, GoesOn(g, h),
         h = Idle \/ (h.node = n /\ ToldOfCall(h)),
         UNCHANGED <<net, known, calls>>
  PROVE  HandlersTell'
<1>1. /\ HandlersOK /\ net \in Networks /\ Main \notin Nodes
      /\ Nodes \subseteq Goroutines /\ Main \in Goroutines
  BY NetworkIs DEF TypeInv, Goroutines
<1>2. Goroutines' = Goroutines /\ Called' = Called
  BY NetworkStays DEF Called
<1>3. calls > 0 /\ known[n] = Called
  BY DEF HandlersTell
<1>4. ASSUME NEW k \in Goroutines, handler'[k] # Idle
      PROVE  /\ calls > 0 /\ ToldOfCall(handler[k])'
             /\ known[handler'[k].node] = Called
  <2> PICK x : x = handler'[k]
    OBVIOUS
  <2>1. ToldOfCall(x) /\ known[x.node] = Called
    <3>1. CASE k = g
      <4>1. x = h /\ x # Idle
        BY <1>4, <3>1 DEF GoesOn
      <4> QED
        BY <1>3, <4>1
    <3>2. CASE k # g
      <4>1. x = handler[k] /\ handler[k] # Idle
        BY <1>4, <3>2 DEF GoesOn
      <4>2. ToldOfCall(handler[k]) /\ known[handler[k].node] = Called
        BY <4>1 DEF HandlersTell
      <4> QED
        BY <4>1, <4>2 DEF ToldOfCall
    <3> QED
      BY <3>1, <3>2
  <2>2. ToldOfCall(x)'
    BY <2>1, ToldStays
  <2>3. ToldOfCall(handler[k])'
    BY <2>2 DEF ToldOfCall
  <2> QED
    BY <1>3, <2>1, <2>3
<1>5. handler'[Main] # Idle => handler'[handler'[Main].node] = Idle
  <2> SUFFICES ASSUME handler'[Main] # Idle
               PROVE  handler'[handler'[Main].node] = Idle
    OBVIOUS
  <2>1. CASE g = Main
    <3>1. handler'[Main].node = n /\ handler[n] = Idle /\ n \in Nodes
      BY <1>1, <2>1, PlaceIs DEF GoesOn, HandlersTell
    <3> QED
      BY <1>1, <2>1, <3>1 DEF GoesOn
  <2>2. CASE g # Main
    <3>1. handler'[Main] = handler[Main]
      BY <1>1, <2>2 DEF GoesOn
    <3>2. handler[Main].node \in Nodes /\ handler[handler[Main].node] = Idle
      BY <1>1, <3>1, PlaceIs DEF HandlersTell
    <3> QED
      BY <1>1, <3>1, <3>2 DEF GoesOn
  <2> QED
    BY <2>1, <2>2
<1>6. \A k \in Goroutines : handler'[k] # Idle =>
        /\ calls' > 0 /\ ToldOfCall(handler[k])'
        /\ known'[handler'[k].node] = Called'
  BY <1>2, <1>4
<1> QED
  BY <1>2, <1>5, <1>6 DEF HandlersTell, Idle

\* A goroutine of node n goes on: what it is past is what the node is past.
LEMMA PastAfter ==
  ASSUME TypeInv, HandlersTell, NEW g \in Goroutines, NEW n \in Nodes,
         handler[g] # Idle, handler[g].node = n, NEW h, GoesOn(g, h),
         h = Idle \/ h.node = n, UNCHANGED <<net, known, calls>>,
         NEW pcs \in SUBSET Busy
  PROVE  /\ IsPast(n, pcs) <=> handler[g].pc \notin pcs
         /\ IsPast(n, pcs)' <=> h.pc \notin pcs
         /\ \A k \in Nodes : k # n => (IsPast(k, pcs)' <=> IsPast(k, pcs))
<1>1. HandlersOK /\ net \in Networks /\ net' = net
  BY DEF TypeInv
<1>2. /\ IsAt(n, pcs) <=> handler[g].pc \in pcs
      /\ IsAt(n, pcs)' <=> h.pc \in pcs
      /\ \A k \in Nodes : k # n => (IsAt(k, pcs)' <=> IsAt(k, pcs))
  BY <1>1, PlacesAfter
<1>3. Called' = Called
  BY NetworkStays DEF Called
<1>4. known[n] = Called
  BY DEF HandlersTell
<1> QED
  BY <1>2, <1>3, <1>4 DEF IsPast

\* A node that is where it was, and holds what it held.
LEMMA CountersStillTell ==
  ASSUME NEW k, CountersTell(k), UNCHANGED <<net, calls>>,
         seq'[k] = seq[k], lastVote'[k] = lastVote[k],
         \A pcs \in SUBSET Busy : IsPast(k, pcs)' <=> IsPast(k, pcs),
         Holds(k, VoteBy(k, calls)) => Holds(k, VoteBy(k, calls))'
  PROVE  CountersTell(k)'
<1>1. Links' = Links
  BY VotesOfCallsStay
<1>2. /\ IsPast(k, {"number"})' <=> IsPast(k, {"number"})
      /\ IsPast(k, {"number", "link", "store"})' <=>
           IsPast(k, {"number", "link", "store"})
      /\ IsPast(k, Busy)' <=> IsPast(k, Busy)
  BY DEF Busy
<1>3. calls > 0 /\ IsPast(k, Busy)' => Holds(k, VoteBy(k, calls))'
  BY <1>2 DEF CountersTell
<1>4. /\ seq'[k] = IF IsPast(k, {"number"})' THEN calls ELSE calls - 1
      /\ lastVote'[k] = Links[IF IsPast(k, {"number", "link", "store"})'
                              THEN calls ELSE calls - 1]
  BY <1>2 DEF CountersTell
<1> QED
  BY <1>1, <1>3, <1>4 DEF CountersTell

\* What is known and held of the earlier calls stays.
LEMMA EarlierStay ==
  ASSUME UNCHANGED <<net, buckets, calls>>
  PROVE  /\ VotesTell => VotesTell'
         /\ EarlierKnown /\ known' = known => EarlierKnown'
         /\ MsgsTell /\ Msgs' = Msgs => MsgsTell'
         /\ \A n, i : Holds(n, VoteBy(n, i))' <=> Holds(n, VoteBy(n, i))
<1>1. Nodes' = Nodes /\ Labels' = Labels /\ Script' = Script /\ Label' = Label
  BY NetworkStays
<1>2. \A n, i : VoteBy(n, i)' = VoteBy(n, i)
  BY VotesOfCallsStay
<1>3. \A n, l : VotesBy(n, l)' = VotesBy(n, l)
  BY <1>1, <1>2 DEF VotesBy
<1>4. \A n, p, l : Votes(n, p, l)' = Votes(n, p, l)
  BY DEF Votes
<1>5. \A k, n, i : Holds(k, VoteBy(n, i))' <=> Holds(k, VoteBy(n, i))
  BY <1>2, <1>4 DEF Holds
<1> QED
  BY <1>1, <1>3, <1>4, <1>5 DEF VotesTell, EarlierKnown, MsgsTell

\* A goroutine that goes on with its vote.
LEMMA GoesOnKeepsWaiting ==
  ASSUME TypeInv, WaitInv, NEW g \in Goroutines, NEW n \in Nodes,
         handler[g] # Idle, handler[g].node = n, NEW h, GoesOn(g, h),
         h.node = n, ToldOfCall(h),
         UNCHANGED <<net, known, buckets, inFlight, calls, refused>>,
         \A k \in Nodes :
           k # n => seq'[k] = seq[k] /\ lastVote'[k] = lastVote[k],
         CountersTell(n)'
  PROVE  WaitInv'
<1>1. Nodes' = Nodes
  BY NetworkStays
<1>2. HandlersTell'
  BY HandlersStillTell DEF WaitInv
<1>3. ASSUME NEW k \in Nodes, k # n
      PROVE  CountersTell(k)'
  <2>1. \A pcs \in SUBSET Busy : IsPast(k, pcs)' <=> IsPast(k, pcs)
    BY <1>3, PastAfter DEF WaitInv
  <2>2. Holds(k, VoteBy(k, calls)) => Holds(k, VoteBy(k, calls))'
    <3>1. \A m, i : Holds(m, VoteBy(m, i))' <=> Holds(m, VoteBy(m, i))
      BY EarlierStay
    <3>2. PICK i : i = calls
      OBVIOUS
    <3>3. Holds(k, VoteBy(k, i))' <=> Holds(k, VoteBy(k, i))
      BY <3>1
    <3>4. calls' = i
      BY <3>2
    <3> QED
      BY <3>2, <3>3, <3>4
  <2> QED
    BY <1>3, <2>1, <2>2, CountersStillTell DEF WaitInv
<1>4. VotesTell' /\ EarlierKnown' /\ MsgsTell'
  BY EarlierStay DEF WaitInv, Msgs
<1> QED
  BY <1>1, <1>2, <1>3, <1>4 DEF WaitInv

\* The number a goroutine draws is that of the call.
LEMMA NumberKeepsWaiting ==
  ASSUME TypeInv, WaitInv, NEW g \in Goroutines, NEW n \in Nodes,
         NumberStep(g, n)
  PROVE  WaitInv'
<1> DEFINE tx == handler[g].tx
           h == [pc |-> "link", node |-> n, vote |-> NewVote(n, tx)]
<1>1. /\ UNCHANGED <<net, known, buckets, lastVote, inFlight, calls, refused>>
      /\ seq' = [seq EXCEPT ![n] = seq[n] + 1]
      /\ GoesOn(g, h)
      /\ handler[g].pc = "number" /\ handler[g].node = n
      /\ handler[g] # Idle
      /\ seq \in [Nodes -> Nat] /\ calls \in Nat
  BY DEF NumberStep, TypeInv, Idle
<1>2. calls > 0 /\ tx = Script[calls].tx
  BY <1>1 DEF WaitInv, HandlersTell, ToldOfCall
<1> USE DEF Busy
<1>3. /\ ~IsPast(n, {"number"}) /\ ~IsPast(n, {"number", "link", "store"})
      /\ IsPast(n, {"number"})' /\ ~IsPast(n, {"number", "link", "store"})'
      /\ ~IsPast(n, Busy)'
  <2> DEFINE at(pcs) == /\ IsPast(n, pcs) <=> handler[g].pc \notin pcs
                        /\ IsPast(n, pcs)' <=> h.pc \notin pcs
  <2>1. h.pc = "link" /\ h.node = n
    OBVIOUS
  <2> HIDE DEF h
  <2>2. ASSUME NEW pcs \in SUBSET Busy PROVE at(pcs)
    BY <1>1, <2>1, PastAfter DEF WaitInv
  <2>3. at({"number"}) /\ at({"number", "link", "store"}) /\ at(Busy)
    BY <2>2
  <2> QED
    BY <1>1, <2>1, <2>3
<1>4. seq[n] = calls - 1 /\ lastVote[n] = Links[calls - 1]
  BY <1>3 DEF WaitInv, CountersTell
<1>5. NewVote(n, tx) = VoteFor(n, calls, NoHash)
  BY <1>2, <1>4 DEF NewVote, VoteFor
<1>6. h.node = n /\ ToldOfCall(h)
  BY <1>5 DEF ToldOfCall
<1>7. seq'[n] = calls /\ lastVote' = lastVote
  BY <1>1, <1>4
<1>8. CountersTell(n)'
  BY <1>1, <1>3, <1>4, <1>7, VotesOfCallsStay DEF CountersTell
<1>9. \A k \in Nodes : k # n => seq'[k] = seq[k] /\ lastVote'[k] = lastVote[k]
  BY <1>1
<1> HIDE DEF h
<1> QED
  BY <1>1, <1>6, <1>8, <1>9, GoesOnKeepsWaiting

\* It links its vote to that for the call before.
LEMMA LinkKeepsWaiting ==
  ASSUME TypeInv, WaitInv, NEW g \in Goroutines, NEW n \in Nodes,
         LinkStep(g, n)
  PROVE  WaitInv'
<1> DEFINE h == [pc |-> "store", node |-> n,
                 vote |-> LinkedTo(handler[g].vote, lastVote[n])]
<1>1. /\ UNCHANGED <<net, known, buckets, seq, lastVote, inFlight, calls,
                     refused>>
      /\ GoesOn(g, h)
      /\ handler[g].pc = "link" /\ handler[g].node = n
      /\ handler[g] # Idle /\ calls \in Nat
  BY DEF LinkStep, TypeInv, Idle
<1>2. calls > 0 /\ handler[g].vote = VoteFor(n, calls, NoHash)
  BY <1>1 DEF WaitInv, HandlersTell, ToldOfCall
<1> USE DEF Busy
<1>3. /\ IsPast(n, {"number"}) /\ ~IsPast(n, {"number", "link", "store"})
      /\ IsPast(n, {"number"})' /\ ~IsPast(n, {"number", "link", "store"})'
      /\ ~IsPast(n, Busy)'
  <2> DEFINE at(pcs) == /\ IsPast(n, pcs) <=> handler[g].pc \notin pcs
                        /\ IsPast(n, pcs)' <=> h.pc \notin pcs
  <2>1. h.pc = "store" /\ h.node = n
    OBVIOUS
  <2> HIDE DEF h
  <2>2. ASSUME NEW pcs \in SUBSET Busy PROVE at(pcs)
    BY <1>1, <2>1, PastAfter DEF WaitInv
  <2>3. at({"number"}) /\ at({"number", "link", "store"}) /\ at(Busy)
    BY <2>2
  <2> QED
    BY <1>1, <2>1, <2>3
<1>4. seq[n] = calls /\ lastVote[n] = Links[calls - 1]
  BY <1>3 DEF WaitInv, CountersTell
<1>5. LinkedTo(handler[g].vote, lastVote[n]) = VoteBy(n, calls)
  BY <1>2, <1>4 DEF LinkedTo, VoteFor, VoteBy
<1>6. h.node = n /\ ToldOfCall(h)
  BY <1>5 DEF ToldOfCall
<1>7. CountersTell(n)'
  BY <1>1, <1>3, <1>4, VotesOfCallsStay DEF CountersTell
<1> HIDE DEF h
<1> QED
  BY <1>1, <1>6, <1>7, GoesOnKeepsWaiting

\* Its vote becomes the last one of the node.
LEMMA StoreKeepsWaiting ==
  ASSUME TypeInv, WaitInv, NEW g \in Goroutines, NEW n \in Nodes,
         StoreStep(g, n)
  PROVE  WaitInv'
<1> DEFINE h == [pc |-> "vote", node |-> n, vote |-> handler[g].vote]
<1>1. /\ UNCHANGED <<net, known, buckets, seq, inFlight, calls, refused>>
      /\ lastVote' = [lastVote EXCEPT ![n] = Hash(handler[g].vote)]
      /\ GoesOn(g, h)
      /\ handler[g].pc = "store" /\ handler[g].node = n
      /\ handler[g] # Idle /\ calls \in 0..Len(Script)
      /\ DOMAIN lastVote = Nodes
  BY DEF StoreStep, TypeInv, Idle
<1>2. calls > 0 /\ handler[g].vote = VoteBy(n, calls)
  BY <1>1 DEF WaitInv, HandlersTell, ToldOfCall
<1> USE DEF Busy
<1>3. /\ IsPast(n, {"number"}) /\ ~IsPast(n, {"number", "link", "store"})
      /\ IsPast(n, {"number"})' /\ IsPast(n, {"number", "link", "store"})'
      /\ ~IsPast(n, Busy)'
  <2> DEFINE at(pcs) == /\ IsPast(n, pcs) <=> handler[g].pc \notin pcs
                        /\ IsPast(n, pcs)' <=> h.pc \notin pcs
  <2>1. h.pc = "vote" /\ h.node = n
    OBVIOUS
  <2> HIDE DEF h
  <2>2. ASSUME NEW pcs \in SUBSET Busy PROVE at(pcs)
    BY <1>1, <2>1, PastAfter DEF WaitInv
  <2>3. at({"number"}) /\ at({"number", "link", "store"}) /\ at(Busy)
    BY <2>2
  <2> QED
    BY <1>1, <2>1, <2>3
<1>4. seq[n] = calls
  BY <1>3 DEF WaitInv, CountersTell
<1>5. h.node = n /\ ToldOfCall(h)
  BY <1>2 DEF ToldOfCall
<1>6. lastVote'[n] = Links[calls]
  <2>1. Len(Script) \in Nat
    BY CalledIs DEF TypeInv
  <2>2. calls \in 1..Len(Script)
    BY <1>1, <1>2, <2>1
  <2>3. Links[calls] = <<calls - 1, Script[calls].tx, 0, Links[calls - 1]>>
    BY <2>1, <2>2, LinksAre
  <2>4. Hash(handler[g].vote) = Links[calls]
    BY <1>2, <2>3, VoteByIs
  <2> QED
    BY <1>1, <2>4
<1>7. CountersTell(n)'
  BY <1>1, <1>3, <1>4, <1>6, VotesOfCallsStay DEF CountersTell
<1>8. \A k \in Nodes : k # n => seq'[k] = seq[k] /\ lastVote'[k] = lastVote[k]
  BY <1>1
<1> HIDE DEF h
<1> QED
  BY <1>1, <1>5, <1>7, <1>8, GoesOnKeepsWaiting

\* A vote that is handled takes none from a node.
LEMMA CallsStayHeld ==
  ASSUME TypeInv, NEW n \in Nodes, NEW v, NEW from, NEW taken,
         VoteIsHandled(n, v, from, taken), UNCHANGED <<net, calls>>,
         NEW k \in Nodes, NEW p \in Nodes, NEW i \in 1..Len(Script),
         Holds(k, VoteBy(p, i))
  PROVE  Holds(k, VoteBy(p, i))'
<1> PICK u : u = VoteBy(p, i)
  OBVIOUS
<1>1. \A j \in 1..Len(Script) : Label[Script[j].tx] \in Labels
  BY CalledIs DEF TypeInv
<1>2. u.pubkey = p /\ u.label \in Labels
  BY <1>1, VoteByIs
<1>3. u \in Votes(k, p, u.label)
  BY <1>2 DEF Holds
<1>4. u \in Votes(k, p, u.label)'
  BY <1>2, <1>3, VotesAfter
<1>5. Holds(k, u)'
  BY <1>2, <1>4 DEF Holds
<1>6. VoteBy(p, i)' = u
  BY VotesOfCallsStay
<1> QED
  BY <1>5, <1>6 DEF Holds

\* The vote for a call is handled: the messages and what is known tell as
\* before.
LEMMA MsgsStillTell ==
  ASSUME TypeInv, MsgsTell, EarlierKnown, NEW n \in Nodes, NEW v, NEW from,
         NEW taken, v.pubkey \in Nodes, v \in VotesBy(v.pubkey, v.label),
         VoteIsHandled(n, v, from, taken), UNCHANGED <<net, known, calls>>,
         calls > 0
  PROVE  MsgsTell' /\ EarlierKnown'
<1>1. Nodes' = Nodes /\ Script' = Script /\ Label' = Label
  BY NetworkStays
<1>2. \A q, j : VotesBy(q, j)' = VotesBy(q, j)
  BY <1>1, VotesOfCallsStay DEF VotesBy
<1>3. Msgs' \subseteq Msgs \cup PassedOn(n, v, from)
  BY DEF VoteIsHandled
<1>4. ASSUME NEW m \in Msgs'
      PROVE  /\ m.kind = "tx" => m.tx = Script[calls].tx
             /\ m.kind = "vote" =>
                  m.vote \in VotesBy(m.vote.pubkey, m.vote.label)
  <2>1. CASE m \in Msgs
    BY <2>1 DEF MsgsTell
  <2>2. CASE m \in PassedOn(n, v, from)
    BY <2>2 DEF PassedOn, VoteMsg
  <2> QED
    BY <1>3, <2>1, <2>2
<1> QED
  BY <1>1, <1>2, <1>4 DEF MsgsTell, EarlierKnown

\* A vote from another node.
LEMMA VoteKeepsWaiting ==
  ASSUME TypeInv, WaitInv, OrderInv, NEW n \in Nodes, NEW m \in Msgs,
         VoteStep(n, m)
  PROVE  WaitInv' /\ OrderInv'
<1> PICK v : v = m.vote
  OBVIOUS
<1> PICK from : from = m.from
  OBVIOUS
<1> PICK taken : taken = {m}
  OBVIOUS
<1>1. /\ VoteIsHandled(n, v, from, taken)
      /\ UNCHANGED <<net, known, seq, lastVote, handler, calls>>
      /\ v.pubkey \in Nodes /\ v.label \in Labels
      /\ m.kind = "vote"
  BY DEF VoteStep, VoteMsgOK
<1>2. calls > 0 /\ v \in VotesBy(v.pubkey, v.label)
  BY <1>1 DEF WaitInv, MsgsTell
<1>3. calls \in 1..Len(Script)
  BY <1>2, CalledIs DEF TypeInv
<1>4. refused' = refused /\ VotesTell' /\ OrderInv'
  BY <1>1, <1>2, VoteOfCallIsHandled, VoteOfCallIsInOrder DEF WaitInv
<1>5. MsgsTell' /\ EarlierKnown'
  BY <1>1, <1>2, MsgsStillTell DEF WaitInv
<1>6. Nodes' = Nodes /\ Goroutines' = Goroutines /\ Called' = Called
  BY <1>1, NetworkStays DEF Called
<1>7. HandlersTell'
  <2>1. \A h : ToldOfCall(h)' <=> ToldOfCall(h)
    BY <1>1, ToldStays
  <2>2. \A g \in Goroutines : handler[g] # Idle => ToldOfCall(handler[g])'
    <3> SUFFICES ASSUME NEW g \in Goroutines, handler[g] # Idle
                 PROVE  ToldOfCall(handler[g])'
      OBVIOUS
    <3> PICK h : h = handler[g]
      OBVIOUS
    <3>1. ToldOfCall(h)
      BY DEF WaitInv, HandlersTell, ToldOfCall
    <3>2. ToldOfCall(h)'
      BY <2>1, <3>1
    <3>3. handler'[g] = h
      BY <1>1
    <3> QED
      BY <3>2, <3>3 DEF ToldOfCall
  <2> QED
    BY <1>1, <1>6, <2>2 DEF WaitInv, HandlersTell, Idle
<1>8. ASSUME NEW k \in Nodes
      PROVE  CountersTell(k)'
  <2>1. \A pcs \in SUBSET Busy : IsPast(k, pcs)' <=> IsPast(k, pcs)
    BY <1>1, <1>6 DEF IsPast, IsAt
  <2>2. Holds(k, VoteBy(k, calls)) => Holds(k, VoteBy(k, calls))'
    <3> PICK i \in 1..Len(Script) : i = calls
      BY <1>3
    <3>1. Holds(k, VoteBy(k, i)) => Holds(k, VoteBy(k, i))'
      BY <1>1, CallsStayHeld
    <3>2. calls' = i
      BY <1>1
    <3> QED
      BY <3>1, <3>2
  <2> QED
    BY <1>1, <2>1, <2>2, CountersStillTell DEF WaitInv
<1> QED
  BY <1>4, <1>5, <1>6, <1>7, <1>8 DEF WaitInv

\* The vote of the node's own.
LEMMA OwnVoteKeepsWaiting ==
  ASSUME TypeInv, WaitInv, OrderInv, NEW g \in Goroutines, NEW n \in Nodes,
         OwnVoteStep(g, n)
  PROVE  WaitInv' /\ OrderInv'
<1> PICK v : v = handler[g].vote /\ VoteIsHandled(n, v, n, {})
  BY DEF OwnVoteStep
<1> PICK taken : taken = {}
  OBVIOUS
<1>1. /\ VoteIsHandled(n, v, n, taken)
      /\ UNCHANGED <<net, known, seq, lastVote, calls>>
      /\ GoesOn(g, Idle)
      /\ handler[g].pc = "vote" /\ handler[g].node = n /\ handler[g] # Idle
      /\ calls \in 0..Len(Script)
  BY DEF OwnVoteStep, TypeInv, Idle
<1>2. calls > 0 /\ v = VoteBy(n, calls)
  BY <1>1 DEF WaitInv, HandlersTell, ToldOfCall
<1>3. /\ calls \in 1..Len(Script) /\ calls \in 1..calls
      /\ Label[Script[calls].tx] \in Labels
  BY <1>1, <1>2, CalledIs DEF TypeInv
<1>4. v.pubkey = n /\ v.label = Label[Script[calls].tx]
  BY <1>2, VoteByIs
<1>5. v \in VotesBy(v.pubkey, v.label)
  BY <1>2, <1>3, <1>4 DEF VotesBy
<1>6. /\ v.pubkey \in Nodes /\ v.label \in Labels
      /\ UNCHANGED <<net, calls>>
  BY <1>1, <1>3, <1>4
<1>7. /\ refused' = refused /\ VotesTell' /\ OrderInv'
      /\ v \in Votes(n, v.pubkey, v.label)'
  BY <1>1, <1>5, <1>6, VoteOfCallIsHandled, VoteOfCallIsInOrder DEF WaitInv
<1>8. MsgsTell' /\ EarlierKnown'
  BY <1>1, <1>2, <1>5, <1>6, MsgsStillTell DEF WaitInv
<1>9. Nodes' = Nodes
  BY <1>1, NetworkStays
<1>10. HandlersTell'
  BY <1>1, HandlersStillTell DEF WaitInv
<1>11. ASSUME NEW k \in Nodes, k # n
       PROVE  CountersTell(k)'
  <2>1. \A pcs \in SUBSET Busy : IsPast(k, pcs)' <=> IsPast(k, pcs)
    <3> SUFFICES ASSUME NEW pcs \in SUBSET Busy
                 PROVE  IsPast(k, pcs)' <=> IsPast(k, pcs)
      OBVIOUS
    <3> PICK h : h = Idle
      OBVIOUS
    <3>1. GoesOn(g, h) /\ UNCHANGED <<net, known, calls>>
      BY <1>1
    <3>2. \A j \in Nodes : j # n => (IsPast(j, pcs)' <=> IsPast(j, pcs))
      BY <1>1, <3>1, PastAfter DEF WaitInv
    <3> QED
      BY <1>11, <3>2
  <2>2. Holds(k, VoteBy(k, calls)) => Holds(k, VoteBy(k, calls))'
    <3> PICK i \in 1..Len(Script) : i = calls
      BY <1>3
    <3>1. Holds(k, VoteBy(k, i)) => Holds(k, VoteBy(k, i))'
      BY <1>1, CallsStayHeld
    <3>2. calls' = i
      BY <1>1
    <3> QED
      BY <3>1, <3>2
  <2> QED
    BY <1>1, <2>1, <2>2, CountersStillTell DEF WaitInv
<1> USE DEF Busy
<1>12. CountersTell(n)'
  <2> DEFINE at(pcs) == /\ IsPast(n, pcs) <=> handler[g].pc \notin pcs
                        /\ IsPast(n, pcs)' <=> Idle.pc \notin pcs
  <2>1. ASSUME NEW pcs \in SUBSET Busy PROVE at(pcs)
    BY <1>1, PastAfter DEF WaitInv
  <2>2. at({"number"}) /\ at({"number", "link", "store"}) /\ at(Busy)
    BY <2>1
  <2>3. Idle.pc = "idle"
    BY DEF Idle
  <2> HIDE DEF Busy
  <2>4. /\ IsPast(n, {"number"}) /\ IsPast(n, {"number", "link", "store"})
        /\ IsPast(n, {"number"})' /\ IsPast(n, {"number", "link", "store"})'
    BY <1>1, <2>2, <2>3
  <2>5. seq[n] = calls /\ lastVote[n] = Links[calls]
    BY <2>4 DEF WaitInv, CountersTell
  <2>6. Holds(n, VoteBy(n, calls))'
    <3>1. VoteBy(n, calls)' = v
      <4>1. \A k, i : VoteBy(k, i)' = VoteBy(k, i)
        BY <1>1, VotesOfCallsStay
      <4> PICK i : i = calls
        OBVIOUS
      <4>2. VoteBy(n, i)' = v /\ calls' = i
        BY <1>1, <1>2, <4>1
      <4> QED
        BY <4>2
    <3>2. Holds(n, v)'
      BY <1>7 DEF Holds
    <3> QED
      BY <3>1, <3>2 DEF Holds
  <2> QED
    BY <1>1, <2>4, <2>5, <2>6, VotesOfCallsStay DEF CountersTell
<1> QED
  BY <1>7, <1>8, <1>9, <1>10, <1>11, <1>12 DEF WaitInv

\* No goroutine goes on: what is said of their places stays.
LEMMA HandlersTellOn ==
  ASSUME HandlersTell, UNCHANGED <<net, known, handler, calls>>
  PROVE  HandlersTell'
<1>1. Goroutines' = Goroutines /\ Called' = Called
  BY NetworkStays DEF Called
<1>2. ASSUME NEW g \in Goroutines, handler[g] # Idle
      PROVE  ToldOfCall(handler[g])'
  <2> PICK h : h = handler[g]
    OBVIOUS
  <2>1. ToldOfCall(h)
    BY <1>2 DEF HandlersTell, ToldOfCall
  <2>2. ToldOfCall(h)'
    BY <2>1, ToldStays
  <2> QED
    BY <2>2 DEF ToldOfCall
<1> QED
  BY <1>1, <1>2 DEF HandlersTell, Idle

\* A node hears of the last call, perhaps once more.
LEMMA TxKeepsWaiting ==
  ASSUME TypeInv, WaitInv, OrderInv, NEW n \in Nodes, NEW m \in Msgs,
         TxStep(n, m)
  PROVE  WaitInv' /\ OrderInv'
<1> PICK tx : tx = m.tx
  OBVIOUS
<1> PICK from : from = m.from
  OBVIOUS
<1> PICK taken : taken = {m}
  OBVIOUS
<1>1. /\ TxIsHandled(n, n, tx, from, taken)
      /\ UNCHANGED <<net, buckets, seq, lastVote, calls, refused>>
      /\ handler[n] = Idle /\ m.kind = "tx"
  BY DEF TxStep, TxIsHandled
<1>2. /\ calls > 0 /\ tx = Script[calls].tx
      /\ calls \in Nat /\ net \in Networks /\ HandlersOK
      /\ Nodes \subseteq Goroutines /\ Main \in Goroutines /\ Main \notin Nodes
  BY <1>1, CalledIs, NetworkIs DEF WaitInv, MsgsTell, TypeInv, Goroutines
<1>3. /\ Nodes' = Nodes /\ Goroutines' = Goroutines /\ Called' = Called
      /\ Script' = Script /\ Labels' = Labels
  BY <1>1, NetworkStays DEF Called
<1>4. VotesTell' /\ refused' = {} /\ OrderInv'
  BY <1>1, <1>3, EarlierStay DEF WaitInv, OrderInv
<1>5. \A k, i : Holds(k, VoteBy(k, i))' <=> Holds(k, VoteBy(k, i))
  BY <1>1, EarlierStay
<1>6. MsgsTell'
  <2>1. Msgs' \subseteq Msgs \cup Spread(n, tx, from)
    BY <1>1 DEF TxIsHandled
  <2>2. \A k \in Spread(n, tx, from) : k.kind = "tx" /\ k.tx = tx
    BY <1>2, SpreadIs
  <2>3. \A q, l : VotesBy(q, l)' = VotesBy(q, l)
    <3>1. Label' = Label /\ \A q, i : VoteBy(q, i)' = VoteBy(q, i)
      BY <1>1, NetworkStays, VotesOfCallsStay
    <3> QED
      BY <1>1, <1>3, <3>1 DEF VotesBy
  <2>4. ASSUME NEW k \in Msgs'
        PROVE  /\ k.kind = "tx" => k.tx = Script[calls].tx
               /\ k.kind = "vote" =>
                    k.vote \in VotesBy(k.vote.pubkey, k.vote.label)
    BY <1>2, <2>1, <2>2 DEF WaitInv, MsgsTell
  <2> QED
    BY <1>1, <1>2, <1>3, <2>3, <2>4 DEF MsgsTell
<1>7. CASE tx \in known[n]
  <2>1. UNCHANGED <<known, handler>>
    BY <1>1, <1>7 DEF TxIsHandled
  <2>2. HandlersTell'
    BY <1>1, <2>1, HandlersTellOn DEF WaitInv
  <2>3. EarlierKnown'
    BY <1>1, <2>1, EarlierStay DEF WaitInv
  <2>4. ASSUME NEW k \in Nodes
        PROVE  CountersTell(k)'
    <3>1. \A pcs \in SUBSET Busy : IsPast(k, pcs)' <=> IsPast(k, pcs)
      BY <1>3, <2>1 DEF IsPast, IsAt
    <3>2. Holds(k, VoteBy(k, calls)) => Holds(k, VoteBy(k, calls))'
      <4> PICK i : i = calls
        OBVIOUS
      <4>1. Holds(k, VoteBy(k, i)) => Holds(k, VoteBy(k, i))'
        BY <1>5
      <4> QED
        BY <1>1, <4>1
    <3> QED
      BY <1>1, <3>1, <3>2, CountersStillTell DEF WaitInv
  <2> QED
    BY <1>3, <1>4, <1>6, <2>2, <2>3, <2>4 DEF WaitInv
<1>8. CASE tx \notin known[n]
  <2> PICK h : h = [pc |-> "number", node |-> n, tx |-> tx]
    OBVIOUS
  <2>1. /\ known' = [known EXCEPT ![n] = known[n] \cup {tx}]
        /\ GoesOn(n, h)
        /\ known \in [Nodes -> SUBSET Called]
    BY <1>1, <1>8 DEF TxIsHandled, TypeInv
  <2>2. /\ known'[n] = Called /\ known[n] # Called
        /\ \A k \in Nodes : k # n => known'[k] = known[k]
    <3>1. tx \in Called
      BY <1>2 DEF Called
    <3>2. Called \subseteq known[n] \cup {tx}
      <4> SUFFICES ASSUME NEW i \in 1..calls
                   PROVE  Script[i].tx \in known[n] \cup {tx}
        BY DEF Called
      <4>1. CASE i = calls
        BY <1>2, <4>1
      <4>2. CASE i # calls
        <5>1. i \in 1..(calls - 1)
          BY <1>2, <4>2
        <5> QED
          BY <5>1 DEF WaitInv, EarlierKnown
      <4> QED
        BY <4>1, <4>2
    <3> QED
      BY <1>8, <2>1, <3>1, <3>2
  <2>3. /\ h.pc = "number" /\ h.node = n /\ ToldOfCall(h)
        /\ handler'[n] = h /\ n \in Goroutines
        /\ \A g \in Goroutines : g # n => handler'[g] = handler[g]
    <3>1. h.pc = "number" /\ h.node = n /\ h.tx = tx
      OBVIOUS
    <3>2. ToldOfCall(h)
      BY <1>2, <3>1 DEF ToldOfCall
    <3>3. /\ handler'[n] = h /\ n \in Goroutines
          /\ \A g \in Goroutines : g # n => handler'[g] = handler[g]
      BY <1>2, <2>1 DEF GoesOn
    <3> QED
      BY <3>1, <3>2, <3>3
  <2>4. ASSUME NEW g \in Goroutines, handler[g] # Idle
        PROVE  handler[g].node \in Nodes \ {n}
    BY <1>2, <2>2, <2>4, PlaceIs DEF WaitInv, HandlersTell
  <2>5. HandlersTell'
    <3>1. ASSUME NEW g \in Goroutines, handler'[g] # Idle
          PROVE  /\ ToldOfCall(handler[g])'
                 /\ known'[handler'[g].node] = Called
      <4> PICK x : x = handler'[g]
        OBVIOUS
      <4>1. ToldOfCall(x) /\ known'[x.node] = Called
        <5>1. CASE g = n
          BY <2>2, <2>3, <5>1
        <5>2. CASE g # n
          <6>1. x = handler[g] /\ handler[g] # Idle
            BY <2>3, <3>1, <5>2
          <6>2. ToldOfCall(handler[g]) /\ known[handler[g].node] = Called
            BY <6>1 DEF WaitInv, HandlersTell
          <6>3. known'[x.node] = Called
            BY <2>2, <2>4, <6>1, <6>2
          <6> QED
            BY <6>1, <6>2, <6>3 DEF ToldOfCall
        <5> QED
          BY <5>1, <5>2
      <4>2. ToldOfCall(x)'
        BY <1>1, <4>1, ToldStays
      <4>3. ToldOfCall(handler[g])'
        BY <4>2 DEF ToldOfCall
      <4> QED
        BY <4>1, <4>3
    <3>2. handler'[Main] # Idle => handler'[handler'[Main].node] = Idle
      <4> SUFFICES ASSUME handler'[Main] # Idle
                   PROVE  handler'[handler'[Main].node] = Idle
        OBVIOUS
      <4>1. handler'[Main] = handler[Main]
        BY <1>2, <2>3
      <4>2. handler[handler[Main].node] = Idle
        BY <4>1 DEF WaitInv, HandlersTell
      <4> QED
        BY <1>2, <2>3, <2>4, <4>1, <4>2
    <3> QED
      BY <1>1, <1>2, <1>3, <3>1, <3>2 DEF HandlersTell, Idle
  <2>6. EarlierKnown'
    BY <1>1, <1>3, <2>1 DEF WaitInv, EarlierKnown
  <2>7. ASSUME NEW k \in Nodes, k # n
        PROVE  CountersTell(k)'
    <3>1. ASSUME NEW pcs \in SUBSET Busy
          PROVE  IsPast(k, pcs)' <=> IsPast(k, pcs)
      <4>1. Idle.pc \notin pcs
        BY DEF Idle, Busy
      <4>2. \A g \in Goroutines :
              handler'[g].pc \in pcs /\ handler'[g].node = k <=>
                handler[g].pc \in pcs /\ handler[g].node = k
        BY <1>1, <2>3, <2>7, <4>1
      <4>3. IsAt(k, pcs)' <=> IsAt(k, pcs)
        BY <1>3, <4>2 DEF IsAt
      <4> QED
        BY <1>3, <2>2, <2>7, <4>3 DEF IsPast
    <3>2. Holds(k, VoteBy(k, calls)) => Holds(k, VoteBy(k, calls))'
      <4> PICK i : i = calls
        OBVIOUS
      <4>1. Holds(k, VoteBy(k, i)) => Holds(k, VoteBy(k, i))'
        BY <1>5
      <4> QED
        BY <1>1, <4>1
    <3> QED
      BY <1>1, <3>1, <3>2, CountersStillTell DEF WaitInv
  <2>8. CountersTell(n)'
    <3>1. \A pcs : "number" \in pcs => IsAt(n, pcs)'
      BY <1>3, <2>3 DEF IsAt
    <3>2. /\ ~IsPast(n, {"number"})'
          /\ ~IsPast(n, {"number", "link", "store"})'
          /\ ~IsPast(n, Busy)'
      BY <3>1 DEF IsPast, Busy
    <3>3. seq[n] = calls - 1 /\ lastVote[n] = Links[calls - 1]
      BY <2>2 DEF WaitInv, CountersTell, IsPast
    <3> QED
      BY <1>1, <3>2, <3>3, VotesOfCallsStay DEF CountersTell
  <2> QED
    BY <1>3, <1>4, <1>6, <2>5, <2>6, <2>7, <2>8 DEF WaitInv
<1> QED
  BY <1>7, <1>8

\* Once nothing is under way, all nodes hold the votes for all calls.
LEMMA QuietIs ==
  ASSUME TypeInv, KnownInv, GossipInv, WaitInv, Quiet
  PROVE  /\ Msgs = {} /\ \A g \in Goroutines : handler[g] = Idle
         /\ \A k \in Nodes : /\ known[k] = Called /\ seq[k] = calls
                             /\ lastVote[k] = Links[calls]
         /\ \A k, p \in Nodes, i \in 1..calls : Holds(k, VoteBy(p, i))
<1>1. /\ calls \in Nat /\ Len(Script) \in Nat
      /\ 1..calls \subseteq 1..Len(Script)
      /\ \A i \in 1..Len(Script) : Label[Script[i].tx] \in Labels
  BY CalledIs DEF TypeInv
<1>2. Msgs = {} /\ \A g \in Goroutines : handler[g] = Idle
  BY NothingInFlight DEF Quiet, WgIsZero, Goroutines
<1>3. \A k \in Nodes : known[k] = Called
  BY <1>2, KnownByAll
<1>4. \A k \in Nodes :
        /\ seq[k] = calls /\ lastVote[k] = Links[calls]
        /\ calls > 0 => Holds(k, VoteBy(k, calls))
  <2>1. \A k, pcs : pcs \in SUBSET Busy => ~IsAt(k, pcs)
    BY <1>2 DEF IsAt, Idle, Busy
  <2>2. \A k \in Nodes :
          /\ IsPast(k, {"number"}) /\ IsPast(k, {"number", "link", "store"})
          /\ IsPast(k, Busy)
    BY <1>3, <2>1 DEF IsPast, Busy
  <2> QED
    BY <2>2 DEF WaitInv, CountersTell
<1>5. ASSUME NEW k \in Nodes, NEW p \in Nodes, NEW i \in 1..calls
      PROVE  Holds(k, VoteBy(p, i))
  <2>1. CASE i = calls
    <3> PICK v : v = VoteBy(p, i)
      OBVIOUS
    <3>1. v.pubkey = p /\ v.label \in Labels
      BY <1>1, VoteByIs
    <3>2. v \in Votes(p, p, v.label)
      BY <1>1, <1>4, <2>1, <3>1 DEF Holds
    <3>3. v \in Votes(k, p, v.label)
      BY <1>2, <3>1, <3>2, HeldByAll
    <3> QED
      BY <3>1, <3>3 DEF Holds
  <2>2. CASE i # calls
    <3>1. i \in 1..(calls - 1)
      BY <1>1, <2>2
    <3> QED
      BY <3>1 DEF WaitInv, VotesTell
  <2> QED
    BY <2>1, <2>2
<1> QED
  BY <1>2, <1>3, <1>4, <1>5

\* Main begins a call when all nodes are done with those before.
LEMMA CallKeepsWaiting ==
  ASSUME TypeInv, KnownInv, GossipInv, WaitInv, OrderInv, net.waits, CallStep
  PROVE  WaitInv' /\ OrderInv'
<1> PICK c : c = calls
  OBVIOUS
<1> PICK n : n = Script[c + 1].node
  OBVIOUS
<1> PICK tx : tx = Script[c + 1].tx
  OBVIOUS
<1> PICK none : none = {}
  OBVIOUS
<1>1. /\ TxIsHandled(Main, n, tx, n, none)
      /\ UNCHANGED <<net, buckets, seq, lastVote, refused>>
      /\ calls' = c + 1 /\ c < Len(Script)
      /\ handler[Main] = Idle /\ WgIsZero
  BY DEF CallStep, TxIsHandled
<1>2. /\ c \in Nat /\ Len(Script) \in Nat /\ net \in Networks
      /\ DOMAIN Script = 1..Len(Script) /\ n \in Nodes
      /\ Main \notin Nodes /\ Main \in Goroutines /\ Nodes \subseteq Goroutines
      /\ \A i \in 1..Len(Script) : Label[Script[i].tx] \in Labels
  BY <1>1, CalledIs, NetworkIs DEF TypeInv, Goroutines
<1>3. /\ Msgs = {} /\ \A g \in Goroutines : handler[g] = Idle
      /\ \A k \in Nodes : seq[k] = c /\ lastVote[k] = Links[c]
      /\ \A k, p \in Nodes, i \in 1..c : Holds(k, VoteBy(p, i))
  BY <1>1, QuietIs DEF Quiet
<1>4. \A k \in Nodes : known[k] = Called
  BY <1>1, QuietIs DEF Quiet
<1>5. tx \notin Called
  <2>1. \A i, j \in DOMAIN Script : Script[i].tx = Script[j].tx => i = j
    BY <1>2, NetworkIs
  <2>2. ASSUME NEW i \in 1..c, Script[i].tx = tx PROVE FALSE
    BY <1>1, <1>2, <2>1, <2>2
  <2> QED
    BY <2>2 DEF Called
<1> PICK h : h = [pc |-> "number", node |-> n, tx |-> tx]
  OBVIOUS
<1>6. /\ known' = [known EXCEPT ![n] = known[n] \cup {tx}]
      /\ known \in [Nodes -> SUBSET Called]
      /\ Msgs' \subseteq Msgs \cup Spread(n, tx, n)
      /\ GoesOn(Main, h)
  BY <1>1, <1>2, <1>4, <1>5 DEF TxIsHandled, TypeInv
<1>7. /\ Nodes' = Nodes /\ Goroutines' = Goroutines /\ Labels' = Labels
      /\ Script' = Script /\ Label' = Label
  BY <1>1, NetworkStays
<1>8. Called' = Called \cup {tx}
  <2>1. \A i \in 1..(c + 1) : i \in 1..c \/ i = c + 1
    BY <1>2
  <2>2. 1..c \subseteq 1..(c + 1) /\ c + 1 \in 1..(c + 1)
    BY <1>2
  <2> QED
    BY <1>1, <1>7, <2>1, <2>2 DEF Called
<1>9. /\ known'[n] = Called'
      /\ \A k \in Nodes : k # n => known'[k] = Called /\ known'[k] # Called'
      /\ \A k \in Nodes : Called \subseteq known'[k]
  BY <1>2, <1>4, <1>5, <1>6, <1>8
<1>10. /\ handler'[Main] = h /\ h.pc = "number" /\ h.node = n /\ h.tx = tx
       /\ \A k \in Nodes : handler'[k] = Idle
  BY <1>2, <1>3, <1>6 DEF GoesOn
<1>11. OrderInv' /\ refused' = {}
  BY <1>1, <1>7 DEF OrderInv, WaitInv
<1>12. EarlierKnown'
  <2>1. ASSUME NEW k \in Nodes, NEW i \in 1..((c + 1) - 1)
        PROVE  Script[i].tx \in known'[k]
    <3>1. i \in 1..c
      BY <1>2
    <3> QED
      BY <1>9, <3>1 DEF Called
  <2> QED
    BY <1>1, <1>7, <2>1 DEF EarlierKnown
<1>13. MsgsTell'
  <2>1. \A m \in Spread(n, tx, n) : m.kind = "tx" /\ m.tx = tx
    BY <1>2, SpreadIs
  <2>2. \A m \in Msgs' : m.kind = "tx" /\ m.tx = Script[c + 1].tx
    BY <1>3, <1>6, <2>1
  <2>3. c + 1 > 0
    BY <1>2
  <2> QED
    BY <1>1, <1>7, <2>2, <2>3 DEF MsgsTell
<1>14. HandlersTell'
  <2>1. ASSUME NEW g \in Goroutines, handler'[g] # Idle
        PROVE  ToldOfCall(handler[g])' /\ known'[handler'[g].node] = Called'
    <3>1. g = Main
      BY <1>10, <2>1 DEF Goroutines
    <3>2. handler'[g] = h
      BY <1>10, <3>1
    <3>3. ToldOfCall(h)'
      BY <1>1, <1>7, <1>10 DEF ToldOfCall
    <3>4. ToldOfCall(handler[g])'
      BY <3>2, <3>3 DEF ToldOfCall
    <3> QED
      BY <1>9, <1>10, <3>2, <3>4
  <2>2. handler'[handler'[Main].node] = Idle
    BY <1>2, <1>10
  <2>3. calls' > 0
    BY <1>1, <1>2
  <2> QED
    BY <1>7, <2>1, <2>2, <2>3 DEF HandlersTell, Idle
<1>15. ASSUME NEW k \in Nodes
       PROVE  CountersTell(k)'
  <2>1. /\ ~IsPast(k, {"number"})' /\ ~IsPast(k, {"number", "link", "store"})'
        /\ ~IsPast(k, Busy)'
    <3>1. CASE k = n
      <4>1. \A pcs : "number" \in pcs => IsAt(n, pcs)'
        BY <1>2, <1>7, <1>10 DEF IsAt
      <4> QED
        BY <3>1, <4>1 DEF IsPast, Busy
    <3>2. CASE k # n
      BY <1>9, <3>2 DEF IsPast
    <3> QED
      BY <3>1, <3>2
  <2>2. seq'[k] = (c + 1) - 1 /\ lastVote'[k] = Links[(c + 1) - 1]
    BY <1>1, <1>2, <1>3
  <2>3. Links' = Links
    BY <1>1, VotesOfCallsStay
  <2> QED
    BY <1>1, <2>1, <2>2, <2>3 DEF CountersTell
<1>16. VotesTell'
  <2>1. ASSUME NEW k \in Nodes, NEW p \in Nodes, NEW i \in 1..((c + 1) - 1)
        PROVE  Holds(k, VoteBy(p, i))
    <3>1. i \in 1..c
      BY <1>2
    <3> QED
      BY <1>3, <3>1
  <2>2. \A k, i : VoteBy(k, i)' = VoteBy(k, i)
    BY <1>1, VotesOfCallsStay
  <2>3. \A k, p, l : Votes(k, p, l)' = Votes(k, p, l)
    BY <1>1 DEF Votes
  <2>4. ASSUME NEW k \in Nodes, NEW p \in Nodes, NEW i \in 1..((c + 1) - 1)
        PROVE  Holds(k, VoteBy(p, i))'
    <3>1. Holds(k, VoteBy(p, i))' <=> Holds(k, VoteBy(p, i))
      BY <2>2, <2>3 DEF Holds
    <3> QED
      BY <2>1, <3>1
  <2>5. \A p, l : VotesBy(p, l) \subseteq VotesBy(p, l)'
    <3>1. 1..c \subseteq 1..(c + 1)
      BY <1>2
    <3> QED
      BY <1>1, <1>7, <2>2, <3>1 DEF VotesBy
  <2>6. \A k, p \in Nodes, l \in Labels :
          Votes(k, p, l)' \subseteq VotesBy(p, l)'
    BY <2>3, <2>5 DEF WaitInv, VotesTell
  <2> QED
    BY <1>1, <1>7, <2>4, <2>6 DEF VotesTell
<1> QED
  BY <1>7, <1>11, <1>12, <1>13, <1>14, <1>15, <1>16 DEF WaitInv

-----------------------------------------------------------------------------
(* No vote is refused                                                      *)

\* A step keeps the network.
LEMMA NetworkKept ==
  ASSUME Steps
  PROVE  net' = net
BY DEF Steps, CallStep, TxStep, VoteStep, NumberStep, LinkStep, StoreStep,
       OwnVoteStep, TxIsHandled

\* The steps of a network whose calls wait for each other.
LEMMA WaitNext ==
  ASSUME GossipingInv, net.waits, WaitInv, OrderInv, Steps
  PROVE  WaitInv' /\ OrderInv'
<1>1. TypeInv /\ KnownInv /\ GossipInv
  BY DEF GossipingInv, WaitInv
<1>2. CASE CallStep
  BY <1>1, <1>2, CallKeepsWaiting
<1>3. ASSUME NEW n \in Nodes, NEW m \in Msgs, TxStep(n, m)
      PROVE  WaitInv' /\ OrderInv'
  BY <1>1, <1>3, TxKeepsWaiting
<1>4. ASSUME NEW n \in Nodes, NEW m \in Msgs, VoteStep(n, m)
      PROVE  WaitInv' /\ OrderInv'
  BY <1>1, <1>4, VoteKeepsWaiting
<1>5. ASSUME NEW g \in Goroutines, NEW n \in Nodes, OwnVoteStep(g, n)
      PROVE  WaitInv' /\ OrderInv'
  BY <1>1, <1>5, OwnVoteKeepsWaiting
<1>6. ASSUME NEW g \in Goroutines, NEW n \in Nodes,
             NumberStep(g, n) \/ LinkStep(g, n) \/ StoreStep(g, n)
      PROVE  WaitInv' /\ OrderInv'
  <2>1. WaitInv'
    BY <1>1, <1>6, NumberKeepsWaiting, LinkKeepsWaiting, StoreKeepsWaiting
  <2>2. UNCHANGED <<net, buckets>>
    BY <1>6 DEF NumberStep, LinkStep, StoreStep
  <2>3. Nodes' = Nodes /\ Labels' = Labels
    BY <2>2, NetworkStays
  <2> QED
    BY <2>1, <2>2, <2>3 DEF OrderInv
<1> QED
  BY <1>2, <1>3, <1>4, <1>5, <1>6 DEF Steps

\* A new network has made no call.
LEMMA NewNetworkWaits ==
  ASSUME Init
  PROVE  WaitInv /\ OrderInv
<1>1. /\ seq = [n \in Nodes |-> 0] /\ calls = 0 /\ refused = {}
      /\ lastVote = [n \in Nodes |-> NoHash]
      /\ known = [n \in Nodes |-> {}]
      /\ \A g \in Goroutines : handler[g] = Idle
      /\ Main \in Goroutines
      /\ \A n, p \in Nodes, l \in Labels : buckets[n][p][l] = newPeerBucket
  BY DEF Init, NewNetwork, Goroutines
<1>2. /\ TypeInv /\ Called = {} /\ Msgs = {}
      /\ \A n, p \in Nodes, l \in Labels : Votes(n, p, l) = {}
  BY NewNetworkIs
<1>3. EarlierKnown /\ MsgsTell /\ HandlersTell /\ VotesTell
  BY <1>1, <1>2 DEF EarlierKnown, MsgsTell, HandlersTell, VotesTell
<1>4. ASSUME NEW n \in Nodes
      PROVE  CountersTell(n)
  <2>1. \A pcs : pcs \in SUBSET Busy => ~IsAt(n, pcs)
    BY <1>1 DEF IsAt, Idle, Busy
  <2>2. /\ IsPast(n, {"number"}) /\ IsPast(n, {"number", "link", "store"})
        /\ IsPast(n, Busy)
    BY <1>1, <1>2, <2>1 DEF IsPast, Busy
  <2>3. Links[0] = NoHash
    BY <1>2, CalledIs, LinksAre DEF TypeInv
  <2> QED
    BY <1>1, <2>2, <2>3 DEF CountersTell
<1>5. HeadIs(newPeerBucket.votes, 0) /\ Exact(newPeerBucket)
  BY DEF newPeerBucket, HeadIs, Exact, InOrder, SeqsIn
<1>6. OrderInv
  BY <1>1, <1>5 DEF OrderInv
<1> QED
  BY <1>1, <1>3, <1>4, <1>6 DEF WaitInv

\* A step that changes nothing keeps what is said of the calls.
LEMMA WaitStutters ==
  ASSUME WaitInv, OrderInv, UNCHANGED vars
  PROVE  WaitInv' /\ OrderInv'
<1>1. UNCHANGED <<net, known, buckets, seq, lastVote, inFlight, handler, calls,
                  refused>>
  BY DEF vars
<1>2. /\ Nodes' = Nodes /\ Labels' = Labels /\ Goroutines' = Goroutines
      /\ Called' = Called /\ Msgs' = Msgs
  BY <1>1, NetworkStays DEF Called, Msgs
<1>3. OrderInv'
  BY <1>1, <1>2 DEF OrderInv
<1>4. HandlersTell'
  BY <1>1, HandlersTellOn DEF WaitInv
<1>5. EarlierKnown' /\ MsgsTell' /\ VotesTell'
  BY <1>1, <1>2, EarlierStay DEF WaitInv
<1>6. ASSUME NEW k \in Nodes
      PROVE  CountersTell(k)'
  <2>1. \A pcs \in SUBSET Busy : IsPast(k, pcs)' <=> IsPast(k, pcs)
    BY <1>1, <1>2 DEF IsPast, IsAt
  <2>2. Holds(k, VoteBy(k, calls)) => Holds(k, VoteBy(k, calls))'
    <3> PICK i : i = calls
      OBVIOUS
    <3>1. Holds(k, VoteBy(k, i))' <=> Holds(k, VoteBy(k, i))
      BY <1>1, EarlierStay
    <3> QED
      BY <1>1, <3>1
  <2> QED
    BY <1>1, <2>1, <2>2, CountersStillTell DEF WaitInv
<1> QED
  BY <1>1, <1>2, <1>3, <1>4, <1>5, <1>6 DEF WaitInv

\* The invariant holds at all times.
LEMMA Invariant == Spec => []Inv
<1>1. Init => (net.waits => WaitInv /\ OrderInv)
  BY NewNetworkWaits
<1>2. (GossipingInv /\ (net.waits => WaitInv /\ OrderInv) /\ [Next]_vars)
      => (net.waits => WaitInv /\ OrderInv)'
  <2> SUFFICES ASSUME GossipingInv, net.waits => WaitInv /\ OrderInv,
                      [Next]_vars, net'.waits
               PROVE  WaitInv' /\ OrderInv'
    OBVIOUS
  <2>1. CASE Next
    <3>1. Steps
      BY <2>1, NextIs DEF GossipingInv
    <3>2. net.waits
      BY <3>1, NetworkKept
    <3> QED
      BY <3>1, <3>2, WaitNext
  <2>2. CASE UNCHANGED vars
    <3>1. net.waits
      BY <2>2 DEF vars
    <3> QED
      BY <2>2, <3>1, WaitStutters
  <2> QED
    BY <2>1, <2>2
<1> QED
  BY <1>1, <1>2, GossipingInvariant, PTL DEF Spec, Inv

\* No Wendy refuses the vote of a node when the calls wait for each other.
THEOREM NoneIsRefused == Spec => []NoVoteRefused
<1>1. Inv => NoVoteRefused
  BY DEF Inv, WaitInv, NoVoteRefused
<1> QED
  BY <1>1, Invariant, PTL

-----------------------------------------------------------------------------
(* Order and quorums                                                       *)

\* All nodes are a quorum, none are not.
LEMMA AllAreAQuorum ==
  ASSUME net \in Networks, Nodes # {}
  PROVE  hasQuorum(Nodes) /\ ~hasQuorum({})
<1> DEFINE n == Cardinality(Nodes)
<1>1. n \in Nat /\ n # 0 /\ Cardinality({}) = 0
  BY NetworkIs, FS_CardinalityType, FS_EmptySet
<1> HIDE DEF n
<1>2. n >= (2 * n) \div 3 + 1 /\ ~(0 >= (2 * n) \div 3 + 1)
  BY <1>1
<1> QED
  BY <1>1, <1>2 DEF hasQuorum, QuorumOf, n

\* The search by the hash of a vote of an honest voter finds that vote.
LEMMA FoundByHash ==
  ASSUME NEW S, NEW H, HonestVotes(S), NEW b \in BucketsOf(S, H),
         NEW v \in ToSet(b.votes)
  PROVE  LET e == elementByHash(b, v.txHash)
         IN  e # 0 /\ b.votes[e] = v
<1>1. PICK x \in DOMAIN b.votes : b.votes[x] = v
  BY DEF ToSet
<1>2. LET d == elementByHash(b, b.votes[x].txHash)
      IN  d # 0 /\ b.votes[d] = b.votes[x]
  BY HonestVoteIsFound
<1> QED
  BY <1>1, <1>2

\* A number below that of a call, and the next, are numbers of calls.
LEMMA NextNumber ==
  ASSUME NEW c \in Nat, NEW i \in 1..c, NEW last \in Nat, ~(last >= i - 1)
  PROVE  last + 2 \in 1..c /\ (last + 2) - 1 = last + 1
OBVIOUS

\* Element e of bucket b is the vote for call i, and nothing was committed.
IsVoteForCall(b, e, i) ==
  /\ b.commitedHashes = {} /\ b.lastSeqSeen \in Nat
  /\ e # 0 /\ b.votes[e].seq = i - 1
  /\ \E x \in DOMAIN b.votes : b.votes[x].seq = i - 1

\* A vote for a call is found by its transaction.
LEMMA VoteOfCallIsFound ==
  ASSUME TypeInv, VotesTell, NEW n \in Nodes, NEW p \in Nodes,
         NEW i \in 1..calls, Holds(n, VoteBy(p, i))
  PROVE  LET h == Script[i].tx
             b == buckets[n][p][Label[h]]
         IN  IsVoteForCall(b, elementByHash(b, h), i)
<1> DEFINE h == Script[i].tx
           l == Label[h]
           b == buckets[n][p][l]
           S == VotesBy(p, l)
           v == VoteBy(p, i)
           none == {}
<1>1. l \in Labels /\ calls \in Nat /\ i \in 1..Len(Script)
  BY CalledIs DEF TypeInv
<1>2. v.pubkey = p /\ v.label = l /\ v.seq = i - 1 /\ v.txHash = h
  BY VoteByIs
<1> HIDE DEF v
<1>3. v \in ToSet(b.votes)
  BY <1>2 DEF Holds, Votes, v
<1>4. v \in S
  BY <1>2 DEF VotesBy, v
<1>5. b \in BucketsOf(S, none)
  BY <1>1, <1>4, VoteOfCallIsAdded
<1>6. HonestVotes(S)
  BY VotesOfCallsAreHonest DEF TypeInv
<1>7. b.commitedHashes = {} /\ b.lastSeqSeen \in Nat
  BY <1>5 DEF BucketsOf
<1> HIDE DEF S, l, b, h, none
<1>8. LET e == elementByHash(b, v.txHash)
      IN  e # 0 /\ b.votes[e] = v
  BY <1>3, <1>5, <1>6, FoundByHash
<1>9. \E x \in DOMAIN b.votes : b.votes[x] = v
  BY <1>3 DEF ToSet
<1>10. IsVoteForCall(b, elementByHash(b, h), i)
  BY <1>2, <1>7, <1>8, <1>9 DEF IsVoteForCall
<1> QED
  BY <1>10 DEF b, h, l

\* When the calls wait for each other, every node orders their transactions as
\* Main added them, whatever the labels of others are.
THEOREM CallsAreInOrder == Spec => []OrderOfCallsIsKept
<1>1. Inv => OrderOfCallsIsKept
  <2> SUFFICES ASSUME Inv, Quiet, net.waits, NEW n \in Nodes,
                      NEW i \in 1..calls, NEW j \in 1..calls, i < j,
                      Label[Script[i].tx] = Label[Script[j].tx]
               PROVE  /\ ~IsBlockedBy(n, Script[i].tx, Script[j].tx)
                      /\ IsBlockedBy(n, Script[j].tx, Script[i].tx)
    BY DEF OrderOfCallsIsKept
  <2>1. /\ TypeInv /\ KnownInv /\ WaitInv /\ GossipInv /\ VotesTell
        /\ net \in Networks /\ calls \in Nat
    BY CalledIs DEF Inv, GossipingInv, WaitInv, TypeInv
  <2>2. \A k, p \in Nodes, x \in 1..calls : Holds(k, VoteBy(p, x))
    BY <2>1, QuietIs
  <2> DEFINE h1 == Script[i].tx
             h2 == Script[j].tx
  <2>3. ASSUME NEW p \in Nodes
        PROVE  /\ Before(buckets[n][p][Label[h1]], h1, h2)
               /\ ~Before(buckets[n][p][Label[h2]], h2, h1)
    <3> DEFINE b == buckets[n][p][Label[h1]]
    <3>1. IsVoteForCall(b, elementByHash(b, h1), i)
      BY <2>1, <2>2, VoteOfCallIsFound
    <3>2. IsVoteForCall(b, elementByHash(b, h2), j)
      BY <2>1, <2>2, VoteOfCallIsFound
    <3>3. i - 1 < j - 1 /\ ~(j - 1 < i - 1)
      BY <2>1
    <3>4. buckets[n][p][Label[h2]] = b
      OBVIOUS
    <3> HIDE DEF b, h1, h2
    <3>5. Before(b, h1, h2) /\ ~Before(b, h2, h1)
      BY <3>1, <3>2, <3>3 DEF Before, IsVoteForCall
    <3> QED
      BY <3>4, <3>5 DEF b
  <2>4. /\ {p \in Nodes : Before(buckets[n][p][Label[h1]], h1, h2)} = Nodes
        /\ {p \in Nodes : Before(buckets[n][p][Label[h2]], h2, h1)} = {}
    BY <2>3
  <2>5. hasQuorum(Nodes) /\ ~hasQuorum({})
    BY <2>1, AllAreAQuorum
  <2> QED
    BY <2>4, <2>5 DEF IsBlockedBy
<1> QED
  BY <1>1, Invariant, PTL

\* With one label no transaction of a call is blocked on any node.
THEOREM CallsAreNotBlocked == Spec => []NotBlockedWhenQuiet
<1>1. Inv => NotBlockedWhenQuiet
  <2> SUFFICES ASSUME Inv, Quiet, net.waits, Cardinality(Labels) = 1,
                      NEW n \in Nodes, NEW i \in 1..calls
               PROVE  ~IsBlocked(n, Script[i].tx)
    BY DEF NotBlockedWhenQuiet, Called
  <2>1. /\ TypeInv /\ KnownInv /\ WaitInv /\ GossipInv /\ VotesTell /\ OrderInv
        /\ net \in Networks /\ calls \in Nat
        /\ 1..calls \subseteq 1..Len(Script)
        /\ \A x \in 1..Len(Script) : Label[Script[x].tx] \in Labels
    BY CalledIs DEF Inv, GossipingInv, WaitInv, TypeInv
  <2>2. \A k, p \in Nodes, x \in 1..calls : Holds(k, VoteBy(p, x))
    BY <2>1, QuietIs
  <2> DEFINE h == Script[i].tx
  <2>3. ASSUME NEW p \in Nodes
        PROVE  Seen(buckets[n][p][Label[h]], h)
    <3> DEFINE b == buckets[n][p][Label[h]]
               last == b.lastSeqSeen
    <3>1. IsVoteForCall(b, elementByHash(b, h), i)
      BY <2>1, <2>2, VoteOfCallIsFound
    <3>2. last + 1 \notin SeqsIn(b.votes)
      BY <2>1 DEF OrderInv, Exact
    <3>3. ASSUME NEW x \in 1..calls
          PROVE  x - 1 \in SeqsIn(b.votes)
      <4> DEFINE k == Script[x].tx
                 c == buckets[n][p][Label[k]]
      <4>1. IsVoteForCall(c, elementByHash(c, k), x)
        BY <2>1, <2>2, VoteOfCallIsFound
      <4>2. c = b
        BY <2>1, OneLabel
      <4> HIDE DEF b, c, k
      <4> QED
        BY <4>1, <4>2 DEF SeqsIn, IsVoteForCall
    <3>4. calls \in Nat
      BY <2>1
    <3> HIDE DEF b, h
    <3>5. last \in Nat
      BY <3>1 DEF IsVoteForCall
    <3> HIDE DEF last
    <3>6. last >= i - 1
      <4>1. ~(last >= i - 1) =>
              last + 2 \in 1..calls /\ (last + 2) - 1 = last + 1
        BY <3>4, <3>5, NextNumber
      <4> QED
        BY <3>2, <3>3, <4>1
    <3>7. i - 1 <= last
      BY <3>4, <3>5, <3>6
    <3>8. Seen(b, h)
      BY <3>1, <3>7 DEF Seen, IsVoteForCall, last
    <3> QED
      BY <3>8 DEF b, h
  <2>4. {p \in Nodes : Seen(buckets[n][p][Label[h]], h)} = Nodes
    BY <2>3
  <2>5. hasQuorum(Nodes)
    BY <2>1, AllAreAQuorum
  <2> QED
    BY <2>4, <2>5 DEF IsBlocked
<1> QED
  BY <1>1, Invariant, PTL
=============================================================================
