----------------------------- MODULE WendyProofs -----------------------------
(***************************************************************************)
(* For any number of validators that change at any time, any votes in any  *)
(* order, and any blocks: of two transactions one is blocked by the other, *)
(* a priority that rests on votes without gaps is final, and the index of  *)
(* the pending transactions stays in step.  Then, of the pure part of      *)
(* block production (BlockMaking), for any pending transactions, matrices  *)
(* and options: recompute finds the closure, the limits hold, and a block  *)
(* without limits leaves nothing out.  Last, neither does a block whose    *)
(* matrix is read cell by cell while votes arrive in order.                *)
(***************************************************************************)
EXTENDS Wendy, BlockMaking, Lemmas, FiniteSetTheorems

-----------------------------------------------------------------------------
(* The invariant of the peers                                              *)

\* The votes that peer id may hold under label l.
VotesOf(id, l) == {v \in env.votes : v.pubkey = id /\ label[v.txHash] = l}

BucketOK(b, id, l) ==
  b \in BucketsOf(VotesOf(id, l), TxHashes) /\ NoGaps(b)

PeerOK(p, id) ==
  /\ p = [l \in Labels |-> p[l]]
  /\ \A l \in Labels : BucketOK(p[l], id, l)

PeersOK ==
  /\ IsFiniteSet(DOMAIN peers)
  /\ \A id \in DOMAIN peers : PeerOK(peers[id], id)

\* What the goroutines inside UpdateValidatorSet and AddBlock hold.
GoroutinesOK ==
  /\ \/ updating = Idle
     \/ \E vs \in env.validatorSets, pc \in {"quorum", "peers"} :
          updating = [pc |-> pc, vs |-> vs]
  /\ \/ adding = Idle
     \/ \E block \in env.blocks :
          adding = [pc |-> "commit", block |-> block]

TypeOK ==
  /\ env \in Environments
  /\ validators \in Seq(ToSet(validators))
  /\ quorum \in Nat
  /\ PeersOK
  /\ GoroutinesOK

\* The votes of a peer are numbered.
LEMMA VotesAreNumbered ==
  ASSUME env \in Environments, NEW id, NEW l
  PROVE  Numbered(VotesOf(id, l))
  BY WendyAssumption DEF Numbered, VotesOf

\* What a step may do to a bucket: nothing, add a vote that arrives (and is
\* registered by its transaction unless it fails), or commit the transactions of
\* a block that have its label.
BucketStep(id, l) ==
  LET b == PeerOf(id)[l]
      nb == peers'[id][l]
  IN  \/ nb = b
      \/ \E v \in VotesOf(id, l) :
           /\ nb = AddVote(b, v).bucket
           /\ AddVote(b, v).err \/ v.txHash \in DOMAIN votes'
           /\ Arrives(v)
           /\ env.inOrder => v \in arrived'
      \/ \E hs \in SUBSET TxHashes :
           /\ nb = UpdateTxSet(b, hs)
           /\ \E block \in Seq(TxHashes) :
                /\ CommitToPeers(block)
                /\ hs = {h \in ToSet(block) : label[h] = l}

PeersStep ==
  /\ env' = env
  /\ DOMAIN votes \subseteq DOMAIN votes'
  /\ arrived \subseteq arrived'
  /\ IsFiniteSet(DOMAIN peers')
  /\ \A id \in DOMAIN peers' :
       /\ peers'[id] = [l \in Labels |-> peers'[id][l]]
       /\ \A l \in Labels : BucketStep(id, l)

\* The elements of a sequence are no more than it is long.
LEMMA FiniteSequence ==
  ASSUME NEW S, NEW s \in Seq(S)
  PROVE  IsFiniteSet(ToSet(s)) /\ Cardinality(ToSet(s)) <= Len(s)
<1>1. s \in Surjection(1..Len(s), ToSet(s))
  BY DEF Surjection, ToSet
<1>2. IsFiniteSet(1..Len(s)) /\ Cardinality(1..Len(s)) = Len(s)
  <2>1. Len(s) \in Int /\ 1 \in Int /\ Len(s) \in Nat
    OBVIOUS
  <2>2. /\ IsFiniteSet(1..Len(s))
        /\ Cardinality(1..Len(s)) = IF 1 > Len(s) THEN 0 ELSE Len(s) - 1 + 1
    BY <2>1, FS_Interval
  <2> QED
    BY <2>1, <2>2
<1> QED
  BY <1>1, <1>2, FS_Surjection

\* An empty bucket is good.
LEMMA NewPeerOK ==
  ASSUME NEW id
  PROVE  PeerOK(newPeer, id)
<1>1. newPeer = [l \in Labels |-> newPeer[l]]
  BY DEF newPeer
<1>2. ASSUME NEW l \in Labels PROVE BucketOK(newPeer[l], id, l)
  <2>1. newPeer[l] = newPeerBucket
    BY DEF newPeer
  <2> QED
    BY <2>1 DEF newPeerBucket, BucketOK, BucketsOf, NoGaps, SeqsIn
<1> QED
  BY <1>1, <1>2 DEF PeerOK

\* So is that of any peer, known or new.
LEMMA PeerOfOK ==
  ASSUME PeersOK, NEW id
  PROVE  PeerOK(PeerOf(id), id)
  BY NewPeerOK DEF PeersOK, PeerOf

\* AddVote does what Lemmas says to the bucket of a vote.
LEMMA AddVoteToBucket ==
  ASSUME TypeOK, NEW id, NEW l \in Labels, NEW v \in VotesOf(id, l)
  PROVE  AddVoteDoes(PeerOf(id)[l], AddVote(PeerOf(id)[l], v), v,
                     VotesOf(id, l), TxHashes)
<1>1. PeerOf(id)[l] \in BucketsOf(VotesOf(id, l), TxHashes)
  BY PeerOfOK DEF TypeOK, PeerOK, BucketOK
<1>2. Numbered(VotesOf(id, l))
  BY VotesAreNumbered DEF TypeOK
<1> QED
  BY <1>1, <1>2, AddVoteIs

\* Steps that do not touch the peers.
LEMMA PeersUntouched ==
  ASSUME TypeOK, env' = env, peers' = peers, votes' = votes,
         arrived' = arrived
  PROVE  PeersStep
  BY DEF PeersStep, BucketStep, PeerOf, TypeOK, PeersOK, PeerOK

\* UpdateValidatorSet keeps the peers that stay and makes new ones.
LEMMA UpdatePeersStep ==
  ASSUME TypeOK, UpdatePeers
  PROVE  PeersStep
<1>1. /\ env' = env /\ votes' = votes /\ arrived' = arrived
      /\ peers' = [id \in ToSet(updating.vs) |-> PeerOf(id)]
  BY DEF UpdatePeers, PeerOf
<1>2. updating.vs \in Seq(ToSet(updating.vs))
  BY WendyAssumption DEF UpdatePeers, Idle, TypeOK, GoroutinesOK
<1>3. IsFiniteSet(DOMAIN peers')
  BY <1>1, <1>2, FiniteSequence
<1>4. ASSUME NEW id \in DOMAIN peers'
      PROVE  /\ peers'[id] = [l \in Labels |-> peers'[id][l]]
             /\ \A l \in Labels : BucketStep(id, l)
  <2>1. peers'[id] = PeerOf(id)
    BY <1>1
  <2>2. PeerOf(id) = [l \in Labels |-> PeerOf(id)[l]]
    BY PeerOfOK DEF TypeOK, PeerOK
  <2> QED
    BY <2>1, <2>2 DEF BucketStep
<1> QED
  BY <1>1, <1>3, <1>4 DEF PeersStep

\* AddVote touches the bucket of the vote only.
LEMMA AddVoteStep ==
  ASSUME TypeOK, NEW v \in env.votes, AddVoteToPeer(v)
  PROVE  PeersStep
<1> DEFINE k == v.pubkey
           m == label[v.txHash]
           r == AddVote(PeerOf(k)[m], v)
           np == [PeerOf(k) EXCEPT ![m] = r.bucket]
<1>1. m \in Labels /\ v \in VotesOf(k, m)
  BY WendyAssumption DEF TypeOK, Labels, label, VotesOf
<1>2. /\ env' = env
      /\ peers' = SetPeer(k, np)
      /\ DOMAIN votes \subseteq DOMAIN votes'
      /\ r.err \/ v.txHash \in DOMAIN votes'
      /\ arrived \subseteq arrived'
      /\ Arrives(v)
      /\ env.inOrder => v \in arrived'
  BY DEF AddVoteToPeer
<1>3. PeerOf(k) = [l \in Labels |-> PeerOf(k)[l]]
  BY PeerOfOK DEF TypeOK, PeerOK
<1>4. /\ np = [l \in Labels |-> np[l]]
      /\ np[m] = r.bucket
      /\ \A l \in Labels : l # m => np[l] = PeerOf(k)[l]
  BY <1>1, <1>3
<1> HIDE DEF r, np, k, m
<1>5. /\ DOMAIN peers' = DOMAIN peers \cup {k}
      /\ peers'[k] = np
      /\ \A id \in DOMAIN peers : id # k => peers'[id] = peers[id]
  BY <1>2 DEF SetPeer
<1>6. IsFiniteSet(DOMAIN peers')
  BY <1>5, FS_AddElement DEF TypeOK, PeersOK
<1>7. ASSUME NEW l \in Labels PROVE BucketStep(k, l)
  <2>1. CASE l = m
    BY <2>1, <1>1, <1>2, <1>4, <1>5 DEF BucketStep, r
  <2>2. CASE l # m
    BY <2>2, <1>4, <1>5 DEF BucketStep
  <2> QED
    BY <2>1, <2>2
<1>8. ASSUME NEW id \in DOMAIN peers, id # k
      PROVE  /\ peers'[id] = [l \in Labels |-> peers'[id][l]]
             /\ \A l \in Labels : BucketStep(id, l)
  <2>1. peers'[id] = PeerOf(id)
    BY <1>5, <1>8 DEF PeerOf
  <2>2. PeerOf(id) = [l \in Labels |-> PeerOf(id)[l]]
    BY PeerOfOK DEF TypeOK, PeerOK
  <2> QED
    BY <2>1, <2>2 DEF BucketStep
<1> QED
  BY <1>2, <1>4, <1>5, <1>6, <1>7, <1>8 DEF PeersStep

\* A block is commited to every peer.
LEMMA CommitStep ==
  ASSUME TypeOK, NEW block \in Seq(TxHashes), CommitToPeers(block),
         env' = env, votes' = votes, arrived' = arrived
  PROVE  PeersStep
<1>1. peers' = [id \in DOMAIN peers |-> UpdatePeerTxSet(peers[id], block)]
  BY DEF CommitToPeers
<1>2. ASSUME NEW id \in DOMAIN peers
      PROVE  /\ peers'[id] = [l \in Labels |-> peers'[id][l]]
             /\ \A l \in Labels : BucketStep(id, l)
  <2> DEFINE hs(l) == {h \in ToSet(block) : label[h] = l}
  <2>1. peers'[id] = [l \in Labels |-> UpdateTxSet(PeerOf(id)[l], hs(l))]
    BY <1>1 DEF UpdatePeerTxSet, PeerOf
  <2>2. \A l \in Labels : hs(l) \in SUBSET TxHashes
    BY DEF ToSet
  <2> HIDE DEF hs
  <2>3. \A l \in Labels : peers'[id][l] = UpdateTxSet(PeerOf(id)[l], hs(l))
    BY <2>1
  <2>4. peers'[id] = [l \in Labels |-> peers'[id][l]]
    BY <2>1
  <2>5. \A l \in Labels : hs(l) = {h \in ToSet(block) : label[h] = l}
    BY DEF hs
  <2>6. ASSUME NEW l \in Labels PROVE BucketStep(id, l)
    <3>1. \E cs \in SUBSET TxHashes :
            /\ peers'[id][l] = UpdateTxSet(PeerOf(id)[l], cs)
            /\ \E bl \in Seq(TxHashes) :
                 /\ CommitToPeers(bl)
                 /\ cs = {h \in ToSet(bl) : label[h] = l}
      BY <2>2, <2>3, <2>5
    <3> QED
      BY <3>1 DEF BucketStep
  <2> QED
    BY <2>4, <2>6
<1>3. IsFiniteSet(DOMAIN peers')
  BY <1>1 DEF TypeOK, PeersOK
<1>4. DOMAIN peers' = DOMAIN peers
  BY <1>1
<1> QED
  BY <1>2, <1>3, <1>4 DEF PeersStep

\* All steps that do not touch the peers.
LEMMA OtherStep ==
  ASSUME \/ \E vs \in env.validatorSets : UpdateValidators(vs)
         \/ UpdateQuorum
         \/ \E h \in TxHashes : AddTx(h)
         \/ \E block \in env.blocks : AddBlockRemove(block)
         \/ \E opts \in env.options : NewBlockStart(opts)
         \/ \E blocked \in BOOLEAN : NewBlockCell(blocked)
         \/ NewBlockPanic
         \/ NewBlockReturn
         \/ UNCHANGED vars
  PROVE  env' = env /\ peers' = peers /\ votes' = votes /\ arrived' = arrived
  BY DEF UpdateValidators, UpdateQuorum, AddTx, AddBlockRemove,
         NewBlockStart, NewBlockCell, NewBlockPanic, NewBlockReturn, vars

\* Every step is one of these.
LEMMA StepOfPeers ==
  ASSUME TypeOK, [Next]_vars
  PROVE  PeersStep
<1>1. CASE UpdatePeers
  BY <1>1, UpdatePeersStep
<1>2. CASE \E v \in env.votes : AddVoteToPeer(v)
  BY <1>2, AddVoteStep
<1>3. CASE \E block \in env.blocks : CommitBlock(block)
  BY <1>3, CommitStep, WendyAssumption DEF CommitBlock, TypeOK
<1>4. CASE AddBlockCommit
  <2>1. adding.block \in Seq(TxHashes)
    BY <1>4, WendyAssumption DEF AddBlockCommit, Idle, TypeOK, GoroutinesOK
  <2> QED
    BY <1>4, <2>1, CommitStep DEF AddBlockCommit
<1> QED
  BY <1>1, <1>2, <1>3, <1>4, OtherStep, PeersUntouched DEF Next

\* A step keeps every bucket good, of votes of its peer and without gaps.
LEMMA BucketStepKeeps ==
  ASSUME TypeOK, NEW id, NEW l \in Labels, BucketStep(id, l)
  PROVE  BucketOK(peers'[id][l], id, l)
<1> DEFINE b == PeerOf(id)[l]
           nb == peers'[id][l]
           S == VotesOf(id, l)
<1>1. BucketOK(b, id, l) /\ Numbered(S)
  BY PeerOfOK, VotesAreNumbered DEF TypeOK, PeerOK
<1>2. CASE nb = b
  BY <1>1, <1>2
<1>3. ASSUME NEW v \in S, nb = AddVote(b, v).bucket
      PROVE  BucketOK(nb, id, l)
  <2>1. AddVoteDoes(b, AddVote(b, v), v, S, TxHashes)
    BY AddVoteToBucket
  <2>2. NoGaps(nb)
    BY <1>1, <1>3, <2>1, AddVoteLeavesNoGaps DEF BucketOK
  <2> QED
    BY <1>3, <2>1, <2>2 DEF AddVoteDoes, BucketOK
<1>4. ASSUME NEW hs \in SUBSET TxHashes, nb = UpdateTxSet(b, hs)
      PROVE  BucketOK(nb, id, l)
  <2>1. /\ nb.votes = b.votes /\ nb.lastSeqSeen = b.lastSeqSeen
        /\ nb \in BucketsOf(S, TxHashes)
    BY <1>1, <1>4 DEF UpdateTxSet, BucketOK, BucketsOf
  <2> QED
    BY <1>1, <2>1 DEF BucketOK, NoGaps
<1> QED
  BY <1>2, <1>3, <1>4 DEF BucketStep

\* Steps of the buckets keep the peers as they should be.
LEMMA PeersNext ==
  ASSUME TypeOK, PeersStep
  PROVE  PeersOK'
<1>1. IsFiniteSet(DOMAIN peers')
  BY DEF PeersStep
<1>2. \A id, l : VotesOf(id, l)' = VotesOf(id, l) /\ Labels' = Labels
  BY DEF PeersStep, VotesOf, Labels, label
<1>3. ASSUME NEW id \in DOMAIN peers', NEW l \in Labels
      PROVE  BucketOK(peers'[id][l], id, l)
  BY BucketStepKeeps DEF PeersStep
<1>4. \A id \in DOMAIN peers' : peers'[id] = [l \in Labels |-> peers'[id][l]]
  BY DEF PeersStep
<1> QED
  BY <1>1, <1>2, <1>3, <1>4 DEF PeersOK, PeerOK, BucketOK

\* The fields outside of the peers.
LEMMA FieldsNext ==
  ASSUME TypeOK, [Next]_vars, env' = env
  PROVE  /\ validators' \in Seq(ToSet(validators'))
         /\ quorum' \in Nat
         /\ GoroutinesOK'
<1>1. ASSUME NEW vs \in env.validatorSets, UpdateValidators(vs)
      PROVE  /\ validators' \in Seq(ToSet(validators'))
             /\ quorum' \in Nat
             /\ GoroutinesOK'
  BY <1>1, WendyAssumption DEF UpdateValidators, TypeOK, GoroutinesOK
<1>2. CASE UpdateQuorum
  <2>1. PICK vs \in env.validatorSets : updating = [pc |-> "quorum", vs |-> vs]
    BY <1>2 DEF UpdateQuorum, TypeOK, GoroutinesOK, Idle
  <2>2. updating' = [pc |-> "peers", vs |-> vs]
    BY <1>2, <2>1 DEF UpdateQuorum
  <2>3. quorum' = QuorumOf(Len(vs)) /\ vs \in Seq(ToSet(vs))
    BY <1>2, <2>1, WendyAssumption DEF UpdateQuorum, TypeOK
  <2>4. quorum' \in Nat
    <3>1. Len(vs) \in Nat
      BY <2>3
    <3> QED
      BY <2>3, <3>1 DEF QuorumOf
  <2>5. validators' = validators /\ adding' = adding
    BY <1>2 DEF UpdateQuorum
  <2> QED
    BY <2>2, <2>4, <2>5 DEF TypeOK, GoroutinesOK
<1>3. CASE UpdatePeers
  BY <1>3 DEF UpdatePeers, TypeOK, GoroutinesOK
<1>4. ASSUME NEW block \in env.blocks, AddBlockRemove(block)
      PROVE  /\ validators' \in Seq(ToSet(validators'))
             /\ quorum' \in Nat
             /\ GoroutinesOK'
  BY <1>4 DEF AddBlockRemove, updateVars, TypeOK, GoroutinesOK
<1>5. CASE AddBlockCommit
  BY <1>5 DEF AddBlockCommit, updateVars, TypeOK, GoroutinesOK
<1>6. CASE \/ \E h \in TxHashes : AddTx(h)
           \/ \E v \in env.votes : AddVoteToPeer(v)
           \/ \E block \in env.blocks : CommitBlock(block)
           \/ \E opts \in env.options : NewBlockStart(opts)
           \/ \E blocked \in BOOLEAN : NewBlockCell(blocked)
           \/ NewBlockPanic
           \/ NewBlockReturn
           \/ UNCHANGED vars
  <2>1. /\ validators' = validators /\ quorum' = quorum
        /\ updating' = updating /\ adding' = adding
    BY <1>6 DEF AddTx, AddVoteToPeer, CommitBlock, NewBlockStart,
                NewBlockCell, NewBlockPanic, NewBlockReturn, vars, updateVars
  <2> QED
    BY <2>1 DEF TypeOK, GoroutinesOK
<1> QED
  BY <1>1, <1>2, <1>3, <1>4, <1>5, <1>6 DEF Next

\* There are no peers and no votes at first.
LEMMA TypeInit == Init => TypeOK
<1> SUFFICES ASSUME Init PROVE TypeOK
  OBVIOUS
<1>1. DOMAIN peers = {} /\ IsFiniteSet({})
  BY FS_EmptySet DEF Init
<1>2. validators \in Seq(ToSet(validators))
  BY DEF Init
<1> QED
  BY <1>1, <1>2 DEF Init, TypeOK, PeersOK, GoroutinesOK

\* Every action keeps the type invariant.
LEMMA TypeNext == TypeOK /\ [Next]_vars => TypeOK'
<1> SUFFICES ASSUME TypeOK, [Next]_vars PROVE TypeOK'
  OBVIOUS
<1>1. PeersStep
  BY StepOfPeers
<1>2. env' = env
  BY <1>1 DEF PeersStep
<1> QED
  BY <1>1, <1>2, PeersNext, FieldsNext DEF TypeOK

-----------------------------------------------------------------------------
(* Quorums                                                                 *)

\* Two quorums of the validators in force share a peer.
LEMMA QuorumsIntersect ==
  ASSUME TypeOK, ValidatorsInForce, NEW P \in SUBSET DOMAIN peers,
         NEW Q \in SUBSET DOMAIN peers, hasQuorum(P), hasQuorum(Q)
  PROVE  P \cap Q # {}
<1> DEFINE D == DOMAIN peers
           n == Len(validators)
<1>1. IsFiniteSet(D) /\ IsFiniteSet(P) /\ IsFiniteSet(Q)
  BY FS_Subset DEF TypeOK, PeersOK
<1>2. /\ Cardinality(D) \in Nat /\ Cardinality(P) \in Nat
      /\ Cardinality(Q) \in Nat
  BY <1>1, FS_CardinalityType
<1>3. n \in Nat /\ Cardinality(D) <= n
  <2>1. validators \in Seq(ToSet(validators)) /\ D \in SUBSET ToSet(validators)
    BY DEF TypeOK, ValidatorsInForce
  <2>2. /\ IsFiniteSet(ToSet(validators))
        /\ Cardinality(ToSet(validators)) <= Len(validators)
    BY <2>1, FiniteSequence
  <2>3. Cardinality(D) <= Cardinality(ToSet(validators))
    BY <2>1, <2>2, FS_Subset
  <2>4. Cardinality(ToSet(validators)) \in Nat
    BY <2>2, FS_CardinalityType
  <2> QED
    BY <1>2, <2>1, <2>2, <2>3, <2>4
<1>4. /\ quorum = (2 * n) \div 3 + 1
      /\ Cardinality(P) >= quorum /\ Cardinality(Q) >= quorum
  BY DEF ValidatorsInForce, QuorumOf, hasQuorum
<1> HIDE DEF D, n
<1>5. Cardinality(P) + Cardinality(Q) > Cardinality(D)
  BY <1>2, <1>3, <1>4
<1> QED
  BY <1>1, <1>5, FS_MajoritiesIntersect DEF D

\* Of two transactions one is blocked by the other while the peers are the
\* validators, unless some peer holds both of them as commited.
THEOREM OneOfTwoHasNoPriority == Spec => []OneOfTwoIsBlocked
<1>1. TypeOK => OneOfTwoIsBlocked
  <2> SUFFICES ASSUME TypeOK, ValidatorsInForce, NEW p \in Pairs,
                      BothBefore(p[1], p[2])
               PROVE  \E id \in DOMAIN peers :
                        {p[1], p[2]} \subseteq
                          peers[id][label[p[1]]].commitedHashes
    BY DEF OneOfTwoIsBlocked
  <2> DEFINE h == p[1]
             g == p[2]
             l == label[h]
  <2>1. l = label[g] /\ l \in Labels
    BY DEF Pairs, Labels
  <2>2. hasQuorum(PeersBefore(h, g)) /\ hasQuorum(PeersBefore(g, h))
    BY DEF BothBefore, IsBlockedBy
  <2>3. /\ PeersBefore(h, g) \in SUBSET DOMAIN peers
        /\ PeersBefore(g, h) \in SUBSET DOMAIN peers
    BY DEF PeersBefore
  <2>4. PICK id \in PeersBefore(h, g) : id \in PeersBefore(g, h)
    BY <2>2, <2>3, QuorumsIntersect
  <2>5. /\ id \in DOMAIN peers
        /\ Before(peers[id][l], h, g) /\ Before(peers[id][l], g, h)
    BY <2>1, <2>4 DEF PeersBefore
  <2>6. peers[id][l] \in BucketsOf(VotesOf(id, l), TxHashes)
    BY <2>1, <2>5 DEF TypeOK, PeersOK, PeerOK, BucketOK
  <2>7. Numbered(VotesOf(id, l))
    BY VotesAreNumbered DEF TypeOK
  <2>8. {h, g} \subseteq peers[id][l].commitedHashes
    BY <2>5, <2>6, <2>7, BeforeIsAsymmetric
  <2> QED
    BY <2>5, <2>8
<1> QED
  BY <1>1, TypeInit, TypeNext, PTL DEF Spec

-----------------------------------------------------------------------------
(* Priorities                                                              *)

\* Nothing that a peer has seen is unseen later.
LEMMA StepKeepsSeen ==
  ASSUME TypeOK, NEW id, NEW l \in Labels, BucketStep(id, l), NEW h,
         Seen(PeerOf(id)[l], h)
  PROVE  Seen(peers'[id][l], h)
<1> DEFINE b == PeerOf(id)[l]
           nb == peers'[id][l]
           S == VotesOf(id, l)
<1>1. b \in BucketsOf(S, TxHashes) /\ Numbered(S)
  BY PeerOfOK, VotesAreNumbered DEF TypeOK, PeerOK, BucketOK
<1>2. CASE nb = b
  BY <1>2
<1>3. ASSUME NEW v \in S, nb = AddVote(b, v).bucket
      PROVE  Seen(nb, h)
  <2>1. AddVoteDoes(b, AddVote(b, v), v, S, TxHashes)
    BY AddVoteToBucket
  <2> QED
    BY <1>1, <1>3, <2>1, AddVoteKeepsSeen
<1>4. ASSUME NEW hs \in SUBSET TxHashes, nb = UpdateTxSet(b, hs)
      PROVE  Seen(nb, h)
  BY <1>1, <1>4, UpdateTxSetKeeps
<1> QED
  BY <1>2, <1>3, <1>4 DEF BucketStep

\* Nor is what it has seen before a transaction moved behind it.
LEMMA StepKeepsSeenBefore ==
  ASSUME NumbersAreClear, TypeOK, NEW id, NEW l \in Labels, BucketStep(id, l),
         \A v \in VotesOf(id, l) :
           v.seq = 0 => 0 \in SeqsIn(PeerOf(id)[l].votes),
         NEW h, NEW g, Seen(PeerOf(id)[l], h), Before(PeerOf(id)[l], h, g),
         g \notin peers'[id][l].commitedHashes
  PROVE  Before(peers'[id][l], h, g)
<1> DEFINE b == PeerOf(id)[l]
           nb == peers'[id][l]
           S == VotesOf(id, l)
<1>1. b \in BucketsOf(S, TxHashes) /\ NoGaps(b) /\ Numbered(S)
  BY PeerOfOK, VotesAreNumbered DEF TypeOK, PeerOK, BucketOK
<1>2. CASE nb = b
  BY <1>2
<1>3. ASSUME NEW v \in S, nb = AddVote(b, v).bucket
      PROVE  Before(nb, h, g)
  <2>1. AddVoteDoes(b, AddVote(b, v), v, S, TxHashes)
    BY AddVoteToBucket
  <2>2. v.seq = 0 => 0 \in SeqsIn(b.votes)
    OBVIOUS
  <2>3. ASSUME NEW i \in DOMAIN b.votes, b.votes[i].seq = v.seq
        PROVE  b.votes[i].txHash = v.txHash
    <3>1. b.votes[i] \in S
      BY <1>1 DEF BucketsOf
    <3> QED
      BY <2>3, <3>1 DEF NumbersAreClear, TypeOK, VotesOf, label
  <2> QED
    BY <1>1, <1>3, <2>1, <2>2, <2>3, AddVoteKeepsSeenBefore
<1>4. ASSUME NEW hs \in SUBSET TxHashes, nb = UpdateTxSet(b, hs)
      PROVE  Before(nb, h, g)
  <2>1. g \notin hs
    BY <1>1, <1>4, UpdateTxSetKeeps
  <2> QED
    BY <1>1, <1>4, <2>1, UpdateTxSetKeeps
<1> QED
  BY <1>2, <1>3, <1>4 DEF BucketStep

\* No number leaves the list of a peer.
LEMMA StepKeepsSeqs ==
  ASSUME TypeOK, NEW id, NEW l \in Labels, BucketStep(id, l)
  PROVE  SeqsIn(PeerOf(id)[l].votes) \subseteq SeqsIn(peers'[id][l].votes)
<1> DEFINE b == PeerOf(id)[l]
           nb == peers'[id][l]
           S == VotesOf(id, l)
<1>1. b \in BucketsOf(S, TxHashes) /\ Numbered(S)
  BY PeerOfOK, VotesAreNumbered DEF TypeOK, PeerOK, BucketOK
<1>2. CASE nb = b
  BY <1>2
<1>3. ASSUME NEW v \in S, nb = AddVote(b, v).bucket
      PROVE  SeqsIn(b.votes) \subseteq SeqsIn(nb.votes)
  <2>1. AddVoteDoes(b, AddVote(b, v), v, S, TxHashes)
    BY AddVoteToBucket
  <2> QED
    BY <1>1, <1>3, <2>1, AddVoteKeepsSeqs
<1>4. ASSUME NEW hs \in SUBSET TxHashes, nb = UpdateTxSet(b, hs)
      PROVE  SeqsIn(b.votes) \subseteq SeqsIn(nb.votes)
  <2>1. nb.votes = b.votes
    BY <1>1, <1>4, UpdateTxSetKeeps
  <2> QED
    BY <2>1
<1> QED
  BY <1>2, <1>3, <1>4 DEF BucketStep

\* A quorum stays one when more peers join it.
LEMMA QuorumGrows ==
  ASSUME NEW q \in Nat, NEW P, NEW Q, IsFiniteSet(Q), P \subseteq Q,
         Cardinality(P) >= q
  PROVE  Cardinality(Q) >= q
<1>1. IsFiniteSet(P) /\ Cardinality(P) <= Cardinality(Q)
  BY FS_Subset
<1>2. Cardinality(P) \in Nat /\ Cardinality(Q) \in Nat
  BY <1>1, FS_CardinalityType
<1> QED
  BY <1>1, <1>2

\* While no validator is removed and the quorum stays, a transaction that is not
\* blocked is never blocked later, and priority that a quorum of peers has seen
\* from their first votes on is final, whatever votes arrive later and in
\* whatever order, if no voter gives a number of a label to two transactions.
THEOREM SeenPriorityStays ==
  ASSUME NumbersAreClear
  PROVE  Spec => SeenPriorityIsFinal
<1> DEFINE Final ==
             quorum' = quorum /\ DOMAIN peers \subseteq DOMAIN peers' =>
               /\ \A h \in TxHashes : ~IsBlocked(h) => ~IsBlocked(h)'
               /\ \A p \in Pairs :
                    hasQuorum(SeenBefore(p[1], p[2])) /\ ~CommitedSomewhere(p[2])'
                    => hasQuorum(SeenBefore(p[1], p[2]))'
<1>1. ASSUME TypeOK, [Next]_vars PROVE Final
  <2> SUFFICES ASSUME quorum' = quorum, DOMAIN peers \subseteq DOMAIN peers'
               PROVE  /\ \A h \in TxHashes : ~IsBlocked(h) => ~IsBlocked(h)'
                      /\ \A p \in Pairs :
                           /\ hasQuorum(SeenBefore(p[1], p[2]))
                           /\ ~CommitedSomewhere(p[2])'
                           => hasQuorum(SeenBefore(p[1], p[2]))'
    OBVIOUS
  <2>1. PeersStep /\ quorum \in Nat
    BY <1>1, StepOfPeers DEF TypeOK
  <2>2. /\ \A h : label'[h] = label[h]
        /\ \A h \in TxHashes : label[h] \in Labels
        /\ IsFiniteSet(DOMAIN peers')
    BY <2>1 DEF PeersStep, label, Labels
  <2>3. \A id \in DOMAIN peers : PeerOf(id) = peers[id]
    BY DEF PeerOf
  <2>4. \A id \in DOMAIN peers, l \in Labels : BucketStep(id, l)
    BY <2>1 DEF PeersStep
  <2>5. ASSUME NEW h \in TxHashes, ~IsBlocked(h) PROVE ~IsBlocked(h)'
    <3> DEFINE P == {id \in DOMAIN peers : Seen(peers[id][label[h]], h)}
               Q == {id \in DOMAIN peers' : Seen(peers'[id][label[h]], h)}
    <3>1. P \subseteq Q
      BY <1>1, <2>2, <2>3, <2>4, StepKeepsSeen
    <3>2. IsFiniteSet(Q)
      BY <2>2, FS_Subset
    <3>3. quorum > 0 /\ Cardinality(P) >= quorum
      BY <2>5 DEF IsBlocked, hasQuorum
    <3>4. Cardinality(Q) >= quorum
      BY <2>1, <3>1, <3>2, <3>3, QuorumGrows
    <3> QED
      BY <2>2, <3>3, <3>4 DEF IsBlocked, hasQuorum
  <2>6. ASSUME NEW p \in Pairs, hasQuorum(SeenBefore(p[1], p[2])),
               ~CommitedSomewhere(p[2])'
        PROVE  hasQuorum(SeenBefore(p[1], p[2]))'
    <3> DEFINE h == p[1]
               g == p[2]
               l == label[h]
               P == {id \in DOMAIN peers : /\ Before(peers[id][l], h, g)
                                           /\ Seen(peers[id][l], h)
                                           /\ FirstIsHere(id, l)}
               Q == {id \in DOMAIN peers' : /\ Before(peers'[id][l], h, g)
                                            /\ Seen(peers'[id][l], h)
                                            /\ FirstIsHere(id, l)'}
    <3>1. l \in Labels /\ l = label[g]
      BY <2>2 DEF Pairs
    <3>2. SeenBefore(h, g) = P /\ SeenBefore(h, g)' = Q
      BY <2>2 DEF SeenBefore, PeersBefore
    <3>3. ASSUME NEW id \in P PROVE id \in Q
      <4>1. /\ id \in DOMAIN peers /\ id \in DOMAIN peers'
            /\ Before(PeerOf(id)[l], h, g) /\ Seen(PeerOf(id)[l], h)
            /\ FirstIsHere(id, l) /\ PeerOf(id)[l] = peers[id][l]
            /\ BucketStep(id, l)
        BY <2>3, <2>4, <3>1
      <4>2. g \notin peers'[id][l].commitedHashes
        BY <2>2, <2>6, <3>1, <4>1 DEF CommitedSomewhere
      <4>3. Seen(peers'[id][l], h)
        BY <1>1, <3>1, <4>1, StepKeepsSeen
      <4>4. \A v \in VotesOf(id, l) :
              v.seq = 0 => 0 \in SeqsIn(PeerOf(id)[l].votes)
        BY <4>1 DEF FirstIsHere, VotesOf
      <4>5. Before(peers'[id][l], h, g)
        BY <1>1, <3>1, <4>1, <4>2, <4>4, StepKeepsSeenBefore
      <4>6. SeqsIn(PeerOf(id)[l].votes) \subseteq SeqsIn(peers'[id][l].votes)
        BY <1>1, <3>1, <4>1, StepKeepsSeqs
      <4>7. env' = env
        BY <2>1 DEF PeersStep
      <4>8. FirstIsHere(id, l)'
        BY <2>2, <4>1, <4>6, <4>7 DEF FirstIsHere
      <4> QED
        BY <4>1, <4>3, <4>5, <4>8
    <3>4. IsFiniteSet(Q)
      BY <2>2, FS_Subset
    <3>5. quorum > 0 /\ Cardinality(P) >= quorum
      BY <2>6, <3>2 DEF hasQuorum
    <3> HIDE DEF P, Q
    <3>6. Cardinality(Q) >= quorum
      BY <2>1, <3>3, <3>4, <3>5, QuorumGrows
    <3> QED
      BY <3>2, <3>5, <3>6 DEF hasQuorum
  <2> QED
    BY <2>5, <2>6
<1>2. TypeOK /\ [Next]_vars
      => [quorum' = quorum /\ DOMAIN peers \subseteq DOMAIN peers' =>
            /\ \A h \in TxHashes : ~IsBlocked(h) => ~IsBlocked(h)'
            /\ \A p \in Pairs :
                 hasQuorum(SeenBefore(p[1], p[2])) /\ ~CommitedSomewhere(p[2])'
                 => hasQuorum(SeenBefore(p[1], p[2]))']_<<quorum, peers>>
  BY <1>1
<1> HIDE DEF Final
<1> QED
  BY <1>2, TypeInit, TypeNext, PTL DEF Spec, SeenPriorityIsFinal
-----------------------------------------------------------------------------
(* The index of the pending transactions                                   *)

TxsOK(t) == t.list \in Seq(TxHashes) /\ IndexMatchesList(t)

\* The index tells the elements of the list apart.
LEMMA ListHasNoRepeats ==
  ASSUME NEW t, TxsOK(t), NEW i \in DOMAIN t.list, NEW j \in DOMAIN t.list,
         t.list[i] = t.list[j]
  PROVE  i = j
<1>1. /\ t.byHash[t.list[i]] = i - 1 /\ t.byHash[t.list[j]] = j - 1
      /\ i \in Nat /\ j \in Nat
  BY DEF TxsOK, IndexMatchesList
<1> QED
  BY <1>1

\* Push keeps the index in step.
LEMMA PushKeepsIndex ==
  ASSUME NEW t, TxsOK(t), NEW h \in TxHashes
  PROVE  TxsOK(Push(t, h))
<1> DEFINE s == t.list
           n == Len(s)
           new == Append(s, h)
           index == [g \in DOMAIN t.byHash \cup {h} |->
                       IF g = h THEN n ELSE t.byHash[g]]
<1>1. CASE h \in DOMAIN t.byHash
  BY <1>1 DEF Push
<1>2. CASE h \notin DOMAIN t.byHash
  <2>1. Push(t, h) = [list |-> new, byHash |-> index]
    BY <1>2 DEF Push
  <2>2. /\ s \in Seq(TxHashes) /\ n \in Nat /\ DOMAIN s = 1..n
        /\ DOMAIN t.byHash = {s[i] : i \in 1..n}
        /\ \A i \in 1..n : t.byHash[s[i]] = i - 1
    BY DEF TxsOK, IndexMatchesList, ToSet
  <2>3. /\ new \in Seq(TxHashes) /\ DOMAIN new = 1..(n + 1)
        /\ \A i \in 1..n : new[i] = s[i]
        /\ new[n + 1] = h
    BY <2>2
  <2> HIDE DEF new, n, s
  <2>4. ToSet(new) = {s[i] : i \in 1..n} \cup {h}
    <3>1. \A i \in 1..(n + 1) : i \in 1..n \/ i = n + 1
      BY <2>2
    <3>2. 1..n \subseteq 1..(n + 1) /\ n + 1 \in 1..(n + 1)
      BY <2>2
    <3> QED
      BY <2>3, <3>1, <3>2 DEF ToSet
  <2>5. ASSUME NEW i \in 1..(n + 1) PROVE index[new[i]] = i - 1
    <3>1. CASE i \in 1..n
      <4>1. new[i] = s[i] /\ s[i] \in DOMAIN t.byHash /\ s[i] # h
        BY <1>2, <2>2, <2>3, <3>1
      <4> QED
        BY <2>2, <3>1, <4>1
    <3>2. CASE i = n + 1
      BY <2>2, <2>3, <3>2
    <3> QED
      BY <2>2, <3>1, <3>2
  <2>6. DOMAIN index = ToSet(new)
    BY <2>2, <2>4
  <2> HIDE DEF index
  <2> QED
    BY <2>1, <2>3, <2>5, <2>6 DEF TxsOK, IndexMatchesList
<1> QED
  BY <1>1, <1>2

\* So does RemoveByHash, which moves the positions behind the element up.
LEMMA RemoveByHashKeepsIndex ==
  ASSUME NEW t, TxsOK(t), NEW h
  PROVE  TxsOK(RemoveByHash(t, h))
<1> DEFINE s == t.list
           n == Len(s)
           pos == t.byHash[h]
           new == RemoveAt(s, pos + 1)
           behind == ToSet(SubSeq(s, pos + 2, n))
           index == [g \in DOMAIN t.byHash \ {h} |->
                       IF g \in behind THEN t.byHash[g] - 1 ELSE t.byHash[g]]
<1>1. CASE h \notin DOMAIN t.byHash
  BY <1>1 DEF RemoveByHash
<1>2. CASE h \in DOMAIN t.byHash /\ n = 1
  <2>1. RemoveByHash(t, h) = NewTxs
    BY <1>2 DEF RemoveByHash
  <2> QED
    BY <2>1 DEF NewTxs, TxsOK, IndexMatchesList, ToSet
<1>3. CASE h \in DOMAIN t.byHash /\ n # 1
  <2>1. RemoveByHash(t, h) = [list |-> new, byHash |-> index]
    BY <1>3 DEF RemoveByHash
  <2>2. /\ s \in Seq(TxHashes) /\ n \in Nat /\ DOMAIN s = 1..n
        /\ DOMAIN t.byHash = {s[i] : i \in 1..n}
        /\ \A i \in 1..n : t.byHash[s[i]] = i - 1
    BY DEF TxsOK, IndexMatchesList, ToSet
  <2>3. \A i, j \in 1..n : s[i] = s[j] => i = j
    BY ListHasNoRepeats, <2>2
  <2>4. PICK k \in 1..n : s[k] = h
    BY <1>3, <2>2
  <2>5. k \in Nat /\ k >= 1 /\ k <= n /\ pos + 1 = k /\ pos + 2 = k + 1
    BY <2>2, <2>4
  <2>6. /\ new \in Seq(TxHashes) /\ Len(new) = n - 1
        /\ \A i \in 1..(k - 1) : new[i] = s[i]
        /\ \A i \in k..(n - 1) : new[i] = s[i + 1]
    <3>1. /\ RemoveAt(s, k) \in Seq(TxHashes)
          /\ Len(RemoveAt(s, k)) = n - 1
          /\ \A i \in 1..(k - 1) : RemoveAt(s, k)[i] = s[i]
          /\ \A i \in k..(n - 1) : RemoveAt(s, k)[i] = s[i + 1]
      BY <2>2, RemoveAtElements
    <3>2. new = RemoveAt(s, k)
      BY <2>5
    <3> HIDE DEF new
    <3> QED
      BY <3>1, <3>2
  <2>7. \A g : g \in behind <=> \E i \in (k + 1)..n : s[i] = g
    <3> DEFINE r == SubSeq(s, k + 1, n)
    <3>1. behind = ToSet(r)
      BY <2>5
    <3>2. DOMAIN r = 1..(n - k) /\ \A i \in 1..(n - k) : r[i] = s[k + i]
      BY <2>2, <2>5
    <3> HIDE DEF r
    <3>3. \A i \in 1..(n - k) : k + i \in (k + 1)..n
      BY <2>2, <2>5
    <3>4. \A i \in (k + 1)..n : i - k \in 1..(n - k) /\ k + (i - k) = i
      BY <2>2, <2>5
    <3>5. \A i \in (k + 1)..n : r[i - k] = s[i]
      BY <3>2, <3>4
    <3>6. ASSUME NEW i \in (k + 1)..n PROVE s[i] \in ToSet(r)
      BY <3>2, <3>4, <3>5 DEF ToSet
    <3>7. ASSUME NEW g \in ToSet(r) PROVE \E i \in (k + 1)..n : s[i] = g
      <4>1. PICK j \in 1..(n - k) : r[j] = g
        BY <3>2, <3>7 DEF ToSet
      <4> QED
        BY <3>2, <3>3, <4>1
    <3> HIDE DEF behind, s, n
    <3> QED
      BY <3>1, <3>6, <3>7
  <2>8. DOMAIN new = 1..(n - 1)
    BY <2>2, <2>5, <2>6
  <2> HIDE DEF new, behind, pos, s, n
  <2>9. ASSUME NEW i \in 1..(n - 1)
        PROVE  new[i] \in DOMAIN t.byHash \ {h} /\ index[new[i]] = i - 1
    <3>1. CASE i < k
      <4>1. i \in 1..(k - 1) /\ i \in 1..n /\ i # k
        BY <2>2, <2>5, <3>1
      <4>2. new[i] = s[i] /\ s[i] \in DOMAIN t.byHash /\ s[i] # h
        BY <2>2, <2>3, <2>4, <2>6, <4>1
      <4>3. s[i] \notin behind
        <5>1. \A j \in (k + 1)..n : j \in 1..n /\ j # i
          BY <2>2, <2>5, <3>1
        <5> QED
          BY <2>3, <2>7, <4>1, <5>1
      <4> QED
        BY <2>2, <4>1, <4>2, <4>3
    <3>2. CASE i >= k
      <4>1. /\ i \in k..(n - 1) /\ i + 1 \in (k + 1)..n /\ i + 1 \in 1..n
            /\ i + 1 # k /\ i + 1 - 1 - 1 = i - 1
        BY <2>2, <2>5, <3>2
      <4>2. /\ new[i] = s[i + 1] /\ s[i + 1] \in DOMAIN t.byHash
            /\ s[i + 1] # h /\ s[i + 1] \in behind
        BY <2>2, <2>3, <2>4, <2>6, <2>7, <4>1
      <4>3. t.byHash[s[i + 1]] = i + 1 - 1
        BY <2>2, <4>1
      <4>4. index[s[i + 1]] = t.byHash[s[i + 1]] - 1
        BY <4>2
      <4> QED
        BY <4>1, <4>2, <4>3, <4>4
    <3> QED
      BY <2>5, <3>1, <3>2
  <2>10. ToSet(new) = DOMAIN t.byHash \ {h}
    <3>1. ASSUME NEW g \in DOMAIN t.byHash, g # h PROVE g \in ToSet(new)
      <4>1. PICK i \in 1..n : s[i] = g
        BY <2>2, <3>1
      <4>2. i # k
        BY <2>4, <3>1, <4>1
      <4>3. CASE i < k
        <5>1. i \in 1..(k - 1) /\ i \in 1..(n - 1)
          BY <2>2, <2>5, <4>3
        <5> QED
          BY <2>6, <2>8, <4>1, <5>1 DEF ToSet
      <4>4. CASE i > k
        <5>1. i - 1 \in k..(n - 1) /\ i - 1 \in 1..(n - 1) /\ i - 1 + 1 = i
          BY <2>2, <2>5, <4>4
        <5> QED
          BY <2>6, <2>8, <4>1, <5>1 DEF ToSet
      <4> QED
        BY <2>5, <4>2, <4>3, <4>4
    <3>2. \A i \in 1..(n - 1) : new[i] \in DOMAIN t.byHash \ {h}
      BY <2>9
    <3>3. ToSet(new) \subseteq DOMAIN t.byHash \ {h}
      BY <2>8, <3>2 DEF ToSet
    <3> QED
      BY <3>1, <3>3
  <2>11. DOMAIN index = ToSet(new)
    BY <2>10
  <2> HIDE DEF index
  <2> QED
    BY <2>1, <2>6, <2>8, <2>9, <2>11 DEF TxsOK, IndexMatchesList
<1> QED
  BY <1>1, <1>2, <1>3

\* g holds the pending transactions after each of the first n removals.
Removes(g, t, hs, n) ==
  g = [i \in 0..n |-> IF i = 0 THEN t ELSE RemoveByHash(g[i-1], hs[i])]

\* The loop of removals runs to its end.
LEMMA RemovesExists ==
  ASSUME NEW t, NEW hs, NEW n \in Nat
  PROVE  \E g : Removes(g, t, hs, n)
<1> DEFINE Bad == {k \in Nat : ~ \E g : Removes(g, t, hs, k)}
<1> SUFFICES ASSUME Bad # {} PROVE FALSE
  OBVIOUS
<1>1. Bad \in SUBSET Nat
  OBVIOUS
<1> HIDE DEF Bad
<1>2. PICK m \in Bad : \A k \in Bad : m <= k
  BY <1>1, LeastExists
<1>3. m \in Nat
  BY <1>1
<1> USE DEF Bad
<1>4. CASE m = 0
  <2> DEFINE h == [i \in 0..0 |-> t]
  <2>1. h = [i \in 0..0 |-> IF i = 0 THEN t ELSE RemoveByHash(h[i-1], hs[i])]
    OBVIOUS
  <2>2. Removes(h, t, hs, 0)
    BY <2>1 DEF Removes
  <2> QED
    BY <2>2, <1>4
<1>5. CASE m > 0
  <2>1. m - 1 \in Nat /\ m - 1 \notin Bad
    BY <1>2, <1>3, <1>5
  <2>2. PICK g : Removes(g, t, hs, m - 1)
    BY <2>1
  <2> DEFINE e == RemoveByHash(g[m-1], hs[m])
             h == [i \in 0..m |-> IF i < m THEN g[i] ELSE e]
  <2>3. ASSUME NEW i \in 0..m
        PROVE  h[i] = IF i = 0 THEN t ELSE RemoveByHash(h[i-1], hs[i])
    <3>1. CASE i < m
      <4>1. i \in 0..(m-1) /\ h[i] = g[i]
        BY <3>1, <1>3
      <4>2. i # 0 => h[i-1] = g[i-1]
        BY <3>1, <1>3
      <4>3. g[i] = IF i = 0 THEN t ELSE RemoveByHash(g[i-1], hs[i])
        BY <2>2, <4>1 DEF Removes
      <4> HIDE DEF h
      <4> QED
        BY <4>1, <4>2, <4>3
    <3>2. CASE i = m
      <4>1. h[m-1] = g[m-1] /\ h[m] = e /\ m # 0
        BY <1>3, <1>5
      <4> HIDE DEF h
      <4> QED
        BY <4>1, <3>2
    <3> QED
      BY <3>1, <3>2, <1>3
  <2>4. h = [i \in 0..m |-> h[i]]
    OBVIOUS
  <2> HIDE DEF h
  <2>5. Removes(h, t, hs, m)
    BY <2>3, <2>4 DEF Removes
  <2> QED
    BY <2>5
<1> QED
  BY <1>3, <1>4, <1>5

\* Whatever the block, be its transactions unknown or repeated.
LEMMA RemoveAllKeepsIndex ==
  ASSUME NEW t, TxsOK(t), NEW hs \in Seq(TxHashes)
  PROVE  TxsOK(RemoveAll(t, hs))
<1> DEFINE n == Len(hs)
           after == CHOOSE g : g = [i \in 0..n |->
                      IF i = 0 THEN t ELSE RemoveByHash(g[i-1], hs[i])]
<1>1. n \in Nat
  OBVIOUS
<1>2. RemoveAll(t, hs) = after[n]
  BY DEF RemoveAll
<1>3. PICK g : Removes(g, t, hs, n)
  BY <1>1, RemovesExists
<1>4. Removes(after, t, hs, n)
  BY <1>3 DEF Removes
<1> HIDE DEF after
<1>5. /\ after[0] = t
      /\ \A i \in 0..n : i # 0 => after[i] = RemoveByHash(after[i-1], hs[i])
  BY <1>1, <1>4 DEF Removes
<1> DEFINE Bad == {i \in 0..n : ~TxsOK(after[i])}
<1>6. Bad = {}
  <2> SUFFICES ASSUME Bad # {} PROVE FALSE
    OBVIOUS
  <2>1. Bad \in SUBSET Nat
    OBVIOUS
  <2> HIDE DEF Bad
  <2>2. PICK m \in Bad : \A k \in Bad : m <= k
    BY <2>1, LeastExists
  <2> USE DEF Bad
  <2>3. m \in 0..n /\ m # 0 /\ ~TxsOK(after[m])
    BY <1>5, <2>2
  <2>4. m - 1 \in 0..n /\ ~(m <= m - 1)
    BY <1>1, <2>3
  <2>5. TxsOK(after[m - 1])
    BY <2>2, <2>4
  <2>6. after[m] = RemoveByHash(after[m - 1], hs[m])
    BY <1>5, <2>3
  <2> QED
    BY <2>3, <2>5, <2>6, RemoveByHashKeepsIndex
<1>7. n \in 0..n
  BY <1>1
<1> QED
  BY <1>2, <1>6, <1>7

\* Every step leaves the pending transactions in step.
LEMMA TxsNext ==
  ASSUME TypeOK, TxsOK(txs), [Next]_vars
  PROVE  TxsOK(txs')
<1>1. ASSUME NEW h \in TxHashes, AddTx(h) PROVE TxsOK(txs')
  BY <1>1, PushKeepsIndex DEF AddTx
<1>2. ASSUME NEW block \in env.blocks, AddBlockRemove(block)
      PROVE  TxsOK(txs')
  <2>1. block \in Seq(TxHashes) /\ txs' = RemoveAll(txs, block)
    BY <1>2, WendyAssumption DEF AddBlockRemove, TypeOK
  <2> QED
    BY <2>1, RemoveAllKeepsIndex
<1>3. CASE \/ \E vs \in env.validatorSets : UpdateValidators(vs)
           \/ UpdateQuorum
           \/ UpdatePeers
           \/ \E v \in env.votes : AddVoteToPeer(v)
           \/ \E block \in env.blocks : CommitBlock(block)
           \/ AddBlockCommit
           \/ \E opts \in env.options : NewBlockStart(opts)
           \/ \E blocked \in BOOLEAN : NewBlockCell(blocked)
           \/ NewBlockPanic
           \/ NewBlockReturn
           \/ UNCHANGED vars
  <2>1. txs' = txs
    BY <1>3 DEF UpdateValidators, UpdateQuorum, UpdatePeers, AddVoteToPeer,
                CommitBlock, AddBlockCommit, NewBlockStart, NewBlockCell,
                NewBlockPanic, NewBlockReturn, vars
  <2> QED
    BY <2>1
<1> QED
  BY <1>1, <1>2, <1>3 DEF Next

-----------------------------------------------------------------------------
(* The votes by transaction                                                *)

VotesOK ==
  \A id \in DOMAIN peers, l \in Labels :
    \A i \in DOMAIN peers[id][l].votes :
      peers[id][l].votes[i].txHash \in DOMAIN votes

\* A vote that is put into a bucket is registered by its transaction, unless
\* AddVote fails, which it does not when the votes are linked.
LEMMA VotesNext ==
  ASSUME VotesAreLinked, TypeOK, VotesOK, PeersStep, NEW id \in DOMAIN peers',
         NEW l \in Labels, NEW i \in DOMAIN peers'[id][l].votes
  PROVE  peers'[id][l].votes[i].txHash \in DOMAIN votes'
<1> DEFINE b == PeerOf(id)[l]
           nb == peers'[id][l]
           S == VotesOf(id, l)
<1>1. /\ b \in BucketsOf(S, TxHashes)
      /\ Numbered(S)
      /\ BucketStep(id, l)
      /\ DOMAIN votes \subseteq DOMAIN votes'
  BY PeerOfOK, VotesAreNumbered DEF TypeOK, PeerOK, BucketOK, PeersStep
<1>2. \A j \in DOMAIN b.votes : b.votes[j].txHash \in DOMAIN votes'
  <2>1. CASE id \in DOMAIN peers
    BY <1>1, <2>1 DEF VotesOK, PeerOf
  <2>2. CASE id \notin DOMAIN peers
    BY <2>2 DEF PeerOf, newPeer, newPeerBucket
  <2> QED
    BY <2>1, <2>2
<1>3. ASSUME nb.votes = b.votes PROVE nb.votes[i].txHash \in DOMAIN votes'
  BY <1>2, <1>3
<1>4. ASSUME NEW v \in S, nb = AddVote(b, v).bucket,
             AddVote(b, v).err \/ v.txHash \in DOMAIN votes'
      PROVE  nb.votes[i].txHash \in DOMAIN votes'
  <2> DEFINE r == AddVote(b, v)
  <2>1. AddVoteDoes(b, r, v, S, TxHashes)
    BY AddVoteToBucket
  <2>2. ~Mismatch(b.votes, v)
    <3>1. ASSUME NEW j \in DOMAIN b.votes
          PROVE  validHashes(b.votes[j], v) /\ validHashes(v, b.votes[j])
      <4>1. b.votes[j] \in S
        BY <1>1 DEF BucketsOf
      <4> QED
        BY <4>1, <1>4 DEF VotesAreLinked, validHashes, VotesOf, TypeOK, label
    <3> QED
      BY <3>1 DEF Mismatch
  <2>3. v.txHash \in DOMAIN votes'
    BY <1>4, <2>1, <2>2 DEF AddVoteDoes
  <2>4. CASE Refuses(b, r, v)
    BY <1>3, <1>4, <2>4 DEF Refuses
  <2>5. CASE Puts(b, r, v)
    <3>1. PICK pos : PutBehind(b.votes, nb.votes, v, pos)
      BY <1>4, <2>5 DEF Puts
    <3>2. b.votes \in Seq(S) /\ nb.votes \in Seq(S)
      BY <1>1, <1>4, <2>1 DEF BucketsOf, AddVoteDoes
    <3> HIDE DEF b, nb
    <3>3. nb.votes[i] = v \/ \E j \in DOMAIN b.votes : nb.votes[i] = b.votes[j]
      BY <3>1, <3>2, PutBehindVotes DEF nb
    <3> QED
      BY <1>2, <2>3, <3>3
  <2> QED
    BY <2>1, <2>4, <2>5 DEF AddVoteDoes
<1>5. ASSUME NEW hs \in SUBSET TxHashes, nb = UpdateTxSet(b, hs)
      PROVE  nb.votes[i].txHash \in DOMAIN votes'
  <2>1. nb.votes = b.votes
    BY <1>1, <1>5, UpdateTxSetKeeps
  <2> QED
    BY <2>1, <1>3
<1> QED
  BY <1>1, <1>3, <1>4, <1>5 DEF BucketStep

\* The index of the pending transactions is in step with their list whatever
\* blocks are added, and every vote that a peer holds can be found by its
\* transaction.
THEOREM IndexStaysInStep ==
  ASSUME VotesAreLinked
  PROVE  Spec => []IndexInStep
<1> DEFINE Inv == TypeOK /\ TxsOK(txs) /\ VotesOK
<1>1. Init => Inv
  <2> SUFFICES ASSUME Init PROVE TxsOK(txs) /\ VotesOK
    BY TypeInit
  <2> QED
    BY DEF Init, NewTxs, TxsOK, IndexMatchesList, ToSet, VotesOK
<1>2. Inv /\ [Next]_vars => Inv'
  <2> SUFFICES ASSUME Inv, [Next]_vars PROVE Inv'
    OBVIOUS
  <2>1. TypeOK' /\ PeersStep
    BY TypeNext, StepOfPeers
  <2>2. TxsOK(txs)'
    BY TxsNext DEF TxsOK
  <2>3. Labels' = Labels
    BY <2>1 DEF PeersStep, Labels, label
  <2>4. VotesOK'
    BY <2>1, <2>3, VotesNext DEF VotesOK
  <2> QED
    BY <2>1, <2>2, <2>4
<1>3. Inv => IndexInStep
  <2> SUFFICES ASSUME Inv PROVE IndexInStep
    OBVIOUS
  <2>1. ASSUME NEW id \in DOMAIN peers, NEW l \in Labels,
               NEW v \in ToSet(peers[id][l].votes)
        PROVE  VoteByTxHash(v.txHash) # {}
    <3>1. v.txHash \in DOMAIN votes
      BY DEF VotesOK, ToSet
    <3> QED
      BY <3>1 DEF VoteByTxHash
  <2> QED
    BY <2>1 DEF IndexInStep, TxsOK
<1> QED
  BY <1>1, <1>2, <1>3, PTL DEF Spec

-----------------------------------------------------------------------------
(* The search for the blockers                                             *)

\* The arguments of the calls of visit in recompute.
Calls(n) == (1..n) \X (1..(n+1)) \X SUBSET (1..n)

\* What is left to do for a call: columns that are not visited, and the rest of
\* the row.
Left(n, j, deps) == (n - Cardinality(deps)) * (n + 2) + (n + 1 - j)

\* With a transaction, D holds its blockers.
ClosedUnder(matrix, n, D) == \A x \in D, y \in 1..n : matrix[x][y] => y \in D

\* What a call of visit should return.
VisitOK(matrix, n, i, j, deps, r) ==
  /\ deps \subseteq r /\ r \subseteq 1..n
  /\ \A x \in r \ deps, y \in 1..n : x # i /\ matrix[x][y] => y \in r
  /\ \A y \in j..n : y = i \/ matrix[i][y] => y \in r
  /\ \A D \in SUBSET (1..n) :
       i \in D /\ deps \subseteq D /\ ClosedUnder(matrix, n, D)
       => r \subseteq D

\* More times w is at least w more.
LEMMA TimesMore ==
  ASSUME NEW a \in Nat, NEW b \in Nat, NEW w \in Nat, a >= b + 1
  PROVE  a * w >= b * w + w
<1> DEFINE d == a - b - 1
<1>1. d \in Nat /\ a = b + 1 + d
  OBVIOUS
<1> HIDE DEF d
<1>2. a * w = b * w + w + d * w
  BY <1>1
<1>3. d * w \in Nat /\ b * w \in Nat
  BY <1>1
<1> QED
  BY <1>2, <1>3

\* How the sets of columns are counted.
LEMMA SubsetsCounted ==
  ASSUME NEW n \in Nat, NEW deps \in SUBSET (1..n)
  PROVE  /\ IsFiniteSet(deps) /\ Cardinality(deps) \in 0..n
         /\ \A r \in SUBSET deps : IsFiniteSet(r)
              /\ Cardinality(r) <= Cardinality(deps)
              /\ (Cardinality(r) = Cardinality(deps) => r = deps)
<1>1. IsFiniteSet(1..n) /\ Cardinality(1..n) = n
  BY FS_Interval
<1>2. /\ IsFiniteSet(deps) /\ Cardinality(deps) <= n
      /\ Cardinality(deps) \in Nat
  BY <1>1, FS_Subset, FS_CardinalityType
<1>3. ASSUME NEW r \in SUBSET deps
      PROVE  /\ IsFiniteSet(r) /\ Cardinality(r) <= Cardinality(deps)
             /\ Cardinality(r) = Cardinality(deps) => r = deps
  BY <1>2, FS_Subset
<1> QED
  BY <1>2, <1>3

\* The next column, and any call with more columns visited, leave less to do.
LEMMA LeftIs ==
  ASSUME NEW n \in Nat, NEW j \in 1..(n+1), NEW deps \in SUBSET (1..n)
  PROVE  /\ Left(n, j, deps) \in Nat
         /\ Left(n, j, deps) <= n * (n + 2) + n
         /\ j <= n => j + 1 \in 1..(n+1)
                      /\ Left(n, j + 1, deps) < Left(n, j, deps)
         /\ \A r \in SUBSET (1..n), k \in 1..(n+1) :
              deps \subseteq r /\ r # deps =>
                Left(n, k, r) < Left(n, j, deps)
<1> DEFINE c(d) == n - Cardinality(d)
           w == n + 2
<1>1. c(deps) \in 0..n /\ w \in Nat
  BY SubsetsCounted
<1>2. c(deps) * w \in Nat /\ c(deps) * w <= n * w
  <2>1. CASE c(deps) = n
    BY <1>1, <2>1
  <2>2. CASE c(deps) # n
    <3>1. n >= c(deps) + 1
      BY <1>1, <2>2
    <3> HIDE DEF w, c
    <3> QED
      BY <1>1, <3>1, TimesMore
  <2> QED
    BY <2>1, <2>2
<1>3. Left(n, j, deps) = c(deps) * w + (n + 1 - j)
  BY DEF Left
<1>4. Left(n, j + 1, deps) = c(deps) * w + (n + 1 - (j + 1))
  BY DEF Left
<1>5. ASSUME NEW r \in SUBSET (1..n), NEW k \in 1..(n+1), deps \subseteq r,
             r # deps
      PROVE  Left(n, k, r) < Left(n, j, deps)
  <2>1. c(r) \in 0..n /\ Cardinality(r) \in 0..n /\ Cardinality(deps) \in 0..n
    BY SubsetsCounted
  <2>2. Cardinality(deps) <= Cardinality(r)
        /\ Cardinality(deps) # Cardinality(r)
    BY <1>5, SubsetsCounted
  <2>3. c(deps) >= c(r) + 1
    BY <2>1, <2>2
  <2>4. Left(n, k, r) = c(r) * w + (n + 1 - k)
    BY DEF Left
  <2>5. n + 1 - k < w /\ n + 1 - j >= 0
    OBVIOUS
  <2> HIDE DEF c, w
  <2>6. c(deps) * w >= c(r) * w + w
    BY <1>1, <2>1, <2>3, TimesMore
  <2>7. c(r) * w \in Nat
    BY <1>1, <2>1
  <2> QED
    BY <1>1, <1>2, <1>3, <2>4, <2>5, <2>6, <2>7
<1>6. n + 1 - j \in 0..n /\ (j <= n => j + 1 \in 1..(n+1))
  OBVIOUS
<1> HIDE DEF c, w
<1>7. Left(n, j, deps) \in Nat /\ Left(n, j, deps) <= n * w + n
  BY <1>1, <1>2, <1>3, <1>6
<1>8. Left(n, j + 1, deps) < Left(n, j, deps)
  BY <1>1, <1>2, <1>3, <1>4, <1>6
<1> QED
  BY <1>5, <1>6, <1>7, <1>8 DEF w

\* The calls with less left to do return what they should.
LessOK(matrix, n, f, i, j, deps) ==
  \A k \in 1..n, l \in 1..(n+1), d \in SUBSET (1..n) :
    Left(n, l, d) < Left(n, j, deps) =>
      VisitOK(matrix, n, k, l, d, f[<<k, l, d>>])

\* A turn returns what it should when the calls with less left to do do.
LEMMA VisitedOK ==
  ASSUME NEW n \in Nat, NEW matrix, NEW f, NEW i \in 1..n, NEW j \in 1..(n+1),
         NEW deps \in SUBSET (1..n), LessOK(matrix, n, f, i, j, deps)
  PROVE  VisitOK(matrix, n, i, j, deps, Visited(matrix, n, f, i, j, deps))
<1> DEFINE v == Visited(matrix, n, f, i, j, deps)
           new == deps \cup {j}
<1>1. CASE j > n
  <2>1. v = deps
    BY <1>1 DEF Visited
  <2>2. j..n = {}
    BY <1>1
  <2> HIDE DEF v
  <2> QED
    BY <2>1, <2>2 DEF VisitOK, v
<1> SUFFICES ASSUME j <= n PROVE VisitOK(matrix, n, i, j, deps, v)
  BY <1>1
<1>2. /\ j + 1 \in 1..(n+1) /\ j \in 1..n /\ 1 \in 1..(n+1)
      /\ \A y \in j..n : y = j \/ y \in (j+1)..n
  OBVIOUS
<1>3. ASSUME NEW r, VisitOK(matrix, n, i, j + 1, deps, r),
             j \in deps \/ (j # i /\ ~matrix[i][j])
      PROVE  VisitOK(matrix, n, i, j, deps, r)
  BY <1>2, <1>3 DEF VisitOK
<1>4. VisitOK(matrix, n, i, j + 1, deps, f[<<i, j + 1, deps>>])
  BY <1>2, LeftIs DEF LessOK
<1>5. CASE j \in deps
  <2>1. v = f[<<i, j + 1, deps>>]
    BY <1>5 DEF Visited
  <2> HIDE DEF v
  <2> QED
    BY <1>3, <1>4, <1>5, <2>1
<1>6. CASE j \notin deps /\ j # i /\ ~matrix[i][j]
  <2>1. v = f[<<i, j + 1, deps>>]
    BY <1>6 DEF Visited
  <2> HIDE DEF v
  <2> QED
    BY <1>3, <1>4, <1>6, <2>1
<1>7. CASE j \notin deps /\ j = i
  <2>1. v = f[<<i, j + 1, new>>]
    BY <1>7 DEF Visited
  <2>2. new \in SUBSET (1..n) /\ deps \subseteq new /\ new # deps
    BY <1>2, <1>7
  <2> HIDE DEF new
  <2>3. Left(n, j + 1, new) < Left(n, j, deps)
    BY <1>2, <2>2, LeftIs
  <2>4. VisitOK(matrix, n, i, j + 1, new, v)
    BY <1>2, <2>1, <2>2, <2>3 DEF LessOK
  <2> HIDE DEF v
  <2> QED
    BY <1>2, <1>7, <2>4 DEF VisitOK, new
<1>8. CASE j \notin deps /\ j # i /\ matrix[i][j]
  <2> DEFINE q == f[<<j, 1, new>>]
  <2>1. v = f[<<i, j + 1, q>>]
    BY <1>8 DEF Visited
  <2>2. new \in SUBSET (1..n) /\ deps \subseteq new /\ new # deps
    BY <1>2, <1>8
  <2> HIDE DEF new
  <2>3. Left(n, 1, new) < Left(n, j, deps)
    BY <1>2, <2>2, LeftIs
  <2>4. VisitOK(matrix, n, j, 1, new, q)
    BY <1>2, <2>2, <2>3 DEF LessOK
  <2> HIDE DEF q
  <2>5. q \in SUBSET (1..n) /\ deps \subseteq q /\ q # deps
    BY <2>2, <2>4 DEF VisitOK
  <2>6. Left(n, j + 1, q) < Left(n, j, deps)
    BY <1>2, <2>5, LeftIs
  <2>7. VisitOK(matrix, n, i, j + 1, q, v)
    BY <1>2, <2>1, <2>5, <2>6 DEF LessOK
  <2> HIDE DEF v
  <2>8. deps \subseteq v /\ v \subseteq 1..n /\ q \subseteq v
    BY <2>5, <2>7 DEF VisitOK
  <2>9. ASSUME NEW x \in v \ deps, NEW y \in 1..n, x # i, matrix[x][y]
        PROVE  y \in v
    <3>1. CASE x \in v \ q
      BY <2>7, <2>9, <3>1 DEF VisitOK
    <3>2. CASE x \in q /\ x # j
      <4>1. x \in q \ new
        BY <3>2 DEF new
      <4>2. y \in q
        BY <2>4, <2>9, <3>2, <4>1 DEF VisitOK
      <4> QED
        BY <2>8, <4>2
    <3>3. CASE x = j
      <4>1. y \in q
        BY <2>4, <2>9, <3>3 DEF VisitOK
      <4> QED
        BY <2>8, <4>1
    <3> QED
      BY <3>1, <3>2, <3>3
  <2>10. j \in v
    BY <2>4, <2>8 DEF VisitOK, new
  <2>11. ASSUME NEW y \in j..n, y = i \/ matrix[i][y] PROVE y \in v
    BY <1>2, <2>7, <2>10, <2>11 DEF VisitOK
  <2>12. ASSUME NEW D \in SUBSET (1..n), i \in D, deps \subseteq D,
                ClosedUnder(matrix, n, D)
         PROVE  v \subseteq D
    <3>1. j \in D
      BY <1>2, <1>8, <2>12 DEF ClosedUnder
    <3>2. new \subseteq D
      BY <2>12, <3>1 DEF new
    <3>3. q \subseteq D
      BY <2>4, <2>12, <3>1, <3>2 DEF VisitOK
    <3> QED
      BY <2>7, <2>12, <3>3 DEF VisitOK
  <2> QED
    BY <2>8, <2>9, <2>11, <2>12 DEF VisitOK
<1> QED
  BY <1>5, <1>6, <1>7, <1>8

\* Visited looks at calls with less left to do only.
LEMMA VisitedSame ==
  ASSUME NEW n \in Nat, NEW matrix, NEW f, NEW g, NEW i \in 1..n,
         NEW j \in 1..(n+1), NEW deps \in SUBSET (1..n),
         LessOK(matrix, n, f, i, j, deps),
         \A k \in 1..n, l \in 1..(n+1), d \in SUBSET (1..n) :
           Left(n, l, d) < Left(n, j, deps) => g[<<k, l, d>>] = f[<<k, l, d>>]
  PROVE  Visited(matrix, n, g, i, j, deps) = Visited(matrix, n, f, i, j, deps)
<1> DEFINE new == deps \cup {j}
           q == f[<<j, 1, new>>]
<1>1. CASE j > n
  BY <1>1 DEF Visited
<1> SUFFICES ASSUME j <= n
             PROVE  Visited(matrix, n, g, i, j, deps)
                      = Visited(matrix, n, f, i, j, deps)
  BY <1>1
<1>2. j + 1 \in 1..(n+1) /\ j \in 1..n /\ 1 \in 1..(n+1)
  OBVIOUS
<1>3. g[<<i, j + 1, deps>>] = f[<<i, j + 1, deps>>]
  BY <1>2, LeftIs
<1>4. CASE j \in deps \/ (j # i /\ ~matrix[i][j])
  BY <1>3, <1>4 DEF Visited
<1>5. ASSUME j \notin deps
      PROVE  /\ g[<<i, j + 1, new>>] = f[<<i, j + 1, new>>]
             /\ g[<<j, 1, new>>] = q
             /\ g[<<i, j + 1, q>>] = f[<<i, j + 1, q>>]
  <2>1. new \in SUBSET (1..n) /\ deps \subseteq new /\ new # deps
    BY <1>2, <1>5
  <2> HIDE DEF new
  <2>2. Left(n, 1, new) < Left(n, j, deps)
        /\ Left(n, j + 1, new) < Left(n, j, deps)
    BY <1>2, <2>1, LeftIs
  <2>3. VisitOK(matrix, n, j, 1, new, q)
    BY <1>2, <2>1, <2>2 DEF LessOK
  <2>4. g[<<i, j + 1, new>>] = f[<<i, j + 1, new>>] /\ g[<<j, 1, new>>] = q
    BY <1>2, <2>1, <2>2
  <2> HIDE DEF q
  <2>5. q \in SUBSET (1..n) /\ deps \subseteq q /\ q # deps
    BY <2>1, <2>3 DEF VisitOK
  <2>6. Left(n, j + 1, q) < Left(n, j, deps)
    BY <1>2, <2>5, LeftIs
  <2> QED
    BY <1>2, <2>4, <2>5, <2>6
<1>6. CASE j \notin deps /\ (j = i \/ matrix[i][j])
  <2>1. CASE j = i
    BY <1>5, <1>6, <2>1 DEF Visited
  <2>2. CASE j # i
    <3>1. Visited(matrix, n, f, i, j, deps) = f[<<i, j + 1, q>>]
      BY <1>6, <2>2 DEF Visited
    <3>2. Visited(matrix, n, g, i, j, deps)
            = g[<<i, j + 1, g[<<j, 1, new>>]>>]
      BY <1>6, <2>2 DEF Visited
    <3> QED
      BY <1>5, <1>6, <3>1, <3>2
  <2> QED
    BY <2>1, <2>2
<1> QED
  BY <1>4, <1>6

\* f returns what visit does for the calls with less than k left to do.
VisitsTo(matrix, n, f, k) ==
  \A i \in 1..n, j \in 1..(n+1), deps \in SUBSET (1..n) :
    Left(n, j, deps) < k =>
      f[<<i, j, deps>>] = Visited(matrix, n, f, i, j, deps)

\* So do all calls, by induction on what is left to do.
LEMMA VisitsAreOK ==
  ASSUME NEW n \in Nat, NEW matrix, NEW f, NEW k \in Nat,
         VisitsTo(matrix, n, f, k)
  PROVE  \A i \in 1..n, j \in 1..(n+1), deps \in SUBSET (1..n) :
           Left(n, j, deps) < k =>
             VisitOK(matrix, n, i, j, deps, f[<<i, j, deps>>])
<1> DEFINE OK(i, j, deps) == VisitOK(matrix, n, i, j, deps, f[<<i, j, deps>>])
           Bad == {m \in Nat : /\ m < k
                               /\ \E i \in 1..n, j \in 1..(n+1),
                                     deps \in SUBSET (1..n) :
                                    Left(n, j, deps) = m /\ ~OK(i, j, deps)}
<1>1. Bad = {}
  <2> SUFFICES ASSUME Bad # {} PROVE FALSE
    OBVIOUS
  <2>1. Bad \in SUBSET Nat
    OBVIOUS
  <2> HIDE DEF Bad
  <2>2. PICK m \in Bad : \A l \in Bad : m <= l
    BY <2>1, LeastExists
  <2> USE DEF Bad
  <2> HIDE DEF OK
  <2>3. PICK i \in 1..n, j \in 1..(n+1), deps \in SUBSET (1..n) :
               m \in Nat /\ m < k /\ Left(n, j, deps) = m /\ ~OK(i, j, deps)
    BY <2>2
  <2>4. ASSUME NEW a \in 1..n, NEW l \in 1..(n+1), NEW d \in SUBSET (1..n),
               Left(n, l, d) < m
        PROVE  OK(a, l, d)
    <3>1. Left(n, l, d) \in Nat
      BY LeftIs
    <3> QED
      BY <2>2, <2>3, <2>4, <3>1
  <2>5. LessOK(matrix, n, f, i, j, deps)
    BY <2>3, <2>4 DEF LessOK, OK
  <2>6. VisitOK(matrix, n, i, j, deps, Visited(matrix, n, f, i, j, deps))
    BY <2>5, VisitedOK
  <2> QED
    BY <2>3, <2>6 DEF OK, VisitsTo
<1> HIDE DEF OK
<1>2. ASSUME NEW i \in 1..n, NEW j \in 1..(n+1), NEW deps \in SUBSET (1..n),
             Left(n, j, deps) < k
      PROVE  OK(i, j, deps)
  <2>1. Left(n, j, deps) \in Nat
    BY LeftIs
  <2> QED
    BY <1>1, <1>2, <2>1
<1> QED
  BY <1>2 DEF OK

\* The search ends: there is a function that solves the recursion.
LEMMA VisitsExist ==
  ASSUME NEW n \in Nat, NEW matrix, NEW k \in Nat
  PROVE  \E f : VisitsTo(matrix, n, f, k)
<1> DEFINE Bad == {m \in Nat : ~ \E f : VisitsTo(matrix, n, f, m)}
<1> SUFFICES ASSUME Bad # {} PROVE FALSE
  OBVIOUS
<1>1. Bad \in SUBSET Nat
  OBVIOUS
<1> HIDE DEF Bad
<1>2. PICK m \in Bad : \A l \in Bad : m <= l
  BY <1>1, LeastExists
<1> USE DEF Bad
<1>3. m \in Nat /\ ~ \E f : VisitsTo(matrix, n, f, m)
  BY <1>2
<1>4. CASE m = 0
  <2>1. VisitsTo(matrix, n, 0, 0)
    <3>1. \A j \in 1..(n+1), deps \in SUBSET (1..n) : ~(Left(n, j, deps) < 0)
      BY LeftIs
    <3> QED
      BY <3>1 DEF VisitsTo
  <2> QED
    BY <1>3, <1>4, <2>1
<1>5. CASE m # 0
  <2>1. m - 1 \in Nat /\ m - 1 \notin Bad
    BY <1>2, <1>3, <1>5
  <2>2. PICK f : VisitsTo(matrix, n, f, m - 1)
    BY <2>1
  <2> DEFINE g == [c \in Calls(n) |->
                     IF Left(n, c[2], c[3]) < m - 1 THEN f[c]
                     ELSE Visited(matrix, n, f, c[1], c[2], c[3])]
  <2>3. \A i \in 1..n, j \in 1..(n+1), deps \in SUBSET (1..n) :
          g[<<i, j, deps>>] = IF Left(n, j, deps) < m - 1
                              THEN f[<<i, j, deps>>]
                              ELSE Visited(matrix, n, f, i, j, deps)
    BY DEF Calls
  <2> HIDE DEF g
  <2>4. ASSUME NEW i \in 1..n, NEW j \in 1..(n+1), NEW deps \in SUBSET (1..n),
               Left(n, j, deps) < m
        PROVE  g[<<i, j, deps>>] = Visited(matrix, n, g, i, j, deps)
    <3>1. \A l \in 1..(n+1), d \in SUBSET (1..n) :
            Left(n, l, d) < Left(n, j, deps) => Left(n, l, d) < m - 1
      <4>1. \A l \in 1..(n+1), d \in SUBSET (1..n) : Left(n, l, d) \in Nat
        BY LeftIs
      <4> QED
        BY <1>3, <2>4, <4>1
    <3>2. LessOK(matrix, n, f, i, j, deps)
      BY <2>1, <2>2, <3>1, VisitsAreOK DEF LessOK
    <3>3. \A a \in 1..n, l \in 1..(n+1), d \in SUBSET (1..n) :
            Left(n, l, d) < Left(n, j, deps) => g[<<a, l, d>>] = f[<<a, l, d>>]
      BY <2>3, <3>1
    <3>4. Visited(matrix, n, g, i, j, deps) = Visited(matrix, n, f, i, j, deps)
      BY <3>2, <3>3, VisitedSame
    <3>5. g[<<i, j, deps>>] = Visited(matrix, n, f, i, j, deps)
      BY <2>2, <2>3 DEF VisitsTo
    <3> QED
      BY <3>4, <3>5
  <2>5. VisitsTo(matrix, n, g, m)
    BY <2>4 DEF VisitsTo
  <2> QED
    BY <1>3, <2>5
<1> QED
  BY <1>4, <1>5

\* recompute returns what its first call should.
LEMMA RecomputeIs ==
  ASSUME NEW n \in Nat, NEW matrix, Len(matrix) = n, NEW i \in 1..n
  PROVE  VisitOK(matrix, n, i, 1, {}, recompute(matrix, i, {}))
<1> DEFINE D == (1..n) \X (1..(n+1)) \X SUBSET (1..n)
           body(f, c) == Visited(matrix, n, f, c[1], c[2], c[3])
           visit == CHOOSE f : f = [c \in D |-> body(f, c)]
           k == n * (n + 2) + n + 1
<1>1. recompute(matrix, i, {}) = visit[<<i, 1, {}>>]
  BY DEF recompute
<1>2. k \in Nat /\ \A j \in 1..(n+1), deps \in SUBSET (1..n) :
                     Left(n, j, deps) < k
  <2>1. n * (n + 2) \in Nat
    OBVIOUS
  <2> DEFINE w == n * (n + 2)
  <2>2. \A j \in 1..(n+1), deps \in SUBSET (1..n) :
          Left(n, j, deps) \in Nat /\ Left(n, j, deps) <= w + n
    BY LeftIs
  <2> HIDE DEF w
  <2>3. \A j \in 1..(n+1), deps \in SUBSET (1..n) :
          Left(n, j, deps) < w + n + 1
    BY <2>1, <2>2 DEF w
  <2> QED
    BY <2>1, <2>3 DEF w
<1> HIDE DEF k
<1>3. PICK g : VisitsTo(matrix, n, g, k)
  BY <1>2, VisitsExist
<1> DEFINE h == [c \in D |-> g[c]]
<1>4. ASSUME NEW a \in 1..n, NEW j \in 1..(n+1), NEW deps \in SUBSET (1..n)
      PROVE  h[<<a, j, deps>>] = Visited(matrix, n, h, a, j, deps)
  <2>1. \A b \in 1..n, l \in 1..(n+1), d \in SUBSET (1..n) :
          h[<<b, l, d>>] = g[<<b, l, d>>]
    OBVIOUS
  <2> HIDE DEF h
  <2>2. LessOK(matrix, n, g, a, j, deps)
    BY <1>2, <1>3, VisitsAreOK DEF LessOK
  <2>3. Visited(matrix, n, h, a, j, deps) = Visited(matrix, n, g, a, j, deps)
    BY <2>1, <2>2, VisitedSame
  <2> QED
    BY <1>2, <1>3, <2>1, <2>3 DEF VisitsTo
<1>5. h = [c \in D |-> body(h, c)]
  <2>1. \A c \in D : c = <<c[1], c[2], c[3]>> /\ c[1] \in 1..n
                     /\ c[2] \in 1..(n+1) /\ c[3] \in SUBSET (1..n)
    OBVIOUS
  <2>2. \A c \in D : h[c] = body(h, c)
    <3> HIDE DEF h
    <3> QED
      BY <1>4, <2>1
  <2>3. h = [c \in D |-> h[c]]
    OBVIOUS
  <2> HIDE DEF h, D, body
  <2> QED
    BY <2>2, <2>3
<1>6. visit = [c \in D |-> body(visit, c)]
  BY <1>5
<1> HIDE DEF visit
<1>7. VisitsTo(matrix, n, visit, k)
  <2>1. ASSUME NEW a \in 1..n, NEW j \in 1..(n+1), NEW deps \in SUBSET (1..n)
        PROVE  visit[<<a, j, deps>>] = Visited(matrix, n, visit, a, j, deps)
    <3>1. <<a, j, deps>> \in D
      OBVIOUS
    <3>2. visit[<<a, j, deps>>] = body(visit, <<a, j, deps>>)
      <4> HIDE DEF D, body
      <4> QED
        BY <1>6, <3>1
    <3> QED
      BY <3>2
  <2> QED
    BY <2>1 DEF VisitsTo
<1>8. 1 \in 1..(n+1) /\ {} \in SUBSET (1..n)
  OBVIOUS
<1>9. VisitOK(matrix, n, i, 1, {}, visit[<<i, 1, {}>>])
  BY <1>2, <1>7, <1>8, VisitsAreOK
<1> QED
  BY <1>1, <1>9

\* The transactions that i depends on.
Closure(matrix, n, i) ==
  {j \in 1..n : \A D \in SUBSET (1..n) :
                  i \in D /\ ClosedUnder(matrix, n, D) => j \in D}

\* recompute finds the closure.
LEMMA RecomputeIsTheClosure ==
  ASSUME NEW n \in Nat, NEW matrix, Len(matrix) = n, NEW i \in 1..n
  PROVE  /\ recompute(matrix, i, {}) = Closure(matrix, n, i)
         /\ recompute(matrix, i, {}) \in SUBSET (1..n)
         /\ i \in recompute(matrix, i, {})
         /\ ClosedUnder(matrix, n, recompute(matrix, i, {}))
<1> DEFINE r == recompute(matrix, i, {})
<1>1. VisitOK(matrix, n, i, 1, {}, r)
  BY RecomputeIs
<1> HIDE DEF r
<1>2. r \in SUBSET (1..n) /\ i \in r /\ ClosedUnder(matrix, n, r)
  BY <1>1 DEF VisitOK, ClosedUnder
<1>3. \A D \in SUBSET (1..n) :
        i \in D /\ ClosedUnder(matrix, n, D) => r \subseteq D
  BY <1>1 DEF VisitOK
<1>4. r = Closure(matrix, n, i)
  BY <1>2, <1>3 DEF Closure
<1> QED
  BY <1>2, <1>4 DEF r

\* When of each two transactions one is blocked by the other, there is one
\* that depends on all of them.
LEMMA OneDependsOnAll ==
  ASSUME NEW n \in Nat, n # 0, NEW matrix, Len(matrix) = n,
         \A i, j \in 1..n : i # j => matrix[i][j] \/ matrix[j][i]
  PROVE  \E i \in 1..n : recompute(matrix, i, {}) = 1..n
<1> DEFINE r(i) == recompute(matrix, i, {})
           c(i) == Cardinality(r(i))
<1>1. \A i \in 1..n : r(i) \in SUBSET (1..n) /\ i \in r(i)
                      /\ ClosedUnder(matrix, n, r(i))
  BY RecomputeIsTheClosure
<1>2. ASSUME NEW i \in 1..n, NEW j \in 1..n, j \in r(i)
      PROVE  r(j) \subseteq r(i)
  <2>1. r(j) = Closure(matrix, n, j)
    BY RecomputeIsTheClosure
  <2> HIDE DEF r
  <2> QED
    BY <1>1, <1>2, <2>1 DEF Closure
<1> HIDE DEF r
<1>3. \A i \in 1..n : c(i) \in 0..n
  BY <1>1, SubsetsCounted
<1> DEFINE C == {c(i) : i \in 1..n}
<1>4. C \in SUBSET (0..n) /\ C # {}
  BY <1>3
<1> HIDE DEF C, c
<1>5. PICK m \in C : \A k \in C : k <= m
  <2>1. C \in SUBSET Nat /\ \A k \in C : k <= n
    BY <1>4
  <2> QED
    BY <1>4, <2>1, GreatestExists
<1>6. PICK i \in 1..n : \A j \in 1..n : c(j) <= c(i)
  BY <1>5 DEF C
<1>7. ASSUME NEW x \in 1..n, x \notin r(i) PROVE FALSE
  <2>1. x # i /\ ~matrix[i][x]
    BY <1>1, <1>7 DEF ClosedUnder
  <2>2. matrix[x][i]
    BY <2>1
  <2>3. i \in r(x) /\ x \in r(x)
    BY <1>1, <2>2 DEF ClosedUnder
  <2>4. r(i) \subseteq r(x) /\ r(i) # r(x)
    BY <1>2, <1>7, <2>3
  <2>5. c(i) <= c(x) /\ (c(i) = c(x) => r(i) = r(x))
    BY <1>1, <2>4, SubsetsCounted DEF c
  <2> QED
    BY <1>3, <1>6, <2>4, <2>5
<1> QED
  BY <1>1, <1>7 DEF r

-----------------------------------------------------------------------------
(* The loops that fill a block                                             *)

\* What one turn of the inner loop makes of its accumulator.
PushTurn(acc, tx, opts, weight) ==
  IF acc.done THEN acc ELSE PushTx(acc, tx, opts, weight)

\* g holds the accumulator after each of the first n turns of the inner loop.
Pushes(g, acc, list, opts, weight, n) ==
  g = [i \in 0..n |-> IF i = 0 THEN [acc EXCEPT !.done = FALSE]
                      ELSE PushTurn(g[i-1], list[i], opts, weight)]

\* The inner loop runs to its end.
LEMMA PushesExist ==
  ASSUME NEW acc, NEW list, NEW opts, NEW weight, NEW n \in Nat
  PROVE  \E g : Pushes(g, acc, list, opts, weight, n)
<1> DEFINE first == [acc EXCEPT !.done = FALSE]
           turn(a, i) == PushTurn(a, list[i], opts, weight)
           Runs(g, k) == g = [i \in 0..k |-> IF i = 0 THEN first
                                             ELSE turn(g[i-1], i)]
           Bad == {k \in Nat : ~ \E g : Runs(g, k)}
<1> HIDE DEF first, turn
<1>1. Bad = {}
  <2> SUFFICES ASSUME Bad # {} PROVE FALSE
    OBVIOUS
  <2>1. Bad \in SUBSET Nat
    OBVIOUS
  <2> HIDE DEF Bad
  <2>2. PICK m \in Bad : \A k \in Bad : m <= k
    BY <2>1, LeastExists
  <2>3. m \in Nat
    BY <2>1
  <2> USE DEF Bad
  <2>4. CASE m = 0
    <3> DEFINE h == [i \in 0..0 |-> first]
    <3>1. Runs(h, 0)
      OBVIOUS
    <3> HIDE DEF Runs
    <3> QED
      BY <2>2, <2>4, <3>1
  <2>5. CASE m > 0
    <3>1. m - 1 \in Nat /\ m - 1 \notin Bad
      BY <2>2, <2>3, <2>5
    <3>2. PICK g : Runs(g, m - 1)
      BY <3>1
    <3> DEFINE e == turn(g[m-1], m)
               h == [i \in 0..m |-> IF i < m THEN g[i] ELSE e]
    <3>3. ASSUME NEW i \in 0..m
          PROVE  h[i] = IF i = 0 THEN first ELSE turn(h[i-1], i)
      <4>1. CASE i < m
        <5>1. i \in 0..(m-1) /\ h[i] = g[i]
          BY <2>3, <4>1
        <5>2. i # 0 => h[i-1] = g[i-1]
          BY <2>3, <4>1
        <5>3. g[i] = IF i = 0 THEN first ELSE turn(g[i-1], i)
          BY <3>2, <5>1
        <5> HIDE DEF h
        <5> QED
          BY <5>1, <5>2, <5>3
      <4>2. CASE i = m
        <5>1. h[m-1] = g[m-1] /\ h[m] = e /\ m # 0
          BY <2>3, <2>5
        <5> HIDE DEF h
        <5> QED
          BY <4>2, <5>1
      <4> QED
        BY <2>3, <4>1, <4>2
    <3>4. h = [i \in 0..m |-> h[i]]
      OBVIOUS
    <3> HIDE DEF h
    <3>5. Runs(h, m)
      BY <3>3, <3>4
    <3> HIDE DEF Runs
    <3> QED
      BY <2>2, <3>5
  <2> QED
    BY <2>3, <2>4, <2>5
<1>2. PICK g : Runs(g, n)
  BY <1>1
<1> QED
  BY <1>2 DEF Pushes, first, turn

\* What the inner loop leaves behind is the last of its accumulators.
LEMMA PushBlockersIs ==
  ASSUME NEW acc, NEW list, NEW opts, NEW weight, Len(list) \in Nat
  PROVE  \E g : /\ PushBlockers(acc, list, opts, weight) = g[Len(list)]
                /\ g[0] = [acc EXCEPT !.done = FALSE]
                /\ \A i \in 1..Len(list) :
                     g[i] = PushTurn(g[i-1], list[i], opts, weight)
<1> DEFINE n == Len(list)
           after == CHOOSE g : g = [i \in 0..n |->
                      IF i = 0 THEN [acc EXCEPT !.done = FALSE]
                      ELSE IF g[i-1].done THEN g[i-1]
                      ELSE PushTx(g[i-1], list[i], opts, weight)]
<1>1. PushBlockers(acc, list, opts, weight) = after[n]
  BY DEF PushBlockers
<1>2. PICK g : Pushes(g, acc, list, opts, weight, n)
  BY PushesExist
<1>3. Pushes(after, acc, list, opts, weight, n)
  BY <1>2 DEF Pushes, PushTurn
<1> HIDE DEF after
<1>4. /\ after[0] = [acc EXCEPT !.done = FALSE]
      /\ \A i \in 1..n : after[i] = PushTurn(after[i-1], list[i], opts, weight)
  <2> DEFINE first == [acc EXCEPT !.done = FALSE]
  <2>1. after = [i \in 0..n |->
                   IF i = 0 THEN first
                   ELSE PushTurn(after[i-1], list[i], opts, weight)]
    BY <1>3 DEF Pushes
  <2> HIDE DEF first
  <2>2. /\ after[0] = first
        /\ \A i \in 1..n :
             after[i] = PushTurn(after[i-1], list[i], opts, weight)
    BY <2>1
  <2> QED
    BY <2>2 DEF first
<1> QED
  BY <1>1, <1>4

\* What the outer loop starts from.
NoneTaken == [txs |-> NewTxs, size |-> 0, done |-> FALSE]

\* g holds the accumulator after each of the first n turns of the outer loop.
Fills(g, matrix, pend, opts, weight, n) ==
  g = [i \in 0..n |->
         IF i = 0 THEN NoneTaken
         ELSE PushBlockers(g[i-1], blockers(matrix, pend, i), opts, weight)]

\* The outer loop runs to its end.
LEMMA FillsExist ==
  ASSUME NEW matrix, NEW pend, NEW opts, NEW weight, NEW n \in Nat
  PROVE  \E g : Fills(g, matrix, pend, opts, weight, n)
<1> DEFINE turn(a, i) ==
             PushBlockers(a, blockers(matrix, pend, i), opts, weight)
           Runs(g, k) == g = [i \in 0..k |-> IF i = 0 THEN NoneTaken
                                             ELSE turn(g[i-1], i)]
           Bad == {k \in Nat : ~ \E g : Runs(g, k)}
<1> HIDE DEF turn
<1>1. Bad = {}
  <2> SUFFICES ASSUME Bad # {} PROVE FALSE
    OBVIOUS
  <2>1. Bad \in SUBSET Nat
    OBVIOUS
  <2> HIDE DEF Bad
  <2>2. PICK m \in Bad : \A k \in Bad : m <= k
    BY <2>1, LeastExists
  <2>3. m \in Nat
    BY <2>1
  <2> USE DEF Bad
  <2>4. CASE m = 0
    <3> DEFINE h == [i \in 0..0 |-> NoneTaken]
    <3>1. Runs(h, 0)
      OBVIOUS
    <3> HIDE DEF Runs
    <3> QED
      BY <2>2, <2>4, <3>1
  <2>5. CASE m > 0
    <3>1. m - 1 \in Nat /\ m - 1 \notin Bad
      BY <2>2, <2>3, <2>5
    <3>2. PICK g : Runs(g, m - 1)
      BY <3>1
    <3> DEFINE e == turn(g[m-1], m)
               h == [i \in 0..m |-> IF i < m THEN g[i] ELSE e]
    <3>3. ASSUME NEW i \in 0..m
          PROVE  h[i] = IF i = 0 THEN NoneTaken ELSE turn(h[i-1], i)
      <4>1. CASE i < m
        <5>1. i \in 0..(m-1) /\ h[i] = g[i]
          BY <2>3, <4>1
        <5>2. i # 0 => h[i-1] = g[i-1]
          BY <2>3, <4>1
        <5>3. g[i] = IF i = 0 THEN NoneTaken ELSE turn(g[i-1], i)
          BY <3>2, <5>1
        <5> HIDE DEF h
        <5> QED
          BY <5>1, <5>2, <5>3
      <4>2. CASE i = m
        <5>1. h[m-1] = g[m-1] /\ h[m] = e /\ m # 0
          BY <2>3, <2>5
        <5> HIDE DEF h
        <5> QED
          BY <4>2, <5>1
      <4> QED
        BY <2>3, <4>1, <4>2
    <3>4. h = [i \in 0..m |-> h[i]]
      OBVIOUS
    <3> HIDE DEF h
    <3>5. Runs(h, m)
      BY <3>3, <3>4
    <3> HIDE DEF Runs
    <3> QED
      BY <2>2, <3>5
  <2> QED
    BY <2>3, <2>4, <2>5
<1>2. PICK g : Runs(g, n)
  BY <1>1
<1> QED
  BY <1>2 DEF Fills, turn

\* g holds the accumulators of the outer loop that makes a block.
FillsBlock(g, matrix, pend, opts, weight) ==
  /\ NewBlock(matrix, pend, opts, weight) = g[Len(pend)].txs.list
  /\ g[0] = NoneTaken
  /\ \A i \in 1..Len(pend) :
       g[i] = PushBlockers(g[i-1], blockers(matrix, pend, i), opts, weight)

\* The block is what the last turn of the outer loop has taken.
LEMMA NewBlockIs ==
  ASSUME NEW matrix, NEW pend, NEW opts, NEW weight, Len(pend) \in Nat
  PROVE  \E g : FillsBlock(g, matrix, pend, opts, weight)
<1> DEFINE n == Len(pend)
           after == CHOOSE g : g = [i \in 0..n |->
                      IF i = 0
                      THEN [txs |-> NewTxs, size |-> 0, done |-> FALSE]
                      ELSE PushBlockers(g[i-1], blockers(matrix, pend, i),
                                        opts, weight)]
<1>1. NewBlock(matrix, pend, opts, weight) = after[n].txs.list
  BY DEF NewBlock
<1>2. PICK g : Fills(g, matrix, pend, opts, weight, n)
  BY FillsExist
<1>3. Fills(after, matrix, pend, opts, weight, n)
  BY <1>2 DEF Fills, NoneTaken
<1> HIDE DEF after
<1>4. /\ after[0] = NoneTaken
      /\ \A i \in 1..n :
           after[i] = PushBlockers(after[i-1], blockers(matrix, pend, i),
                                   opts, weight)
  BY <1>3 DEF Fills
<1> QED
  BY <1>1, <1>4 DEF FillsBlock

\* The accumulator of the loops keeps to the limits; size is never less than
\* the bytes taken.
Within(acc, S, opts, weight) ==
  /\ acc = [txs |-> acc.txs, size |-> acc.size, done |-> acc.done]
  /\ acc.txs.list \in Seq(S)
  /\ acc.size \in Nat
  /\ opts.TxLimit > 0 => Len(acc.txs.list) <= opts.TxLimit
  /\ opts.MaxBlockSize > 0 => /\ Sum(weight, acc.txs.list) <= acc.size
                              /\ Sum(weight, acc.txs.list) <= opts.MaxBlockSize

\* The options are natural numbers.
OptionsOK(opts) == opts.TxLimit \in Nat /\ opts.MaxBlockSize \in Nat

\* Push puts a transaction that is new at the end.
LEMMA PushedList ==
  ASSUME NEW t, NEW h
  PROVE  Push(t, h).list = IF h \in DOMAIN t.byHash THEN t.list
                           ELSE Append(t.list, h)
  BY DEF Push

\* One turn of the inner loop keeps to the limits.
LEMMA PushTurnWithin ==
  ASSUME NEW S, NEW weight, Weighs(weight, S), NEW opts, OptionsOK(opts),
         NEW acc, Within(acc, S, opts, weight), NEW tx \in S
  PROVE  Within(PushTurn(acc, tx, opts, weight), S, opts, weight)
<1> DEFINE limit == opts.TxLimit
           max == opts.MaxBlockSize
           size == IF max > 0 THEN acc.size + weight[tx] ELSE acc.size
           list == acc.txs.list
           new == Push(acc.txs, tx)
           sum == Sum(weight, list)
<1>1. limit \in Nat /\ max \in Nat /\ weight[tx] \in Nat /\ acc.size \in Nat
      /\ list \in Seq(S) /\ Len(list) \in Nat
  BY DEF OptionsOK, Weighs, Within
<1>2. sum \in Nat
  BY <1>1, SumType
<1>3. size \in Nat /\ acc.size <= size
  BY <1>1
<1>4. CASE acc.done
  BY <1>4 DEF PushTurn
<1>5. CASE ~acc.done /\ limit > 0 /\ Len(list) = limit
  <2>1. PushTurn(acc, tx, opts, weight)
          = [txs |-> acc.txs, size |-> acc.size, done |-> TRUE]
    BY <1>5 DEF PushTurn, PushTx, Within
  <2> QED
    BY <2>1 DEF Within
<1>6. CASE ~acc.done /\ ~(limit > 0 /\ Len(list) = limit) /\ max > 0
           /\ size > max
  <2>1. PushTurn(acc, tx, opts, weight)
          = [txs |-> acc.txs, size |-> size, done |-> TRUE]
    BY <1>6 DEF PushTurn, PushTx, Within
  <2> HIDE DEF size
  <2> QED
    BY <1>1, <1>2, <1>3, <2>1 DEF Within
<1>7. CASE ~acc.done /\ ~(limit > 0 /\ Len(list) = limit)
           /\ ~(max > 0 /\ size > max)
  <2> DEFINE r == [txs |-> new, size |-> size, done |-> acc.done]
  <2>1. PushTurn(acc, tx, opts, weight) = r
    BY <1>7 DEF PushTurn, PushTx, Within
  <2>2. new.list = list \/ new.list = Append(list, tx)
    BY PushedList
  <2>3. /\ Append(list, tx) \in Seq(S)
        /\ Len(Append(list, tx)) = Len(list) + 1
        /\ Sum(weight, Append(list, tx)) = sum + weight[tx]
    BY <1>1, SumAppend
  <2>4. /\ r = [txs |-> r.txs, size |-> r.size, done |-> r.done]
        /\ r.txs = new /\ r.size = size
    OBVIOUS
  <2>5. /\ limit > 0 => Len(list) <= limit
        /\ max > 0 => sum <= acc.size /\ sum <= max
    BY DEF Within
  <2>6. max > 0 => size = acc.size + weight[tx] /\ size <= max
    BY <1>1, <1>3, <1>7
  <2> HIDE DEF r, new, size, sum
  <2>7. new.list \in Seq(S) /\ (limit > 0 => Len(new.list) <= limit)
    <3>1. limit > 0 => Len(list) + 1 <= limit
      <4>1. limit > 0 => Len(list) <= limit /\ Len(list) # limit
        BY <1>7, <2>5
      <4> HIDE DEF limit, list
      <4> QED
        BY <1>1, <4>1
    <3> HIDE DEF limit, list
    <3> QED
      BY <1>1, <2>2, <2>3, <2>5, <3>1
  <2>8. ASSUME max > 0
        PROVE  Sum(weight, new.list) <= size /\ Sum(weight, new.list) <= max
    <3>1. CASE new.list = list
      BY <1>1, <1>2, <1>3, <2>5, <2>8, <3>1 DEF sum
    <3>2. CASE new.list = Append(list, tx)
      BY <1>1, <1>2, <1>3, <2>3, <2>5, <2>6, <2>8, <3>2
    <3> QED
      BY <2>2, <3>1, <3>2
  <2>9. Within(r, S, opts, weight)
    BY <1>3, <2>4, <2>7, <2>8 DEF Within
  <2> QED
    BY <2>1, <2>9
<1> QED
  BY <1>4, <1>5, <1>6, <1>7

\* The inner loop keeps to the limits.
LEMMA PushBlockersWithin ==
  ASSUME NEW S, NEW weight, Weighs(weight, S), NEW opts, OptionsOK(opts),
         NEW acc, Within(acc, S, opts, weight), NEW list \in Seq(S)
  PROVE  Within(PushBlockers(acc, list, opts, weight), S, opts, weight)
<1> DEFINE n == Len(list)
<1>1. n \in Nat /\ \A i \in 1..n : list[i] \in S
  OBVIOUS
<1>2. PICK g : /\ PushBlockers(acc, list, opts, weight) = g[n]
               /\ g[0] = [acc EXCEPT !.done = FALSE]
               /\ \A i \in 1..n :
                    g[i] = PushTurn(g[i-1], list[i], opts, weight)
  BY <1>1, PushBlockersIs
<1>3. Within(g[0], S, opts, weight)
  <2>1. g[0] = [txs |-> acc.txs, size |-> acc.size, done |-> FALSE]
    BY <1>2 DEF Within
  <2> QED
    BY <2>1 DEF Within
<1> DEFINE Bad == {i \in 0..n : ~Within(g[i], S, opts, weight)}
<1>4. Bad = {}
  <2> SUFFICES ASSUME Bad # {} PROVE FALSE
    OBVIOUS
  <2>1. Bad \in SUBSET Nat
    BY <1>1
  <2> HIDE DEF Bad
  <2>2. PICK m \in Bad : \A k \in Bad : m <= k
    BY <2>1, LeastExists
  <2> USE DEF Bad
  <2>3. m \in 0..n /\ m # 0 /\ ~Within(g[m], S, opts, weight)
    BY <1>3, <2>2
  <2>4. m \in 1..n /\ m - 1 \in 0..n /\ ~(m <= m - 1)
    BY <1>1, <2>3
  <2>5. Within(g[m - 1], S, opts, weight)
    BY <2>2, <2>4
  <2>6. g[m] = PushTurn(g[m - 1], list[m], opts, weight) /\ list[m] \in S
    BY <1>1, <1>2, <2>4
  <2> QED
    BY <2>3, <2>5, <2>6, PushTurnWithin
<1>5. n \in 0..n
  BY <1>1
<1> QED
  BY <1>2, <1>4, <1>5

\* The blockers are a prefix of the list.
LEMMA BlockersArePrefix ==
  ASSUME NEW S, NEW pend \in Seq(S), NEW matrix, Len(matrix) = Len(pend),
         NEW i \in 1..Len(pend)
  PROVE  LET c == Cardinality(recompute(matrix, i, {}))
         IN  /\ c \in 0..Len(pend)
             /\ blockers(matrix, pend, i) = SubSeq(pend, 1, c)
             /\ blockers(matrix, pend, i) \in Seq(S)
<1> DEFINE n == Len(pend)
           c == Cardinality(recompute(matrix, i, {}))
<1>1. n \in Nat
  OBVIOUS
<1>2. recompute(matrix, i, {}) \in SUBSET (1..n)
  BY <1>1, RecomputeIsTheClosure
<1>3. c \in 0..n
  BY <1>1, <1>2, SubsetsCounted
<1>4. blockers(matrix, pend, i) = SubSeq(pend, 1, c)
  BY DEF blockers
<1> HIDE DEF c
<1>5. SubSeq(pend, 1, c) \in Seq(S)
  BY <1>1, <1>3
<1> QED
  BY <1>3, <1>4, <1>5 DEF c

\* The block keeps to the limits.
LEMMA NewBlockWithin ==
  ASSUME NEW S, NEW weight, Weighs(weight, S), NEW opts, OptionsOK(opts),
         NEW pend \in Seq(S), NEW matrix, Len(matrix) = Len(pend)
  PROVE  LET made == NewBlock(matrix, pend, opts, weight)
         IN  /\ made \in Seq(S)
             /\ opts.TxLimit > 0 => Len(made) <= opts.TxLimit
             /\ opts.MaxBlockSize > 0 => Sum(weight, made) <= opts.MaxBlockSize
<1> DEFINE n == Len(pend)
<1>1. n \in Nat
  OBVIOUS
<1>2. PICK g : FillsBlock(g, matrix, pend, opts, weight)
  BY <1>1, NewBlockIs
<1> USE DEF FillsBlock
<1>3. Within(g[0], S, opts, weight)
  <2>1. << >> \in Seq(S) /\ Len(<< >>) = 0
    OBVIOUS
  <2>2. Sum(weight, << >>) = 0
    BY <2>1, SumOfNone
  <2>3. g[0] = [txs |-> [list |-> << >>, byHash |-> << >>], size |-> 0,
                done |-> FALSE]
    BY <1>2 DEF NoneTaken, NewTxs
  <2>4. /\ g[0] = [txs |-> g[0].txs, size |-> g[0].size, done |-> g[0].done]
        /\ g[0].txs.list = << >> /\ g[0].size = 0
    BY <2>3
  <2>5. opts.TxLimit \in Nat /\ opts.MaxBlockSize \in Nat
    BY DEF OptionsOK
  <2> QED
    BY <2>1, <2>2, <2>4, <2>5 DEF Within
<1> DEFINE Bad == {i \in 0..n : ~Within(g[i], S, opts, weight)}
<1>4. Bad = {}
  <2> SUFFICES ASSUME Bad # {} PROVE FALSE
    OBVIOUS
  <2>1. Bad \in SUBSET Nat
    BY <1>1
  <2> HIDE DEF Bad
  <2>2. PICK m \in Bad : \A k \in Bad : m <= k
    BY <2>1, LeastExists
  <2> USE DEF Bad
  <2>3. m \in 0..n /\ m # 0 /\ ~Within(g[m], S, opts, weight)
    BY <1>3, <2>2
  <2>4. m \in 1..n /\ m - 1 \in 0..n /\ ~(m <= m - 1)
    BY <1>1, <2>3
  <2>5. Within(g[m - 1], S, opts, weight)
    BY <2>2, <2>4
  <2>6. g[m] = PushBlockers(g[m - 1], blockers(matrix, pend, m), opts, weight)
    BY <1>2, <2>4
  <2>7. blockers(matrix, pend, m) \in Seq(S)
    BY <2>4, BlockersArePrefix
  <2> QED
    BY <2>3, <2>5, <2>6, <2>7, PushBlockersWithin
<1>5. n \in 0..n
  BY <1>1
<1>6. Within(g[n], S, opts, weight)
  BY <1>4, <1>5
<1> QED
  BY <1>2, <1>6 DEF Within

\* The accumulator holds the first k transactions.
TakenTo(acc, pend, k) ==
  /\ acc = [txs |-> acc.txs, size |-> acc.size, done |-> acc.done]
  /\ acc.done = FALSE
  /\ acc.txs.list = SubSeq(pend, 1, k)
  /\ DOMAIN acc.txs.byHash = {pend[i] : i \in 1..k}

\* Without limits, a turn of the inner loop takes the transaction that follows
\* those already taken, and leaves any of them alone.
LEMMA TurnTakes ==
  ASSUME NEW S, NEW pend \in Seq(S), IsInjective(pend), NEW weight,
         NEW k \in 0..Len(pend), NEW acc, TakenTo(acc, pend, k),
         NEW i \in 1..Len(pend), i <= k + 1
  PROVE  TakenTo(PushTurn(acc, pend[i], NoOptions, weight), pend,
                 IF i <= k THEN k ELSE i)
<1> DEFINE tx == pend[i]
           new == Push(acc.txs, tx)
           r == [txs |-> new, size |-> acc.size, done |-> acc.done]
<1>1. PushTurn(acc, tx, NoOptions, weight) = r
  <2>1. NoOptions.TxLimit = 0 /\ NoOptions.MaxBlockSize = 0
    BY DEF NoOptions
  <2>2. acc = [txs |-> acc.txs, size |-> acc.size, done |-> acc.done]
        /\ ~acc.done
    BY DEF TakenTo
  <2>3. PushTurn(acc, tx, NoOptions, weight)
          = [acc EXCEPT !.txs = new, !.size = acc.size]
    BY <2>1, <2>2 DEF PushTurn, PushTx
  <2>4. ASSUME NEW a, a = [txs |-> a.txs, size |-> a.size, done |-> a.done],
               NEW q, NEW z
        PROVE  [a EXCEPT !.txs = q, !.size = z]
                 = [txs |-> q, size |-> z, done |-> a.done]
    <3> DEFINE f == [a EXCEPT !.txs = q]
    <3>1. f = [txs |-> q, size |-> a.size, done |-> a.done]
      BY <2>4
    <3> HIDE DEF f
    <3>2. [f EXCEPT !.size = z] = [txs |-> q, size |-> z, done |-> a.done]
      BY <3>1
    <3> QED
      BY <3>2 DEF f
  <2> QED
    BY <2>2, <2>3, <2>4
<1>2. /\ r = [txs |-> r.txs, size |-> r.size, done |-> r.done]
      /\ r.txs = new /\ r.done = FALSE
  BY DEF TakenTo
<1>3. CASE i <= k
  <2>1. tx \in DOMAIN acc.txs.byHash
    BY <1>3 DEF TakenTo
  <2>2. new = acc.txs
    BY <2>1 DEF Push
  <2> HIDE DEF r, new
  <2> QED
    BY <1>1, <1>2, <1>3, <2>2 DEF TakenTo
<1>4. CASE i = k + 1
  <2>1. tx \notin DOMAIN acc.txs.byHash
    <3>1. \A j \in 1..k : pend[j] # tx
      BY <1>4 DEF IsInjective
    <3> QED
      BY <3>1 DEF TakenTo
  <2>2. /\ new.list = Append(acc.txs.list, tx)
        /\ DOMAIN new.byHash = DOMAIN acc.txs.byHash \cup {tx}
    BY <2>1 DEF Push
  <2>3. Append(SubSeq(pend, 1, k), tx) = SubSeq(pend, 1, i)
    BY <1>4
  <2>4. {pend[j] : j \in 1..k} \cup {tx} = {pend[j] : j \in 1..i}
    BY <1>4
  <2> HIDE DEF r, new
  <2>5. TakenTo(r, pend, i)
    BY <1>2, <2>2, <2>3, <2>4 DEF TakenTo
  <2>6. ~(i <= k)
    BY <1>4
  <2> QED
    BY <1>1, <2>5, <2>6
<1> QED
  BY <1>3, <1>4

\* Without limits, the inner loop over a prefix takes all of it.
LEMMA LoopTakes ==
  ASSUME NEW S, NEW pend \in Seq(S), IsInjective(pend), NEW weight,
         NEW k \in 0..Len(pend), NEW acc,
         TakenTo([acc EXCEPT !.done = FALSE], pend, k),
         NEW c \in 0..Len(pend)
  PROVE  TakenTo(PushBlockers(acc, SubSeq(pend, 1, c), NoOptions, weight),
                 pend, IF c <= k THEN k ELSE c)
<1> DEFINE list == SubSeq(pend, 1, c)
           top(i) == IF i <= k THEN k ELSE i
<1>1. /\ Len(list) = c /\ c \in Nat /\ k \in Nat /\ Len(pend) \in Nat
      /\ \A i \in 1..c : list[i] = pend[i]
  OBVIOUS
<1> HIDE DEF list
<1>2. PICK g : /\ PushBlockers(acc, list, NoOptions, weight) = g[Len(list)]
               /\ g[0] = [acc EXCEPT !.done = FALSE]
               /\ \A i \in 1..Len(list) :
                    g[i] = PushTurn(g[i-1], list[i], NoOptions, weight)
  BY <1>1, PushBlockersIs
<1> DEFINE Bad == {i \in 0..c : ~TakenTo(g[i], pend, top(i))}
<1>3. Bad = {}
  <2> SUFFICES ASSUME Bad # {} PROVE FALSE
    OBVIOUS
  <2>1. Bad \in SUBSET Nat
    BY <1>1
  <2> HIDE DEF Bad
  <2>2. PICK m \in Bad : \A l \in Bad : m <= l
    BY <2>1, LeastExists
  <2> USE DEF Bad
  <2>3. m \in 0..c /\ ~TakenTo(g[m], pend, top(m))
    BY <2>2
  <2>4. m # 0
    <3>1. top(0) = k
      BY <1>1
    <3>2. TakenTo(g[0], pend, k)
      BY <1>2
    <3> QED
      BY <2>3, <3>1, <3>2
  <2>5. m \in 1..c /\ m - 1 \in 0..c /\ ~(m <= m - 1) /\ m \in 1..Len(pend)
    BY <1>1, <2>3, <2>4
  <2>6. TakenTo(g[m - 1], pend, top(m - 1))
    BY <2>2, <2>5
  <2>7. g[m] = PushTurn(g[m - 1], pend[m], NoOptions, weight)
    BY <1>1, <1>2, <2>5
  <2>8. /\ top(m - 1) \in 0..Len(pend) /\ m <= top(m - 1) + 1
        /\ top(m) = IF m <= top(m - 1) THEN top(m - 1) ELSE m
    BY <1>1, <2>5
  <2> HIDE DEF top
  <2>9. TakenTo(g[m], pend, IF m <= top(m - 1) THEN top(m - 1) ELSE m)
    BY <2>5, <2>6, <2>7, <2>8, TurnTakes
  <2> QED
    BY <2>3, <2>8, <2>9
<1>4. c \in 0..c
  BY <1>1
<1>5. TakenTo(g[c], pend, top(c))
  BY <1>3, <1>4
<1> QED
  BY <1>1, <1>2, <1>5 DEF list

\* Without limits, the block holds all pending transactions when of each two
\* one is blocked by the other.
LEMMA NewBlockIsWhole ==
  ASSUME NEW S, NEW pend \in Seq(S), IsInjective(pend), NEW weight,
         NEW matrix, Len(matrix) = Len(pend),
         \A i, j \in 1..Len(pend) : i # j => matrix[i][j] \/ matrix[j][i]
  PROVE  NewBlock(matrix, pend, NoOptions, weight) = pend
<1> DEFINE n == Len(pend)
           c(i) == Cardinality(recompute(matrix, i, {}))
<1>1. n \in Nat
  OBVIOUS
<1>2. PICK g : FillsBlock(g, matrix, pend, NoOptions, weight)
  BY <1>1, NewBlockIs
<1>3. /\ NewBlock(matrix, pend, NoOptions, weight) = g[n].txs.list
      /\ g[0] = NoneTaken
      /\ \A i \in 1..n :
           g[i] = PushBlockers(g[i-1], blockers(matrix, pend, i), NoOptions,
                               weight)
  BY <1>2 DEF FillsBlock
<1>4. \A i \in 1..n : c(i) \in 0..n
                      /\ blockers(matrix, pend, i) = SubSeq(pend, 1, c(i))
  BY BlockersArePrefix
<1> HIDE DEF c
<1> DEFINE Taken(i) == \E k \in 0..n : /\ TakenTo(g[i], pend, k)
                                       /\ \A j \in 1..i : c(j) <= k
           Bad == {i \in 0..n : ~Taken(i)}
<1>5. Bad = {}
  <2> SUFFICES ASSUME Bad # {} PROVE FALSE
    OBVIOUS
  <2>1. Bad \in SUBSET Nat
    BY <1>1
  <2> HIDE DEF Bad
  <2>2. PICK m \in Bad : \A l \in Bad : m <= l
    BY <2>1, LeastExists
  <2> USE DEF Bad
  <2>3. m \in 0..n /\ ~Taken(m)
    BY <2>2
  <2>4. m # 0
    <3>1. TakenTo(g[0], pend, 0)
      <4>1. g[0] = [txs |-> [list |-> << >>, byHash |-> << >>], size |-> 0,
                    done |-> FALSE]
        BY <1>3 DEF NoneTaken, NewTxs
      <4>2. /\ g[0] = [txs |-> g[0].txs, size |-> g[0].size,
                       done |-> g[0].done]
            /\ g[0].done = FALSE /\ g[0].txs.list = << >>
            /\ g[0].txs.byHash = << >>
        BY <4>1
      <4>3. SubSeq(pend, 1, 0) = << >> /\ DOMAIN << >> = {} /\ 1..0 = {}
        OBVIOUS
      <4> QED
        BY <4>2, <4>3 DEF TakenTo
    <3>2. 0 \in 0..n /\ 1..0 = {}
      BY <1>1
    <3> QED
      BY <2>3, <3>1, <3>2
  <2>5. m \in 1..n /\ m - 1 \in 0..n /\ ~(m <= m - 1)
    BY <1>1, <2>3, <2>4
  <2>6. Taken(m - 1)
    BY <2>2, <2>5
  <2>7. PICK k \in 0..n : /\ TakenTo(g[m - 1], pend, k)
                          /\ \A j \in 1..(m - 1) : c(j) <= k
    BY <2>6
  <2>8. g[m] = PushBlockers(g[m - 1], SubSeq(pend, 1, c(m)), NoOptions, weight)
    BY <1>3, <1>4, <2>5
  <2>9. TakenTo([g[m - 1] EXCEPT !.done = FALSE], pend, k)
    <3>1. ASSUME NEW a, TakenTo(a, pend, k)
          PROVE  [a EXCEPT !.done = FALSE] = a
      BY <3>1 DEF TakenTo
    <3> QED
      BY <2>7, <3>1
  <2> DEFINE l == IF c(m) <= k THEN k ELSE c(m)
  <2>10. TakenTo(g[m], pend, l)
    BY <1>4, <2>5, <2>8, <2>9, LoopTakes
  <2>11. l \in 0..n /\ \A j \in 1..m : c(j) <= l
    <3>1. c(m) \in 0..n
      BY <1>4, <2>5
    <3>2. \A j \in 1..(m - 1) : c(j) \in 0..n
      BY <1>1, <1>4, <2>5
    <3>3. \A j \in 1..m : j = m \/ j \in 1..(m - 1)
      <4> HIDE DEF n
      <4> QED
        BY <1>1, <2>5
    <3> QED
      BY <1>1, <2>7, <3>1, <3>2, <3>3
  <2> QED
    BY <2>3, <2>10, <2>11
<1>6. n \in 0..n
  BY <1>1
<1>7. PICK k \in 0..n : TakenTo(g[n], pend, k) /\ \A j \in 1..n : c(j) <= k
  BY <1>5, <1>6
<1>8. k = n
  <2>1. CASE n = 0
    BY <2>1
  <2>2. CASE n # 0
    <3>1. PICK i \in 1..n : recompute(matrix, i, {}) = 1..n
      BY <1>1, <2>2, OneDependsOnAll
    <3>2. Cardinality(1..n) = n
      <4>1. Cardinality(1..n) = IF 1 > n THEN 0 ELSE n - 1 + 1
        BY <1>1, FS_Interval
      <4> QED
        BY <1>1, <2>2, <4>1
    <3>3. c(i) = n
      BY <3>1, <3>2 DEF c
    <3> QED
      BY <1>1, <1>7, <3>3
  <2> QED
    BY <2>1, <2>2
<1>9. SubSeq(pend, 1, n) = pend
  BY <1>1
<1> QED
  BY <1>3, <1>7, <1>8, <1>9 DEF TakenTo

-----------------------------------------------------------------------------
(* BlockMaking                                                             *)

\* The matrix and the options of the call.
Chosen ==
  /\ chosenMatrix \in Matrices
  /\ chosenOpts \in Options

\* The transactions of BlockMaking.
Elements == ToSet(Pending)

\* What BlockMakingAssumption says of the pending transactions, the options and
\* the matrices.
LEMMA MakingFacts ==
  /\ Pending \in Seq(Elements) /\ IsInjective(Pending)
  /\ Len(Pending) \in Nat
  /\ Weighs(SizeOf, Elements)
  /\ \A o \in Options : OptionsOK(o)
  /\ \A m \in Matrices : Len(m) = Len(Pending)
<1>1. /\ Pending \in Seq(ToSet(Pending)) /\ IsInjective(Pending)
      /\ \A tx \in ToSet(Pending) : SizeOf[tx] \in Nat
      /\ Options \subseteq [TxLimit : Nat, MaxBlockSize : Nat]
      /\ Matrices \subseteq [1..Len(Pending) -> [1..Len(Pending) -> BOOLEAN]]
  BY BlockMakingAssumption
<1>4. Pending \in Seq(Elements) /\ Len(Pending) \in Nat
  BY <1>1 DEF Elements
<1>5. \A m \in Matrices : Len(m) = Len(Pending)
  <2> SUFFICES ASSUME NEW m \in Matrices PROVE Len(m) = Len(Pending)
    OBVIOUS
  <2> DEFINE n == Len(Pending)
  <2>1. m \in [1..n -> [1..n -> BOOLEAN]] /\ n \in Nat
    BY <1>1, <1>4
  <2> HIDE DEF n
  <2>2. m \in Seq([1..n -> BOOLEAN]) /\ Len(m) = n
    BY <2>1
  <2> QED
    BY <2>2 DEF n
<1>6. \A o \in Options : OptionsOK(o)
  BY <1>1 DEF OptionsOK
<1> QED
  BY <1>1, <1>4, <1>5, <1>6 DEF Weighs, Elements

\* The matrix and the options of a call are those chosen at the start.
LEMMA ChosenStays ==
  /\ BlockInit => Chosen
  /\ Chosen /\ [BlockNext]_blockVars => Chosen'
  BY DEF BlockInit, BlockNext, NewBlockWithOptions, blockVars, Chosen

\* For every matrix of any size, recompute's search with its shared visited set
\* finds exactly the transitive blockers of a transaction (wendy.go:307-326).
THEOREM SearchFindsTheClosure == BlockSpec => []RecomputeIsClosure
<1>1. Chosen => RecomputeIsClosure
  <2> SUFFICES ASSUME Chosen, NEW i \in 1..Len(Pending)
               PROVE  recompute(chosenMatrix, i, {}) = DependsOn(i)
    BY DEF RecomputeIsClosure, N
  <2>1. Len(Pending) \in Nat /\ Len(chosenMatrix) = Len(Pending)
    BY MakingFacts DEF Chosen
  <2>2. recompute(chosenMatrix, i, {}) = Closure(chosenMatrix, Len(Pending), i)
    BY <2>1, RecomputeIsTheClosure
  <2>3. Closure(chosenMatrix, Len(Pending), i) = DependsOn(i)
    BY DEF Closure, ClosedUnder, DependsOn, IsClosed, N
  <2> QED
    BY <2>2, <2>3
<1> QED
  BY <1>1, ChosenStays, PTL DEF BlockSpec

\* The block is within the limits.
BlockWithin == Chosen /\ LimitsHold

\* Whatever the matrix and the options, the block as a whole keeps to TxLimit
\* and MaxBlockSize, although each `break' leaves only the inner loop
\* (wendy.go:246-254).
THEOREM BlockKeepsToLimits == BlockSpec => []LimitsHold
<1>1. BlockInit => BlockWithin
  <2> SUFFICES ASSUME BlockInit PROVE LimitsHold
    BY ChosenStays DEF BlockWithin
  <2>1. madeBlock = << >> /\ OptionsOK(chosenOpts)
    BY MakingFacts DEF BlockInit
  <2>2. Sum(SizeOf, << >>) = 0 /\ Len(<< >>) = 0
    <3>1. Weighs(SizeOf, Elements) /\ << >> \in Seq(Elements) /\ Len(<< >>) = 0
      BY MakingFacts
    <3> QED
      BY <3>1, SumOfNone
  <2> QED
    BY <2>1, <2>2 DEF LimitsHold, OptionsOK
<1>2. BlockWithin /\ [BlockNext]_blockVars => BlockWithin'
  <2> SUFFICES ASSUME BlockWithin, [BlockNext]_blockVars
               PROVE  LimitsHold'
    BY ChosenStays DEF BlockWithin
  <2>1. CASE UNCHANGED blockVars
    BY <2>1 DEF BlockWithin, LimitsHold, blockVars, Sum
  <2>2. CASE BlockNext
    <3> DEFINE made == NewBlock(chosenMatrix, Pending, chosenOpts, SizeOf)
    <3>1. madeBlock' = made /\ chosenOpts' = chosenOpts
      BY <2>2 DEF BlockNext, NewBlockWithOptions
    <3>2. /\ Pending \in Seq(Elements) /\ Weighs(SizeOf, Elements)
          /\ OptionsOK(chosenOpts) /\ Len(chosenMatrix) = Len(Pending)
      BY MakingFacts DEF BlockWithin, Chosen
    <3>3. /\ chosenOpts.TxLimit > 0 => Len(made) <= chosenOpts.TxLimit
          /\ chosenOpts.MaxBlockSize > 0 =>
               Sum(SizeOf, made) <= chosenOpts.MaxBlockSize
      BY <3>2, NewBlockWithin
    <3> HIDE DEF made
    <3>4. Sum(SizeOf, madeBlock)' = Sum(SizeOf, made)
      BY <3>1 DEF Sum
    <3> QED
      BY <3>1, <3>3, <3>4 DEF LimitsHold
  <2> QED
    BY <2>1, <2>2
<1> QED
  BY <1>1, <1>2, PTL DEF BlockSpec, BlockWithin

\* Without limits the block holds every pending transaction, in order, whenever
\* of each two transactions one is blocked by the other (wendy.go:286-303).
THEOREM UnlimitedBlockLeavesNothingOut == BlockSpec => UnlimitedBlockIsWhole
<1>1. Chosen /\ [BlockNext]_blockVars
      => [OneOfTwoBlocks /\ chosenOpts = NoOptions
            => madeBlock' = Pending]_blockVars
  <2> SUFFICES ASSUME Chosen, BlockNext, OneOfTwoBlocks, chosenOpts = NoOptions
               PROVE  madeBlock' = Pending
    OBVIOUS
  <2>1. madeBlock' = NewBlock(chosenMatrix, Pending, chosenOpts, SizeOf)
    BY DEF BlockNext, NewBlockWithOptions
  <2>3. \A i, j \in 1..Len(Pending) :
          i # j => chosenMatrix[i][j] \/ chosenMatrix[j][i]
    BY DEF OneOfTwoBlocks, N
  <2>4. /\ Pending \in Seq(Elements) /\ IsInjective(Pending)
        /\ Len(chosenMatrix) = Len(Pending)
    BY MakingFacts DEF Chosen
  <2>5. NewBlock(chosenMatrix, Pending, NoOptions, SizeOf) = Pending
    BY <2>3, <2>4, NewBlockIsWhole
  <2> QED
    BY <2>1, <2>5
<1> QED
  BY <1>1, ChosenStays, PTL DEF BlockSpec, UnlimitedBlockIsWhole
-----------------------------------------------------------------------------
(* Blocks made while votes arrive in order                                 *)

\* The quotient and the remainder of a place in a matrix of n columns.
LEMMA PlaceInMatrix ==
  ASSUME NEW n \in Nat, NEW k \in Nat, k < n * n
  PROVE  k \div n \in 0..(n - 1) /\ k % n \in 0..(n - 1)
<1>1. n > 0
  BY Z3
<1>2. k % n \in 0..(n - 1) /\ k \div n \in Int /\ k = n * (k \div n) + (k % n)
  BY <1>1, Z3
<1> DEFINE q == k \div n
           r == k % n
<1> HIDE DEF q, r
<1>3. r \in 0..(n - 1) /\ q \in Int /\ k = n * q + r
  BY <1>2 DEF q, r
<1>4. q >= 0
  <2> SUFFICES ASSUME q <= -1 PROVE FALSE
    BY <1>3
  <2>1. n * q <= n * (-1)
    BY <1>1, <1>3, Z3
  <2> QED
    BY <1>3, <2>1
<1>5. q < n
  <2> SUFFICES ASSUME q >= n PROVE FALSE
    BY <1>3
  <2>1. n * q >= n * n
    BY <1>1, <1>3, Z3
  <2> QED
    BY <1>3, <2>1
<1> QED
  BY <1>3, <1>4, <1>5 DEF q, r

\* The place of cell (i, j) and what it is divided into.
LEMMA CellOfPlace ==
  ASSUME NEW n \in Nat, NEW i \in 1..n, NEW j \in 1..n
  PROVE  /\ (i - 1) * n + j \in 1..(n * n)
         /\ (((i - 1) * n + j) - 1) \div n = i - 1
         /\ (((i - 1) * n + j) - 1) % n = j - 1
<1> DEFINE m == (i - 1) * n
<1>1. m \in Nat /\ m + n = i * n /\ n * n \in Nat /\ i * n <= n * n
  BY Z3
<1>2. m + j \in 1..(n * n)
  <2> HIDE DEF m
  <2> DEFINE a == i * n
             b == n * n
  <2>1. a = m + n /\ b \in Nat /\ a <= b /\ m \in Nat
    BY <1>1
  <2> HIDE DEF a, b
  <2> QED
    BY <2>1 DEF b
<1>3. (m + j) - 1 = n * (i - 1) + (j - 1)
  BY Z3
<1>4. ((m + j) - 1) \div n = i - 1 /\ ((m + j) - 1) % n = j - 1
  BY <1>3, Z3
<1> QED
  BY <1>2, <1>4

\* Those who vote.
Voters == {v.pubkey : v \in env.votes}

\* The quorum in force is that of an update.
QuorumOK ==
  quorum = 0 \/ \E vs \in env.validatorSets : quorum = QuorumOf(Len(vs))

\* The votes that peers hold have arrived.
ArrivedOK ==
  \A id \in DOMAIN peers, l \in Labels :
    \A i \in DOMAIN peers[id][l].votes : peers[id][l].votes[i] \in arrived

VoterCommited(h) ==
  \E id \in DOMAIN peers \cap Voters : h \in peers[id][label[h]].commitedHashes

\* Where there are peers there is one of a voter, and it holds as commited what
\* any other one does.
VotersOK ==
  /\ DOMAIN peers # {} => DOMAIN peers \cap Voters # {}
  /\ \A h \in TxHashes : CommitedSomewhere(h) => VoterCommited(h)

Uncommited == \A h \in TxHashes : ~CommitedSomewhere(h)

\* More than half of the voters have h before g.
MostBefore(h, g) ==
  /\ h \in TxHashes /\ g \in TxHashes /\ label[h] = label[g]
  /\ IsFiniteSet(Voters)
  /\ 2 * Cardinality(PeersBefore(h, g)) > Cardinality(Voters)

\* Wherever a cell of the matrix that is being filled says that one transaction
\* is not blocked by another one, it still has priority.
CellsOK ==
  LET n == Len(txs.list)
  IN  \A k \in 1..Len(making.cells) : \A h, g \in TxHashes :
        /\ ~making.cells[k]
        /\ h = txs.list[((k - 1) \div n) + 1]
        /\ g = txs.list[((k - 1) % n) + 1]
        => MostBefore(h, g)

MatrixOK ==
  /\ making = [pc |-> "matrix", opts |-> making.opts, cells |-> making.cells]
  /\ making.cells \in Seq(BOOLEAN)
  /\ Uncommited => CellsOK

BlockInv ==
  /\ QuorumOK
  /\ ArrivedOK
  /\ VotersOK
  /\ making.pc = "matrix" => MatrixOK

\* No two voters' majorities are apart: there are no more voters than an update
\* has validators.
LEMMA QuorumIsMost ==
  ASSUME VotersStay, TypeOK, env.inOrder, QuorumOK, NEW P, IsFiniteSet(P),
         hasQuorum(P)
  PROVE  /\ IsFiniteSet(Voters)
         /\ 2 * Cardinality(P) > Cardinality(Voters)
<1>1. quorum > 0 /\ Cardinality(P) >= quorum /\ quorum \in Nat
  BY DEF hasQuorum, TypeOK
<1>2. PICK vs \in env.validatorSets : quorum = QuorumOf(Len(vs))
  BY <1>1 DEF QuorumOK
<1>3. Voters \subseteq ToSet(vs) /\ vs \in Seq(ToSet(vs)) /\ Len(vs) \in Nat
  <2>1. vs \in Seq(ToSet(vs))
    BY <1>2, WendyAssumption DEF TypeOK
  <2> QED
    BY <1>2, <2>1 DEF VotersStay, TypeOK, Voters
<1>4. IsFiniteSet(ToSet(vs)) /\ Cardinality(ToSet(vs)) <= Len(vs)
  BY <1>3, FiniteSequence
<1>5. /\ IsFiniteSet(Voters)
      /\ Cardinality(Voters) <= Cardinality(ToSet(vs))
  BY <1>3, <1>4, FS_Subset
<1>6. /\ Cardinality(Voters) \in Nat /\ Cardinality(ToSet(vs)) \in Nat
      /\ Cardinality(P) \in Nat
  BY <1>4, <1>5, FS_CardinalityType
<1>7. quorum = (2 * Len(vs)) \div 3 + 1
  BY <1>2 DEF QuorumOf
<1> DEFINE n == Len(vs)
           c == Cardinality(Voters)
           p == Cardinality(P)
<1>8. c <= n /\ c \in Nat /\ n \in Nat /\ p \in Nat
  BY <1>3, <1>4, <1>5, <1>6
<1>9. p >= (2 * n) \div 3 + 1
  BY <1>1, <1>7
<1> HIDE DEF n, c, p
<1>10. 2 * p > c
  BY <1>8, <1>9
<1> QED
  BY <1>5, <1>10 DEF c, p

\* Without commits, only voters have anything before anything else.
LEMMA OnlyVotersBefore ==
  ASSUME TypeOK, Uncommited, NEW h \in TxHashes, NEW g
  PROVE  PeersBefore(h, g) \subseteq Voters
<1> SUFFICES ASSUME NEW id \in PeersBefore(h, g) PROVE id \in Voters
  OBVIOUS
<1> DEFINE l == label[h]
           b == peers[id][l]
           e == elementByHash(b, h)
<1>1. id \in DOMAIN peers /\ Before(b, h, g) /\ l \in Labels
  BY DEF PeersBefore, Labels
<1>2. b \in BucketsOf(VotesOf(id, l), TxHashes)
  BY <1>1 DEF TypeOK, PeersOK, PeerOK, BucketOK
<1>3. h \notin b.commitedHashes
  BY <1>1 DEF Uncommited, CommitedSomewhere
<1>4. e # 0
  BY <1>1, <1>3 DEF Before
<1>5. b.votes \in Seq(VotesOf(id, l)) /\ Len(b.votes) \in Nat
  BY <1>2 DEF BucketsOf
<1>6. e \in 0..Len(b.votes)
  BY <1>5, ElementByHashIs
<1>7. b.votes[e] \in VotesOf(id, l)
  BY <1>4, <1>5, <1>6
<1> QED
  BY <1>7 DEF VotesOf, Voters

\* Updates keep the peers of the voters.
LEMMA VotersAreKept ==
  ASSUME VotersStay, TypeOK, env.inOrder, [Next]_vars
  PROVE  DOMAIN peers \cap Voters \subseteq DOMAIN peers'
<1>1. CASE UpdatePeers
  <2>1. updating.vs \in env.validatorSets /\ DOMAIN peers' = ToSet(updating.vs)
    BY <1>1 DEF UpdatePeers, Idle, TypeOK, GoroutinesOK
  <2> QED
    BY <2>1 DEF VotersStay, TypeOK, Voters
<1>2. CASE \E v \in env.votes : AddVoteToPeer(v)
  BY <1>2 DEF AddVoteToPeer, SetPeer
<1>3. CASE \/ \E block \in env.blocks : CommitBlock(block)
           \/ AddBlockCommit
  BY <1>3 DEF CommitBlock, AddBlockCommit, CommitToPeers
<1> QED
  BY <1>1, <1>2, <1>3, OtherStep DEF Next

\* Nothing that a peer holds as commited is taken back.
LEMMA StepKeepsCommits ==
  ASSUME TypeOK, NEW id, NEW l \in Labels, BucketStep(id, l)
  PROVE  PeerOf(id)[l].commitedHashes \subseteq peers'[id][l].commitedHashes
<1> DEFINE b == PeerOf(id)[l]
           nb == peers'[id][l]
           S == VotesOf(id, l)
<1>1. b \in BucketsOf(S, TxHashes)
  BY PeerOfOK DEF TypeOK, PeerOK, BucketOK
<1>2. ASSUME NEW v \in S, nb = AddVote(b, v).bucket
      PROVE  b.commitedHashes \subseteq nb.commitedHashes
  <2>1. AddVoteDoes(b, AddVote(b, v), v, S, TxHashes)
    BY AddVoteToBucket
  <2> QED
    BY <1>2, <2>1 DEF AddVoteDoes
<1>3. ASSUME NEW hs \in SUBSET TxHashes, nb = UpdateTxSet(b, hs)
      PROVE  b.commitedHashes \subseteq nb.commitedHashes
  BY <1>1, <1>3, UpdateTxSetKeeps
<1> QED
  BY <1>2, <1>3 DEF BucketStep

\* What a voter's peer holds as commited stays so.
LEMMA VotersKeepCommits ==
  ASSUME VotersStay, TypeOK, env.inOrder, [Next]_vars, NEW h \in TxHashes,
         VoterCommited(h)
  PROVE  VoterCommited(h)'
<1>1. PICK id \in DOMAIN peers \cap Voters :
        h \in peers[id][label[h]].commitedHashes
  BY DEF VoterCommited
<1>2. PeersStep /\ id \in DOMAIN peers'
  BY <1>1, StepOfPeers, VotersAreKept
<1>3. /\ label[h] \in Labels /\ label' = label /\ Voters' = Voters
      /\ PeerOf(id) = peers[id]
  BY <1>1, <1>2 DEF Labels, PeersStep, label, Voters, PeerOf
<1>4. BucketStep(id, label[h])
  BY <1>2, <1>3 DEF PeersStep
<1>5. h \in peers'[id][label[h]].commitedHashes
  BY <1>1, <1>3, <1>4, StepKeepsCommits
<1> QED
  BY <1>1, <1>2, <1>3, <1>5 DEF VoterCommited

\* A bucket that is not commited to has the commits it had.
LEMMA OnlyCommitsCommit ==
  ASSUME TypeOK, NEW id, NEW l \in Labels, BucketStep(id, l),
         ~ \E block \in Seq(TxHashes) : CommitToPeers(block)
  PROVE  peers'[id][l].commitedHashes = PeerOf(id)[l].commitedHashes
<1> DEFINE b == PeerOf(id)[l]
           nb == peers'[id][l]
           S == VotesOf(id, l)
<1>1. ASSUME NEW v \in S, nb = AddVote(b, v).bucket
      PROVE  b.commitedHashes = nb.commitedHashes
  <2>1. AddVoteDoes(b, AddVote(b, v), v, S, TxHashes)
    BY AddVoteToBucket
  <2> QED
    BY <1>1, <2>1 DEF AddVoteDoes
<1> QED
  BY <1>1 DEF BucketStep

\* A block is commited to all peers alike.
LEMMA CommitsAreShared ==
  ASSUME TypeOK, VotersOK, NEW block \in Seq(TxHashes), CommitToPeers(block),
         env' = env, NEW h \in TxHashes, CommitedSomewhere(h)'
  PROVE  VoterCommited(h)'
<1> DEFINE l == label[h]
<1>1. /\ DOMAIN peers' = DOMAIN peers
      /\ \A id \in DOMAIN peers :
           peers'[id] = [m \in Labels |->
             UpdateTxSet(peers[id][m], {g \in ToSet(block) : label[g] = m})]
  BY DEF CommitToPeers, UpdatePeerTxSet
<1>2. l \in Labels /\ label' = label /\ Voters' = Voters
  BY DEF Labels, label, Voters
<1>3. ASSUME NEW id \in DOMAIN peers
      PROVE  peers'[id][l].commitedHashes
               = peers[id][l].commitedHashes
                   \cup {g \in ToSet(block) : label[g] = l}
  <2>1. peers'[id][l] =
          UpdateTxSet(peers[id][l], {g \in ToSet(block) : label[g] = l})
    BY <1>1, <1>2, <1>3
  <2>2. peers[id][l] \in BucketsOf(VotesOf(id, l), TxHashes)
    BY <1>2, <1>3 DEF TypeOK, PeersOK, PeerOK, BucketOK
  <2> QED
    BY <2>1, <2>2, UpdateTxSetKeeps
<1>4. PICK id \in DOMAIN peers : h \in peers'[id][l].commitedHashes
  BY <1>1, <1>2 DEF CommitedSomewhere
<1>5. CASE h \in peers[id][l].commitedHashes
  <2>1. CommitedSomewhere(h)
    BY <1>4, <1>5 DEF CommitedSomewhere
  <2>2. PICK p \in DOMAIN peers \cap Voters : h \in peers[p][l].commitedHashes
    BY <2>1 DEF VotersOK, VoterCommited
  <2>3. p \in DOMAIN peers' \cap Voters' /\ h \in peers'[p][l].commitedHashes
    BY <1>1, <1>2, <1>3, <2>2
  <2> QED
    BY <1>2, <2>3 DEF VoterCommited
<1>6. CASE h \in {g \in ToSet(block) : label[g] = l}
  <2>1. PICK p : p \in DOMAIN peers \cap Voters
    BY <1>4 DEF VotersOK
  <2>2. p \in DOMAIN peers' \cap Voters' /\ h \in peers'[p][l].commitedHashes
    BY <1>1, <1>2, <1>3, <1>6, <2>1
  <2> QED
    BY <1>2, <2>2 DEF VoterCommited
<1> QED
  BY <1>3, <1>4, <1>5, <1>6


\* Every step leaves the voters' peers with all commits.
LEMMA VotersNext ==
  ASSUME VotersStay, TypeOK, env.inOrder, VotersOK, [Next]_vars
  PROVE  VotersOK'
<1>1. PeersStep
  BY StepOfPeers
<1>2. /\ env' = env /\ label' = label /\ Voters' = Voters
      /\ \A h \in TxHashes : label[h] \in Labels
  BY <1>1 DEF PeersStep, label, Voters, Labels
<1>3. ASSUME DOMAIN peers' # {}
      PROVE  DOMAIN peers' \cap Voters # {}
  <2>1. CASE DOMAIN peers # {}
    <3>1. DOMAIN peers \cap Voters \subseteq DOMAIN peers'
      BY VotersAreKept
    <3> QED
      BY <2>1, <3>1 DEF VotersOK
  <2>2. CASE DOMAIN peers = {}
    <3>1. CASE UpdatePeers
      <4>1. /\ updating.vs \in env.validatorSets
            /\ DOMAIN peers' = ToSet(updating.vs)
        BY <3>1 DEF UpdatePeers, Idle, TypeOK, GoroutinesOK
      <4>2. Voters # {} /\ Voters \subseteq DOMAIN peers'
        BY <4>1 DEF VotersStay, TypeOK, Voters
      <4> QED
        BY <4>2
    <3>2. ASSUME NEW v \in env.votes, AddVoteToPeer(v)
          PROVE  DOMAIN peers' \cap Voters # {}
      <4>1. v.pubkey \in DOMAIN peers'
        BY <3>2 DEF AddVoteToPeer, SetPeer
      <4> QED
        BY <4>1 DEF Voters
    <3>3. CASE \/ \E block \in env.blocks : CommitBlock(block)
               \/ AddBlockCommit
      BY <1>3, <2>2, <3>3 DEF CommitBlock, AddBlockCommit, CommitToPeers
    <3> QED
      BY <1>3, <2>2, <3>1, <3>2, <3>3, OtherStep DEF Next
  <2> QED
    BY <2>1, <2>2
<1>4. ASSUME NEW h \in TxHashes, CommitedSomewhere(h)'
      PROVE  VoterCommited(h)'
  <2>1. CASE \E block \in Seq(TxHashes) : CommitToPeers(block)
    BY <1>2, <1>4, <2>1, CommitsAreShared
  <2>2. CASE ~ \E block \in Seq(TxHashes) : CommitToPeers(block)
    <3>1. PICK id \in DOMAIN peers' : h \in peers'[id][label[h]].commitedHashes
      BY <1>2, <1>4 DEF CommitedSomewhere
    <3>2. BucketStep(id, label[h])
      BY <1>1, <1>2, <3>1 DEF PeersStep
    <3>3. h \in PeerOf(id)[label[h]].commitedHashes
      BY <1>2, <2>2, <3>1, <3>2, OnlyCommitsCommit
    <3>4. id \in DOMAIN peers /\ h \in peers[id][label[h]].commitedHashes
      BY <1>2, <3>3 DEF PeerOf, newPeer, newPeerBucket
    <3>5. VoterCommited(h)
      BY <3>4 DEF VotersOK, CommitedSomewhere
    <3> QED
      BY <3>5, VotersKeepCommits
  <2> QED
    BY <2>1, <2>2
<1> QED
  BY <1>2, <1>3, <1>4 DEF VotersOK

\* What is not commited was not commited before.
LEMMA UncommitedBefore ==
  ASSUME VotersStay, TypeOK, env.inOrder, VotersOK, [Next]_vars, Uncommited'
  PROVE  Uncommited
<1> SUFFICES ASSUME NEW h \in TxHashes, CommitedSomewhere(h) PROVE FALSE
  BY DEF Uncommited
<1>1. VoterCommited(h)'
  BY VotersKeepCommits DEF VotersOK
<1>2. CommitedSomewhere(h)'
  BY <1>1 DEF VoterCommited, CommitedSomewhere
<1> QED
  BY <1>2 DEF Uncommited

\* The votes of the peers arrive before they are held.
LEMMA ArrivedNext ==
  ASSUME TypeOK, env.inOrder, ArrivedOK, PeersStep
  PROVE  ArrivedOK'
<1> SUFFICES ASSUME NEW id \in DOMAIN peers', NEW l \in Labels,
                    NEW i \in DOMAIN peers'[id][l].votes
             PROVE  peers'[id][l].votes[i] \in arrived'
  <2>1. Labels' = Labels
    BY DEF PeersStep, Labels, label
  <2> QED
    BY <2>1 DEF ArrivedOK
<1> DEFINE b == PeerOf(id)[l]
           nb == peers'[id][l]
           S == VotesOf(id, l)
<1>1. /\ b \in BucketsOf(S, TxHashes)
      /\ BucketStep(id, l)
      /\ arrived \subseteq arrived'
  BY PeerOfOK DEF TypeOK, PeerOK, BucketOK, PeersStep
<1>2. \A j \in DOMAIN b.votes : b.votes[j] \in arrived'
  <2>1. CASE id \in DOMAIN peers
    BY <1>1, <2>1 DEF ArrivedOK, PeerOf
  <2>2. CASE id \notin DOMAIN peers
    BY <2>2 DEF PeerOf, newPeer, newPeerBucket
  <2> QED
    BY <2>1, <2>2
<1>3. ASSUME nb.votes = b.votes PROVE nb.votes[i] \in arrived'
  BY <1>2, <1>3
<1>4. ASSUME NEW v \in S, nb = AddVote(b, v).bucket, v \in arrived'
      PROVE  nb.votes[i] \in arrived'
  <2> DEFINE r == AddVote(b, v)
  <2>1. AddVoteDoes(b, r, v, S, TxHashes)
    BY AddVoteToBucket
  <2>2. CASE Refuses(b, r, v)
    BY <1>3, <1>4, <2>2 DEF Refuses
  <2>3. CASE Puts(b, r, v)
    <3>1. PICK pos : PutBehind(b.votes, nb.votes, v, pos)
      BY <1>4, <2>3 DEF Puts
    <3>2. b.votes \in Seq(S) /\ nb.votes \in Seq(S)
      BY <1>1, <1>4, <2>1 DEF BucketsOf, AddVoteDoes
    <3> HIDE DEF b, nb
    <3>3. nb.votes[i] = v \/ \E j \in DOMAIN b.votes : nb.votes[i] = b.votes[j]
      BY <3>1, <3>2, PutBehindVotes DEF nb
    <3> QED
      BY <1>2, <1>4, <3>3
  <2> QED
    BY <2>1, <2>2, <2>3 DEF AddVoteDoes
<1>5. ASSUME NEW hs \in SUBSET TxHashes, nb = UpdateTxSet(b, hs)
      PROVE  nb.votes[i] \in arrived'
  <2>1. nb.votes = b.votes
    BY <1>1, <1>5, UpdateTxSetKeeps
  <2> QED
    BY <2>1, <1>3
<1> QED
  BY <1>1, <1>3, <1>4, <1>5 DEF BucketStep

\* The quorum changes to that of an update only.
LEMMA QuorumNext ==
  ASSUME TypeOK, QuorumOK, [Next]_vars
  PROVE  QuorumOK'
<1>1. env' = env
  BY StepOfPeers DEF PeersStep
<1>2. CASE UpdateQuorum
  <2>1. /\ updating.vs \in env.validatorSets
        /\ quorum' = QuorumOf(Len(updating.vs))
    BY <1>2 DEF UpdateQuorum, Idle, TypeOK, GoroutinesOK
  <2> QED
    BY <1>1, <2>1 DEF QuorumOK
<1>3. CASE ~UpdateQuorum
  <2>1. quorum' = quorum
    BY <1>3 DEF Next, UpdateValidators, UpdatePeers, AddTx, AddVoteToPeer,
                CommitBlock, AddBlockRemove, AddBlockCommit, NewBlockStart,
                NewBlockCell, NewBlockPanic, NewBlockReturn, updateVars, vars
  <2> QED
    BY <1>1, <2>1 DEF QuorumOK
<1> QED
  BY <1>2, <1>3

\* While a voter's votes arrive in order, what its peer has before another
\* transaction stays so.
LEMMA StepKeepsBefore ==
  ASSUME TypeOK, env.inOrder, ArrivedOK, NEW id \in DOMAIN peers,
         NEW l \in Labels, BucketStep(id, l), NEW h, NEW g,
         Before(peers[id][l], h, g), g \notin peers'[id][l].commitedHashes
  PROVE  Before(peers'[id][l], h, g)
<1> DEFINE b == peers[id][l]
           nb == peers'[id][l]
           S == VotesOf(id, l)
<1>1. PeerOf(id)[l] = b /\ b \in BucketsOf(S, TxHashes) /\ Numbered(S)
  BY VotesAreNumbered DEF PeerOf, TypeOK, PeersOK, PeerOK, BucketOK
<1>2. CASE nb = b
  BY <1>2
<1>3. ASSUME NEW v \in S, nb = AddVote(b, v).bucket, Arrives(v)
      PROVE  Before(nb, h, g)
  <2>1. AddVoteDoes(b, AddVote(b, v), v, S, TxHashes)
    BY <1>1, AddVoteToBucket
  <2>2. ASSUME NEW i \in DOMAIN b.votes PROVE b.votes[i].seq < v.seq
    <3>1. b.votes[i] \in S /\ b.votes[i] \in arrived
      BY <1>1 DEF BucketsOf, ArrivedOK
    <3> QED
      BY <1>3, <3>1 DEF Arrives, VotesOf
  <2> HIDE DEF b, nb, S
  <2> QED
    BY <1>1, <1>3, <2>1, <2>2, AddVoteKeepsBefore DEF b
<1>4. ASSUME NEW hs \in SUBSET TxHashes, nb = UpdateTxSet(b, hs)
      PROVE  Before(nb, h, g)
  <2>1. g \notin hs
    BY <1>1, <1>4, UpdateTxSetKeeps
  <2> QED
    BY <1>1, <1>4, <2>1, UpdateTxSetKeeps
<1> QED
  BY <1>1, <1>2, <1>3, <1>4 DEF BucketStep

\* So the majority that has it before stays one.
LEMMA MostStayBefore ==
  ASSUME VotersStay, TypeOK, env.inOrder, ArrivedOK, VotersOK, [Next]_vars,
         Uncommited', NEW h, NEW g, MostBefore(h, g)
  PROVE  MostBefore(h, g)'
<1> DEFINE l == label[h]
           P == PeersBefore(h, g)
           Q == {id \in DOMAIN peers' : Before(peers'[id][l], h, g)}
<1>1. PeersStep /\ Uncommited
  BY StepOfPeers, UncommitedBefore
<1>2. /\ label' = label /\ Voters' = Voters
      /\ h \in TxHashes /\ g \in TxHashes /\ l = label[g] /\ l \in Labels
      /\ IsFiniteSet(Voters)
      /\ 2 * Cardinality(P) > Cardinality(Voters)
  BY <1>1 DEF PeersStep, label, Voters, Labels, MostBefore
<1>3. PeersBefore(h, g)' = Q
  BY <1>2 DEF PeersBefore
<1>4. P \subseteq DOMAIN peers \cap Voters
  BY <1>1, <1>2, OnlyVotersBefore DEF PeersBefore
<1>5. ASSUME NEW id \in P PROVE id \in Q
  <2>1. /\ id \in DOMAIN peers /\ id \in DOMAIN peers'
        /\ Before(peers[id][l], h, g)
    BY <1>4, VotersAreKept DEF PeersBefore
  <2>2. BucketStep(id, l)
    BY <1>1, <1>2, <2>1 DEF PeersStep
  <2>3. g \notin peers'[id][l].commitedHashes
    BY <1>2, <2>1 DEF Uncommited, CommitedSomewhere
  <2>4. Before(peers'[id][l], h, g)
    BY <1>2, <2>1, <2>2, <2>3, StepKeepsBefore
  <2> QED
    BY <2>1, <2>4
<1>6. IsFiniteSet(Q) /\ P \subseteq Q
  BY <1>1, <1>5, FS_Subset DEF PeersStep
<1> HIDE DEF P, Q
<1>7. /\ Cardinality(P) <= Cardinality(Q) /\ Cardinality(P) \in Nat
      /\ Cardinality(Q) \in Nat /\ Cardinality(Voters) \in Nat
  BY <1>2, <1>6, FS_Subset, FS_CardinalityType
<1>8. 2 * Cardinality(Q) > Cardinality(Voters)
  BY <1>2, <1>7
<1>9. \A X, Y : X = Y => Cardinality(X) = Cardinality(Y)
  OBVIOUS
<1> QED
  BY <1>2, <1>3, <1>8 DEF MostBefore

\* A cell that is filled says what a quorum of the peers has.
LEMMA CellIsRight ==
  ASSUME VotersStay, TypeOK, TxsOK(txs), env.inOrder, BlockInv,
         NewBlockCell(FALSE), NEW h \in TxHashes, NEW g \in TxHashes,
         h = NextCell[1], g = NextCell[2]
  PROVE  MostBefore(h, g)
<1> DEFINE P == PeersBefore(h, g)
<1>1. /\ ~WouldPanic(h, g)
      /\ hasQuorum(P)
  BY DEF NewBlockCell, IsBlockedBy
<1>2. P \subseteq DOMAIN peers /\ IsFiniteSet(DOMAIN peers)
  BY DEF PeersBefore, TypeOK, PeersOK
<1>3. IsFiniteSet(P)
  BY <1>2, FS_Subset
<1> HIDE DEF P
<1>4. IsFiniteSet(Voters) /\ 2 * Cardinality(P) > Cardinality(Voters)
  BY <1>1, <1>3, QuorumIsMost DEF BlockInv
<1>5. P # {}
  <2> SUFFICES ASSUME P = {} PROVE FALSE
    OBVIOUS
  <2>1. Cardinality(P) = 0
    BY FS_EmptySet
  <2> QED
    BY <1>1, <2>1 DEF hasQuorum, TypeOK
<1>6. label[h] = label[g]
  BY <1>1, <1>2, <1>5 DEF WouldPanic
<1> QED
  BY <1>4, <1>6 DEF MostBefore, P

\* NewBlockWithOptions appends one cell to the matrix.
LEMMA CellNext ==
  ASSUME VotersStay, TypeOK, TxsOK(txs), env.inOrder, BlockInv,
         NEW blocked \in BOOLEAN, NewBlockCell(blocked)
  PROVE  MatrixOK'
<1> DEFINE old == making.cells
           new == making'.cells
           n == Len(txs.list)
<1>1. /\ MatrixOK /\ making.pc = "matrix" /\ Len(old) < n * n
      /\ making' = [making EXCEPT !.cells = Append(old, blocked)]
      /\ txs' = txs /\ peers' = peers /\ env' = env
  BY DEF BlockInv, NewBlockCell, MatrixIncomplete
<1>2. /\ making = [pc |-> "matrix", opts |-> making.opts, cells |-> old]
      /\ old \in Seq(BOOLEAN)
  BY <1>1 DEF MatrixOK
<1>3. /\ making' = [pc |-> "matrix", opts |-> making'.opts, cells |-> new]
      /\ new = Append(old, blocked)
  BY <1>1, <1>2
<1>4. new \in Seq(BOOLEAN) /\ Len(new) = Len(old) + 1 /\ Len(old) \in Nat
      /\ (\A k \in 1..Len(old) : new[k] = old[k])
      /\ new[Len(old) + 1] = blocked
  BY <1>2, <1>3
<1>5. /\ Uncommited' <=> Uncommited
      /\ \A h, g : MostBefore(h, g)' <=> MostBefore(h, g)
  <2>1. label' = label /\ Voters' = Voters
    BY <1>1 DEF label, Voters
  <2>2. \A h, g : PeersBefore(h, g)' = PeersBefore(h, g)
    BY <1>1, <2>1 DEF PeersBefore
  <2> QED
    BY <1>1, <2>1, <2>2 DEF Uncommited, CommitedSomewhere, MostBefore
<1> HIDE DEF old, new
<1>6. ASSUME Uncommited, NEW k \in 1..Len(new), NEW h \in TxHashes,
             NEW g \in TxHashes, ~new[k],
             h = txs.list[((k - 1) \div n) + 1],
             g = txs.list[((k - 1) % n) + 1]
      PROVE  MostBefore(h, g)
  <2>1. CASE k \in 1..Len(old)
    <3>1. ~old[k]
      BY <1>4, <1>6, <2>1
    <3> QED
      BY <1>1, <1>6, <2>1, <3>1 DEF MatrixOK, CellsOK, old
  <2>2. CASE k = Len(old) + 1
    <3>1. blocked = FALSE /\ k - 1 = Len(old)
      BY <1>4, <1>6, <2>2
    <3>2. h = NextCell[1] /\ g = NextCell[2]
      BY <1>6, <3>1 DEF NextCell, old
    <3> QED
      BY <3>1, <3>2, CellIsRight
  <2> QED
    BY <1>4, <2>1, <2>2
<1>7. Uncommited => CellsOK'
  BY <1>1, <1>5, <1>6 DEF CellsOK, new
<1> QED
  BY <1>3, <1>4, <1>5, <1>7 DEF MatrixOK, new

\* While the transactions are read, votes and commits leave the matrix right.
LEMMA CellsStay ==
  ASSUME VotersStay, TypeOK, env.inOrder, BlockInv, [Next]_vars,
         making.pc = "matrix", making' = making, txs' = txs
  PROVE  MatrixOK'
<1>1. MatrixOK /\ ArrivedOK /\ VotersOK
  BY DEF BlockInv
<1>2. ASSUME Uncommited' PROVE CellsOK'
  <2>1. CellsOK
    BY <1>1, <1>2, UncommitedBefore DEF MatrixOK
  <2>2. \A h, g : MostBefore(h, g) => MostBefore(h, g)'
    BY <1>1, <1>2, MostStayBefore
  <2> QED
    BY <2>1, <2>2 DEF CellsOK
<1> QED
  BY <1>1, <1>2 DEF MatrixOK

\* Every step leaves it right, for nobody changes the transactions meanwhile.
LEMMA MatrixNext ==
  ASSUME VotersStay, TypeOK, TxsOK(txs), env.inOrder, BlockInv, [Next]_vars,
         making'.pc = "matrix"
  PROVE  MatrixOK'
<1>1. ASSUME NEW opts, NewBlockStart(opts) PROVE MatrixOK'
  <2>1. /\ making' = [pc |-> "matrix", opts |-> opts, cells |-> << >>]
        /\ making'.opts = opts /\ making'.cells = << >>
    BY <1>1 DEF NewBlockStart
  <2> QED
    BY <2>1 DEF MatrixOK, CellsOK
<1>2. CASE \E blocked \in BOOLEAN : NewBlockCell(blocked)
  BY <1>2, CellNext
<1>3. CASE NewBlockPanic \/ NewBlockReturn
  BY <1>3 DEF NewBlockPanic, NewBlockReturn, Idle
<1>4. CASE \/ \E h \in TxHashes : AddTx(h)
           \/ \E block \in env.blocks : AddBlockRemove(block)
  <2>1. making' = making /\ making.pc # "matrix"
    BY <1>4 DEF AddTx, AddBlockRemove, TxsUnlocked
  <2> QED
    BY <2>1
<1>5. CASE \/ \E vs \in env.validatorSets : UpdateValidators(vs)
           \/ UpdateQuorum
           \/ UpdatePeers
           \/ \E v \in env.votes : AddVoteToPeer(v)
           \/ \E block \in env.blocks : CommitBlock(block)
           \/ AddBlockCommit
           \/ UNCHANGED vars
  <2>1. making' = making /\ txs' = txs
    BY <1>5 DEF UpdateValidators, UpdateQuorum, UpdatePeers, AddVoteToPeer,
                CommitBlock, AddBlockCommit, vars
  <2> QED
    BY <2>1, CellsStay
<1> QED
  BY <1>1, <1>2, <1>3, <1>4, <1>5 DEF Next

\* So every step keeps the invariant.
LEMMA BlockNextStep ==
  ASSUME VotersStay, TypeOK, TxsOK(txs), env.inOrder, BlockInv, [Next]_vars
  PROVE  BlockInv'
<1>1. QuorumOK' /\ ArrivedOK' /\ VotersOK'
  BY StepOfPeers, QuorumNext, ArrivedNext, VotersNext DEF BlockInv
<1> QED
  BY <1>1, MatrixNext DEF BlockInv

\* Two transactions do not both have a majority of the voters.
LEMMA NotBothBefore ==
  ASSUME TypeOK, Uncommited, NEW h, NEW g, MostBefore(h, g), MostBefore(g, h)
  PROVE  FALSE
<1> DEFINE l == label[h]
           P == PeersBefore(h, g)
           Q == PeersBefore(g, h)
<1>1. /\ h \in TxHashes /\ g \in TxHashes /\ l = label[g] /\ l \in Labels
      /\ IsFiniteSet(Voters)
      /\ 2 * Cardinality(P) > Cardinality(Voters)
      /\ 2 * Cardinality(Q) > Cardinality(Voters)
  BY DEF MostBefore, Labels
<1>2. P \in SUBSET Voters /\ Q \in SUBSET Voters
  BY <1>1, OnlyVotersBefore
<1> HIDE DEF P, Q
<1>3. /\ Cardinality(P) \in Nat /\ Cardinality(Q) \in Nat
      /\ Cardinality(Voters) \in Nat
  BY <1>1, <1>2, FS_Subset, FS_CardinalityType
<1>4. Cardinality(P) + Cardinality(Q) > Cardinality(Voters)
  BY <1>1, <1>3
<1>5. PICK id \in P : id \in Q
  BY <1>1, <1>2, <1>4, FS_MajoritiesIntersect
<1>6. /\ id \in DOMAIN peers
      /\ Before(peers[id][l], h, g) /\ Before(peers[id][l], g, h)
  BY <1>1, <1>5 DEF P, Q, PeersBefore
<1>7. /\ peers[id][l] \in BucketsOf(VotesOf(id, l), TxHashes)
      /\ Numbered(VotesOf(id, l))
  BY <1>1, <1>6, VotesAreNumbered DEF TypeOK, PeersOK, PeerOK, BucketOK
<1>8. h \in peers[id][l].commitedHashes
  BY <1>6, <1>7, BeforeIsAsymmetric
<1> QED
  BY <1>1, <1>6, <1>8 DEF Uncommited, CommitedSomewhere

\* The block that is made from a matrix that is right and full.
LEMMA ReturnedBlock ==
  ASSUME TypeOK, TxsOK(txs), MatrixOK, Uncommited, NewBlockReturn,
         making.opts = NoOptions
  PROVE  making'.block = txs.list
<1> DEFINE s == txs.list
           n == Len(s)
           cells == making.cells
           matrix == [i \in 1..n |-> [j \in 1..n |-> cells[(i-1)*n + j]]]
<1>1. /\ Len(cells) = n * n
      /\ making'.block = NewBlock(matrix, s, NoOptions, Size)
  BY DEF NewBlockReturn
<1>2. s \in Seq(TxHashes) /\ n \in Nat /\ CellsOK /\ cells \in Seq(BOOLEAN)
  BY DEF TxsOK, MatrixOK
<1>3. IsInjective(s)
  BY <1>2, ListHasNoRepeats DEF IsInjective
<1>4. Len(matrix) = n
  BY <1>2
<1>5. ASSUME NEW i \in 1..n, NEW j \in 1..n, ~matrix[i][j]
      PROVE  MostBefore(s[i], s[j])
  <2> DEFINE k == (i - 1) * n + j
  <2>1. /\ k \in 1..Len(cells) /\ (k - 1) \div n = i - 1
        /\ (k - 1) % n = j - 1
    BY <1>1, <1>2, CellOfPlace
  <2>2. ~cells[k]
    BY <1>5
  <2>3. (i - 1) + 1 = i /\ (j - 1) + 1 = j
    OBVIOUS
  <2>4. s[i] \in TxHashes /\ s[j] \in TxHashes
    BY <1>2
  <2> HIDE DEF k
  <2>5. s[i] = s[((k - 1) \div n) + 1] /\ s[j] = s[((k - 1) % n) + 1]
    BY <2>1, <2>3
  <2> QED
    BY <1>2, <2>1, <2>2, <2>4, <2>5 DEF CellsOK
<1>6. ASSUME NEW i \in 1..n, NEW j \in 1..n, ~matrix[i][j], ~matrix[j][i]
      PROVE  FALSE
  BY <1>5, <1>6, NotBothBefore
<1>7. \A i, j \in 1..n : i # j => matrix[i][j] \/ matrix[j][i]
  BY <1>6
<1> HIDE DEF matrix
<1>8. NewBlock(matrix, s, NoOptions, Size) = s
  BY <1>2, <1>3, <1>4, <1>7, NewBlockIsWhole
<1> QED
  BY <1>1, <1>8

\* While every voter stays a validator and its votes arrive in order, a block
\* without limits holds all the pending transactions, however many votes arrive
\* and validators come and go while its matrix is read cell by cell.
THEOREM BlocksLeaveNothingOut ==
  ASSUME VotersStay
  PROVE  Spec => BlockLeavesNothingOut
<1> DEFINE Inv == TypeOK /\ TxsOK(txs) /\ (env.inOrder => BlockInv)
<1>1. Init => Inv
  <2> SUFFICES ASSUME Init PROVE TxsOK(txs) /\ BlockInv
    BY TypeInit
  <2>1. TxsOK(txs)
    BY DEF Init, NewTxs, TxsOK, IndexMatchesList, ToSet
  <2>2. BlockInv
    BY DEF Init, Idle, BlockInv, QuorumOK, ArrivedOK, VotersOK,
           CommitedSomewhere
  <2> QED
    BY <2>1, <2>2
<1>2. Inv /\ [Next]_vars => Inv'
  <2> SUFFICES ASSUME Inv, [Next]_vars PROVE Inv'
    OBVIOUS
  <2>1. TypeOK' /\ PeersStep
    BY TypeNext, StepOfPeers
  <2>2. TxsOK(txs)'
    BY TxsNext DEF TxsOK
  <2>3. env' = env
    BY <2>1 DEF PeersStep
  <2>4. env.inOrder => BlockInv'
    BY BlockNextStep
  <2> QED
    BY <2>1, <2>2, <2>3, <2>4
<1>3. Inv /\ [Next]_vars
      => [/\ env.inOrder
          /\ making.pc = "matrix" /\ making'.pc = "made"
          /\ making.opts = NoOptions
          /\ \A h \in TxHashes : ~CommitedSomewhere(h)
          => making'.block = txs.list]_vars
  <2> SUFFICES ASSUME Inv, [Next]_vars, env.inOrder, making.pc = "matrix",
                      making'.pc = "made", making.opts = NoOptions, Uncommited
               PROVE  making'.block = txs.list
    BY DEF Uncommited
  <2>1. making' # making
    OBVIOUS
  <2>2. CASE NewBlockReturn
    BY <2>2, ReturnedBlock DEF BlockInv
  <2>3. CASE ~NewBlockReturn
    <3>1. CASE \E blocked \in BOOLEAN : NewBlockCell(blocked)
      <4>1. making = [pc |-> "matrix", opts |-> making.opts,
                      cells |-> making.cells]
        BY DEF BlockInv, MatrixOK
      <4> QED
        BY <3>1, <4>1 DEF NewBlockCell
    <3>2. CASE NewBlockPanic \/ \E opts \in env.options : NewBlockStart(opts)
      BY <3>2 DEF NewBlockPanic, NewBlockStart, Idle
    <3> QED
      BY <2>1, <2>3, <3>1, <3>2
      DEF Next, UpdateValidators, UpdateQuorum, UpdatePeers, AddTx,
          AddVoteToPeer, CommitBlock, AddBlockRemove, AddBlockCommit, vars
  <2> QED
    BY <2>2, <2>3
<1> HIDE DEF Inv
<1> QED
  BY <1>1, <1>2, <1>3, PTL DEF Spec, BlockLeavesNothingOut
=============================================================================
