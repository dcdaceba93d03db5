-------------------------- MODULE PeerVotingProofs --------------------------
(***************************************************************************)
(* For every voter, every order of arrival and every number of duplicates, *)
(* a peer is well-typed, its lastSeqSeen covers no gap, and its list       *)
(* implements a log of votes.  Votes of an honest voter are never refused, *)
(* Before orders them by number, what is seen or before stays so, and      *)
(* lastSeqSeen is exact if the first vote was the first to arrive.         *)
(***************************************************************************)
EXTENDS PeerVoting, Lemmas

\* The votes of every voter are numbered.
LEMMA VotersAreNumbered ==
  ASSUME NEW w \in Voters
  PROVE  Numbered(w.votes) /\ \A v \in w.votes : v.seq >= w.firstSeq
  BY VotersAssumption DEF Numbered

Buckets(w) == BucketsOf(w.votes, TxHashes)

-----------------------------------------------------------------------------
(* AddVote and AddVotes                                                    *)

\* All elements of the list `old' are in the list `new'.
Keeps(old, new) ==
  \A i \in DOMAIN old : \E j \in DOMAIN new : new[j] = old[i]

\* Then so are their sequence numbers.
LEMMA KeepsSeqs ==
  ASSUME NEW old, NEW new, Keeps(old, new)
  PROVE  SeqsIn(old) \subseteq SeqsIn(new) /\ ToSet(old) \subseteq ToSet(new)
  BY DEF Keeps, SeqsIn, ToSet

\* Keeping the elements is reflexive and transitive.
LEMMA KeepsItself ==
  ASSUME NEW votes PROVE Keeps(votes, votes)
  BY DEF Keeps

\* What is kept by two steps is kept by both.
LEMMA KeepsChain ==
  ASSUME NEW s, NEW t, NEW u, Keeps(s, t), Keeps(t, u)
  PROVE  Keeps(s, u)
<1> SUFFICES ASSUME NEW i \in DOMAIN s
             PROVE  \E j \in DOMAIN u : u[j] = s[i]
  BY DEF Keeps
<1>1. PICK k \in DOMAIN t : t[k] = s[i]
  BY DEF Keeps
<1>2. PICK j \in DOMAIN u : u[j] = t[k]
  BY DEF Keeps
<1> QED
  BY <1>1, <1>2

\* While the list is empty or starts with the first vote, it is in order and
\* lastSeqSeen is exact.
ExactFrom(b, first) == HeadIs(b.votes, first) => Exact(b)

\* A bucket that voter w may have: its votes, and no gap below lastSeqSeen.
GoodBucket(b, w) == b \in Buckets(w) /\ NoGaps(b)

\* What a call makes of bucket b: a good one with all the votes and commits of
\* b, in which nothing that was seen is unseen and lastSeqSeen is not lower;
\* and no error, and exactness as before, if the voter is honest.
Good(b, r, w) ==
  /\ GoodBucket(r.bucket, w)
  /\ r.added \in BOOLEAN /\ r.err \in BOOLEAN
  /\ Keeps(b.votes, r.bucket.votes)
  /\ r.bucket.lastSeqSeen >= b.lastSeqSeen
  /\ r.bucket.commitedHashes = b.commitedHashes
  /\ \A h : Seen(b, h) => Seen(r.bucket, h)
  /\ HonestVotes(w.votes) =>
       /\ ~r.err
       /\ ExactFrom(b, w.firstSeq) => ExactFrom(r.bucket, w.firstSeq)

\* Any call of AddVote makes a good bucket of a good one.
LEMMA AddVoteGood ==
  ASSUME NEW w \in Voters, NEW b, GoodBucket(b, w), NEW v \in w.votes
  PROVE  Good(b, AddVote(b, v), w)
<1> DEFINE S == w.votes
           r == AddVote(b, v)
<1>1. Numbered(S) /\ b \in BucketsOf(S, TxHashes) /\ v.seq >= w.firstSeq
  BY VotersAreNumbered DEF GoodBucket, Buckets
<1>2. AddVoteDoes(b, r, v, S, TxHashes)
  BY <1>1, AddVoteIs
<1> HIDE DEF r
<1>3. NoGaps(r.bucket)
  BY <1>1, <1>2, AddVoteLeavesNoGaps DEF GoodBucket
<1>4. Keeps(b.votes, r.bucket.votes)
  <2>1. CASE Refuses(b, r, v)
    BY <2>1, KeepsItself DEF Refuses
  <2>2. CASE Puts(b, r, v)
    <3>1. PICK pos : PutBehind(b.votes, r.bucket.votes, v, pos)
      BY <2>2 DEF Puts
    <3>2. b.votes \in Seq(S) /\ r.bucket.votes \in Seq(S)
      BY <1>1, <1>2 DEF AddVoteDoes, BucketsOf
    <3> QED
      BY <3>1, <3>2, PutBehindVotes DEF Keeps
  <2> QED
    BY <2>1, <2>2, <1>2 DEF AddVoteDoes
<1>5. ASSUME NEW h, Seen(b, h) PROVE Seen(r.bucket, h)
  BY <1>1, <1>2, <1>5, AddVoteKeepsSeen
<1>6. ASSUME HonestVotes(S) PROVE ~r.err
  BY <1>1, <1>2, <1>6, HonestVoteIsNotRefused
<1>7. ASSUME HonestVotes(S), ExactFrom(b, w.firstSeq)
      PROVE  ExactFrom(r.bucket, w.firstSeq)
  <2> SUFFICES ASSUME HeadIs(r.bucket.votes, w.firstSeq)
               PROVE  Exact(r.bucket)
    BY DEF ExactFrom
  <2>1. ~r.err /\ (HeadIs(b.votes, w.firstSeq) => Exact(b))
    BY <1>6, <1>7 DEF ExactFrom
  <2> QED
    BY <1>1, <1>2, <2>1, AddVoteKeepsExact
<1> QED
  BY <1>2, <1>3, <1>4, <1>5, <1>6, <1>7
     DEF AddVoteDoes, Good, GoodBucket, Buckets, r

\* Two calls in a row do what one call may do.
LEMMA GoodChain ==
  ASSUME NEW w, NEW b, b \in Buckets(w), NEW r, NEW t, Good(b, r, w),
         Good(r.bucket, t, w)
  PROVE  Good(b, t, w)
<1>1. Keeps(b.votes, t.bucket.votes)
  BY KeepsChain DEF Good
<1>2. t.bucket.lastSeqSeen >= b.lastSeqSeen
  <2>1. /\ b.lastSeqSeen \in Nat /\ r.bucket.lastSeqSeen \in Nat
        /\ t.bucket.lastSeqSeen \in Nat
    BY DEF Good, GoodBucket, Buckets, BucketsOf
  <2> QED
    BY <2>1 DEF Good
<1>3. \A h : Seen(b, h) => Seen(t.bucket, h)
  BY DEF Good
<1>4. HonestVotes(w.votes) /\ ExactFrom(b, w.firstSeq) =>
        ExactFrom(t.bucket, w.firstSeq)
  BY DEF Good
<1> QED
  BY <1>1, <1>2, <1>3, <1>4 DEF Good

\* A batch of two votes: the second is added unless the first one failed.
LEMMA AddVotesGood ==
  ASSUME NEW u \in Voters, NEW b, GoodBucket(b, u), NEW v \in u.votes,
         NEW w \in u.votes
  PROVE  Good(b, AddVotes(b, <<v, w>>), u)
<1> DEFINE vs == <<v, w>>
           step(r, i) == IF i = 0 THEN Result(b, TRUE, FALSE)
                         ELSE IF r[i-1].err THEN r[i-1]
                         ELSE AddVote(r[i-1].bucket, vs[i])
           after == CHOOSE r : r = [i \in 0..Len(vs) |-> step(r, i)]
           r0 == Result(b, TRUE, FALSE)
           r1 == AddVote(b, v)
           r2 == IF r1.err THEN r1 ELSE AddVote(r1.bucket, w)
           g == [i \in 0..2 |-> IF i = 0 THEN r0 ELSE IF i = 1 THEN r1 ELSE r2]
<1>1. AddVotes(b, vs) = after[2]
  BY DEF AddVotes
<1>2. r0.bucket = b /\ r0.err = FALSE
  BY DEF Result
<1>3. /\ g[0] = r0 /\ g[1] = r1 /\ g[2] = r2
      /\ vs[1] = v /\ vs[2] = w /\ Len(vs) = 2
  OBVIOUS
<1> HIDE DEF r0, r1, r2, vs
<1>4. ASSUME NEW i \in 0..2 PROVE g[i] = step(g, i)
  <2>1. CASE i = 0
    BY <2>1, <1>3 DEF r0
  <2>2. CASE i = 1
    BY <2>2, <1>2, <1>3 DEF r1
  <2>3. CASE i = 2
    BY <2>3, <1>3 DEF r2
  <2>4. i = 0 \/ i = 1 \/ i = 2
    OBVIOUS
  <2> HIDE DEF g, step
  <2> QED
    BY <2>1, <2>2, <2>3, <2>4
<1>5. g = [i \in 0..Len(vs) |-> step(g, i)]
  BY <1>3, <1>4
<1>6. after = [i \in 0..Len(vs) |-> step(after, i)]
  BY <1>5
<1> HIDE DEF after
<1>7. \A i \in 0..2 : after[i] = step(after, i)
  BY <1>3, <1>6
<1>8. after[0] = r0
  <2>1. 0 \in 0..2
    OBVIOUS
  <2>2. after[0] = step(after, 0)
    BY <2>1, <1>7, Zenon
  <2> QED
    BY <2>2 DEF r0
<1>9. after[1] = r1
  <2>1. after[1] = IF after[0].err THEN after[0]
                   ELSE AddVote(after[0].bucket, vs[1])
    BY <1>7
  <2> QED
    BY <2>1, <1>8, <1>2, <1>3 DEF r1
<1>10. after[2] = r2
  <2>1. after[2] = IF after[1].err THEN after[1]
                   ELSE AddVote(after[1].bucket, vs[2])
    BY <1>7
  <2> QED
    BY <2>1, <1>9, <1>3 DEF r2
<1>11. Good(b, r1, u)
  BY AddVoteGood DEF r1
<1>12. Good(b, r2, u)
  <2>1. CASE r1.err
    BY <2>1, <1>11 DEF r2
  <2>2. CASE ~r1.err
    <3>1. Good(r1.bucket, r2, u)
      BY <2>2, <1>11, AddVoteGood DEF r2, Good
    <3> QED
      BY <1>11, <3>1, GoodChain DEF GoodBucket
  <2> QED
    BY <2>1, <2>2
<1> QED
  BY <1>1, <1>10, <1>12 DEF vs

\* Before of an honest voter's transactions compares their numbers.
LEMMA HonestBefore ==
  ASSUME NEW S, NEW H, HonestVotes(S), NEW b \in BucketsOf(S, H),
         NEW i \in DOMAIN b.votes, NEW j \in DOMAIN b.votes
  PROVE  LET h == b.votes[i].txHash
             g == b.votes[j].txHash
         IN  {h, g} \cap b.commitedHashes = {} =>
               (Before(b, h, g) <=> b.votes[i].seq < b.votes[j].seq)
<1> DEFINE e == elementByHash(b, b.votes[i].txHash)
           d == elementByHash(b, b.votes[j].txHash)
<1>1. e # 0 /\ b.votes[e] = b.votes[i]
  BY HonestVoteIsFound
<1>2. d # 0 /\ b.votes[d] = b.votes[j]
  BY HonestVoteIsFound
<1> QED
  BY <1>1, <1>2 DEF Before

\* What is before a transaction with a vote stays so while the list grows.
LEMMA HonestBeforeStays ==
  ASSUME NEW S, NEW H, HonestVotes(S), NEW b \in BucketsOf(S, H),
         NEW nb \in BucketsOf(S, H), Keeps(b.votes, nb.votes),
         nb.commitedHashes = b.commitedHashes,
         NEW j \in DOMAIN b.votes, NEW h, Before(b, h, b.votes[j].txHash)
  PROVE  Before(nb, h, b.votes[j].txHash)
<1> DEFINE g == b.votes[j].txHash
           e == elementByHash(b, h)
           d == elementByHash(b, g)
           f == elementByHash(nb, h)
           c == elementByHash(nb, g)
<1>1. CASE h \in b.commitedHashes
  BY <1>1 DEF Before
<1>2. CASE h \notin b.commitedHashes
  <2>1. /\ e # 0 /\ g \notin b.commitedHashes
        /\ d # 0 => b.votes[e].seq < b.votes[d].seq
    BY <1>2 DEF Before
  <2>2. b.votes \in Seq(S) /\ Len(b.votes) \in Nat
    BY DEF BucketsOf
  <2>3. e \in DOMAIN b.votes /\ b.votes[e].txHash = h
    BY <2>1, <2>2, ElementByHashIs
  <2>4. d # 0 /\ b.votes[d] = b.votes[j]
    BY HonestVoteIsFound
  <2>5. PICK k \in DOMAIN nb.votes : nb.votes[k] = b.votes[e]
    BY <2>3 DEF Keeps
  <2>6. PICK l \in DOMAIN nb.votes : nb.votes[l] = b.votes[j]
    BY DEF Keeps
  <2>7. f # 0 /\ nb.votes[f] = b.votes[e]
    <3>1. nb.votes[k].txHash = h
      BY <2>3, <2>5
    <3> QED
      BY <2>5, <3>1, HonestVoteIsFound
  <2>8. c # 0 /\ nb.votes[c] = b.votes[j]
    <3>1. nb.votes[l].txHash = g
      BY <2>6
    <3> QED
      BY <2>6, <3>1, HonestVoteIsFound
  <2> QED
    BY <2>1, <2>4, <2>7, <2>8 DEF Before
<1> QED
  BY <1>1, <1>2

\* What is seen stays before a transaction without a vote: all votes up to the
\* last one that is seen are in the list, so that a new one has a higher number.
LEMMA HonestSeenBeforeStays ==
  ASSUME NEW S, NEW H, HonestVotes(S), Numbered(S), NEW b \in BucketsOf(S, H),
         NEW nb \in BucketsOf(S, H), Keeps(b.votes, nb.votes),
         nb.commitedHashes = b.commitedHashes, NoGaps(b),
         \A v \in S : v.seq = 0 => 0 \in SeqsIn(b.votes),
         NEW h, NEW g, Seen(b, h), Before(b, h, g),
         \A i \in DOMAIN b.votes : b.votes[i].txHash # g
  PROVE  Before(nb, h, g)
<1> DEFINE e == elementByHash(b, h)
           f == elementByHash(nb, h)
           c == elementByHash(nb, g)
<1>1. CASE h \in b.commitedHashes
  BY <1>1 DEF Before
<1>2. CASE h \notin b.commitedHashes
  <2>1. /\ e # 0 /\ g \notin b.commitedHashes
        /\ b.votes[e].seq <= b.lastSeqSeen
    BY <1>2 DEF Before, Seen
  <2>2. /\ b.votes \in Seq(S) /\ Len(b.votes) \in Nat /\ b.lastSeqSeen \in Nat
        /\ nb.votes \in Seq(S) /\ Len(nb.votes) \in Nat
    BY DEF BucketsOf
  <2>3. e \in DOMAIN b.votes /\ b.votes[e].txHash = h
    BY <2>1, <2>2, ElementByHashIs
  <2>4. PICK k \in DOMAIN nb.votes : nb.votes[k] = b.votes[e]
    BY <2>3 DEF Keeps
  <2>5. f # 0 /\ nb.votes[f] = b.votes[e]
    <3>1. nb.votes[k].txHash = h
      BY <2>3, <2>4
    <3> QED
      BY <2>4, <3>1, HonestVoteIsFound
  <2>6. ASSUME c # 0 PROVE b.votes[e].seq < nb.votes[c].seq
    <3> DEFINE w == nb.votes[c]
    <3>1. c \in DOMAIN nb.votes /\ w.txHash = g
      BY <2>2, <2>6, ElementByHashIs
    <3>2. w \in S /\ b.votes[e] \in S
      BY <2>2, <2>3, <3>1
    <3>3. w.seq \in Nat /\ b.votes[e].seq \in Nat
      BY <3>2 DEF Numbered
    <3> HIDE DEF w
    <3>4. w.seq \notin SeqsIn(b.votes)
      <4> SUFFICES ASSUME NEW i \in DOMAIN b.votes, b.votes[i].seq = w.seq
                   PROVE  FALSE
        BY DEF SeqsIn
      <4>1. b.votes[i] \in S
        BY <2>2
      <4>2. b.votes[i] = w
        BY <3>2, <4>1 DEF HonestVotes
      <4> QED
        BY <3>1, <4>2
    <3>5. w.seq # 0 /\ w.seq \notin 1..b.lastSeqSeen
      BY <3>2, <3>4 DEF NoGaps
    <3> QED
      BY <2>1, <2>2, <3>3, <3>5 DEF w
  <2> HIDE DEF e, f, c
  <2> QED
    BY <2>1, <2>5, <2>6 DEF Before, f, c
<1> QED
  BY <1>1, <1>2

-----------------------------------------------------------------------------
(* The theorems                                                            *)

Inv ==
  /\ TypeOK
  /\ GoodBucket(bucket, voter)
  /\ HonestVoter => ~ret.err /\ ExactFrom(bucket, voter.firstSeq)

\* HonestVotes is what PeerVoting says of an honest voter.
LEMMA HonestVoterVotes == HonestVoter <=> HonestVotes(voter.votes)
  BY DEF HonestVoter, HonestVotes

\* What a step may do to the bucket: a call of AddVote or AddVotes, or a commit.
LEMMA StepCases ==
  ASSUME Inv, [Next]_vars
  PROVE  \/ \E r : Good(bucket, r, voter) /\ Return(r)
         \/ \E h \in TxHashes : UpdateTxSetStep(h)
         \/ UNCHANGED vars
<1>1. voter \in Voters /\ GoodBucket(bucket, voter)
  BY DEF Inv, TypeOK
<1>2. ASSUME NEW v \in voter.votes, AddVoteStep(v)
      PROVE  \E r : Good(bucket, r, voter) /\ Return(r)
  <2>1. Good(bucket, AddVote(bucket, v), voter)
    BY <1>1, AddVoteGood
  <2> QED
    BY <2>1, <1>2 DEF AddVoteStep
<1>3. ASSUME NEW v \in voter.votes, NEW w \in voter.votes, AddVotesStep(v, w)
      PROVE  \E r : Good(bucket, r, voter) /\ Return(r)
  <2>1. Good(bucket, AddVotes(bucket, <<v, w>>), voter)
    BY <1>1, AddVotesGood
  <2> QED
    BY <2>1, <1>3 DEF AddVotesStep
<1> QED
  BY <1>2, <1>3 DEF Next

\* The votes of a voter are among the votes of all.
LEMMA BucketTypes ==
  ASSUME NEW w \in Voters, NEW b \in Buckets(w)
  PROVE  b \in [votes : Seq(Votes), lastSeqSeen : Nat,
                commitedHashes : SUBSET TxHashes]
<1>1. w.votes \subseteq Votes
  BY DEF Votes
<1>2. b.votes \in Seq(Votes)
  BY <1>1 DEF Buckets, BucketsOf
<1> QED
  BY <1>2 DEF Buckets, BucketsOf

\* A commit touches neither the list nor lastSeqSeen.
LEMMA CommitKeeps ==
  ASSUME Inv, NEW h \in TxHashes, UpdateTxSetStep(h)
  PROVE  /\ bucket'.votes = bucket.votes
         /\ bucket'.lastSeqSeen = bucket.lastSeqSeen
         /\ bucket'.commitedHashes = bucket.commitedHashes \cup {h}
         /\ bucket' \in Buckets(voter)
         /\ voter' = voter /\ ret' = ret
  BY DEF Inv, GoodBucket, Buckets, BucketsOf, UpdateTxSetStep, UpdateTxSet

\* The empty bucket satisfies the invariant.
LEMMA InvInit == Init => Inv
<1> SUFFICES ASSUME Init PROVE Inv
  OBVIOUS
<1>1. /\ bucket.votes = << >> /\ bucket.lastSeqSeen = 0
      /\ bucket.commitedHashes = {}
      /\ voter \in Voters /\ bucket \in Buckets(voter)
      /\ ret \in [added : BOOLEAN, err : BOOLEAN] /\ ~ret.err
  BY DEF Init, newPeerBucket, Buckets, BucketsOf
<1>2. NoGaps(bucket) /\ ExactFrom(bucket, voter.firstSeq)
  BY <1>1 DEF NoGaps, SeqsIn, ExactFrom, Exact, InOrder
<1> QED
  BY <1>1, <1>2, BucketTypes DEF Inv, TypeOK, GoodBucket

\* Every call keeps it: the votes by the lemmas above, a commit because it
\* touches neither the list nor lastSeqSeen.
LEMMA InvNext == Inv /\ [Next]_vars => Inv'
<1> SUFFICES ASSUME Inv, [Next]_vars PROVE Inv'
  OBVIOUS
<1>1. ASSUME NEW r, Good(bucket, r, voter), Return(r) PROVE Inv'
  <2>1. /\ bucket' = r.bucket /\ voter' = voter
        /\ ret' = [added |-> r.added, err |-> r.err]
    BY <1>1 DEF Return
  <2>2. voter \in Voters /\ GoodBucket(r.bucket, voter)
    BY <1>1 DEF Good, Inv, TypeOK
  <2>3. TypeOK'
    BY <1>1, <2>1, <2>2, BucketTypes DEF TypeOK, Good, GoodBucket
  <2>4. HonestVoter' <=> HonestVoter
    BY <2>1 DEF HonestVoter
  <2>5. HonestVoter =>
          ~r.err /\ ExactFrom(r.bucket, voter.firstSeq)
    BY <1>1, HonestVoterVotes DEF Inv, Good
  <2> QED
    BY <2>1, <2>2, <2>3, <2>4, <2>5 DEF Inv
<1>2. ASSUME NEW h \in TxHashes, UpdateTxSetStep(h) PROVE Inv'
  <2>1. /\ bucket'.votes = bucket.votes
        /\ bucket'.lastSeqSeen = bucket.lastSeqSeen
        /\ bucket' \in Buckets(voter)
        /\ voter' = voter /\ ret' = ret
    BY <1>2, CommitKeeps
  <2>2. TypeOK'
    BY <2>1, BucketTypes DEF Inv, TypeOK
  <2>3. HonestVoter' <=> HonestVoter
    BY <2>1 DEF HonestVoter
  <2>4. GoodBucket(bucket', voter)
    BY <2>1 DEF Inv, GoodBucket, NoGaps
  <2>5. ExactFrom(bucket, voter.firstSeq) => ExactFrom(bucket', voter.firstSeq)
    BY <2>1 DEF ExactFrom, Exact
  <2> QED
    BY <2>1, <2>2, <2>3, <2>4, <2>5 DEF Inv
<1>3. CASE UNCHANGED vars
  BY <1>3 DEF vars, Inv, TypeOK, HonestVoter
<1> QED
  BY <1>1, <1>2, <1>3, StepCases

\* A peer's bucket keeps its type: only votes that some voter signs are in the
\* list, lastSeqSeen is a natural number and only known transactions are
\* committed.
THEOREM Typing == Spec => []TypeOK
<1>1. Inv => TypeOK
  BY DEF Inv
<1> QED
  BY <1>1, InvInit, InvNext, PTL DEF Spec

\* lastSeqSeen never covers a sequence number that was not received, for any
\* voter, honest or not, and any order of arrival, duplicates and errors.
THEOREM NoGapBelowLastSeqSeen == Spec => []SeenHasNoGaps
<1>1. Inv => SeenHasNoGaps
  BY DEF Inv, GoodBucket, SeenHasNoGaps
<1> QED
  BY <1>1, InvInit, InvNext, PTL DEF Spec

\* No call of AddVote or AddVotes returns an error for votes of an honest voter.
THEOREM HonestVotesAreAccepted == Spec => []HonestVoteNeverFails
<1>1. Inv => HonestVoteNeverFails
  BY DEF Inv, HonestVoteNeverFails
<1> QED
  BY <1>1, InvInit, InvNext, PTL DEF Spec

\* Before compares the numbers of the uncommitted votes of an honest voter,
\* although the list may hold them out of order or twice.
THEOREM BeforeIsByNumber == Spec => []BeforeFollowsSeq
<1>1. Inv => BeforeFollowsSeq
  <2> SUFFICES ASSUME Inv, HonestVoter, NEW v \in ToSet(bucket.votes),
                      NEW w \in ToSet(bucket.votes),
                      {v.txHash, w.txHash} \cap bucket.commitedHashes = {}
               PROVE  Before(bucket, v.txHash, w.txHash) <=> v.seq < w.seq
    BY DEF BeforeFollowsSeq
  <2>1. PICK i \in DOMAIN bucket.votes : v = bucket.votes[i]
    BY DEF ToSet
  <2>2. PICK j \in DOMAIN bucket.votes : w = bucket.votes[j]
    BY DEF ToSet
  <2>3. HonestVotes(voter.votes) /\ bucket \in BucketsOf(voter.votes, TxHashes)
    BY HonestVoterVotes DEF Inv, GoodBucket, Buckets
  <2> QED
    BY <2>1, <2>2, <2>3, HonestBefore
<1> QED
  BY <1>1, InvInit, InvNext, PTL DEF Spec

\* When the first vote of an honest voter is the first to arrive, all others are
\* put in order, none twice, and lastSeqSeen is the last consecutive number.
THEOREM LastSeqSeenIsExact == Spec => []ExactWhenFirstCameFirst
<1>1. Inv => ExactWhenFirstCameFirst
  <2> SUFFICES ASSUME Inv, HonestVoter, FirstCameFirst
               PROVE  bucket.lastSeqSeen + 1 \notin Seqs /\ VoteAddedOnce
    BY DEF ExactWhenFirstCameFirst
  <2>1. Exact(bucket)
    BY DEF Inv, ExactFrom, HeadIs, FirstCameFirst
  <2>2. /\ DOMAIN bucket.votes \subseteq Nat
        /\ \A i \in DOMAIN bucket.votes : bucket.votes[i].seq \in Nat
    <3>1. /\ bucket.votes \in Seq(voter.votes) /\ Numbered(voter.votes)
      BY VotersAreNumbered DEF Inv, TypeOK, GoodBucket, Buckets, BucketsOf
    <3>2. \A i \in DOMAIN bucket.votes : bucket.votes[i] \in voter.votes
      BY <3>1
    <3> QED
      BY <3>1, <3>2 DEF Numbered
  <2>3. ASSUME NEW i \in DOMAIN bucket.votes, NEW j \in DOMAIN bucket.votes,
               i # j
        PROVE  bucket.votes[i] # bucket.votes[j]
    <3>1. i < j \/ j < i
      BY <2>2, <2>3
    <3>2. \/ bucket.votes[i].seq < bucket.votes[j].seq
          \/ bucket.votes[j].seq < bucket.votes[i].seq
      BY <2>1, <3>1 DEF Exact, InOrder
    <3> QED
      BY <2>2, <3>2
  <2> QED
    BY <2>1, <2>3 DEF Exact, Seqs, VoteAddedOnce
<1> QED
  BY <1>1, InvInit, InvNext, PTL DEF Spec

\* As votes of an honest voter arrive, what is seen stays seen, and what is
\* before a transaction that has a vote, or is seen, stays before.
THEOREM SeenAndBeforeStay == Spec => SeenAndBeforeAreStable
<1> DEFINE Stays(h) ==
             /\ Seen(bucket, h) => Seen(bucket', h)
             /\ \A g \in TxHashes :
                  /\ Before(bucket, h, g)
                  /\ \/ VotesOf(g) # {}
                     \/ Seen(bucket, h) /\ (voter.firstSeq >= 1 \/ 0 \in Seqs)
                  /\ bucket.commitedHashes' = bucket.commitedHashes
                  => Before(bucket', h, g)
<1>1. ASSUME Inv, [Next]_vars, HonestVoter, NEW h \in TxHashes PROVE Stays(h)
  <2>1. ASSUME NEW r, Good(bucket, r, voter), Return(r) PROVE Stays(h)
    <3>1. bucket' = r.bucket
      BY <2>1 DEF Return
    <3>2. Seen(bucket, h) => Seen(bucket', h)
      BY <2>1, <3>1 DEF Good
    <3>3. HonestVotes(voter.votes)
      BY <1>1, HonestVoterVotes
    <3>4. /\ bucket \in BucketsOf(voter.votes, TxHashes)
          /\ r.bucket \in BucketsOf(voter.votes, TxHashes)
          /\ Keeps(bucket.votes, r.bucket.votes)
          /\ r.bucket.commitedHashes = bucket.commitedHashes
          /\ NoGaps(bucket)
      BY <1>1, <2>1 DEF Inv, Good, GoodBucket, Buckets
    <3>5. ASSUME NEW g \in TxHashes, Before(bucket, h, g), VotesOf(g) # {}
          PROVE  Before(bucket', h, g)
      <4>1. PICK j \in DOMAIN bucket.votes : bucket.votes[j].txHash = g
        BY <3>5 DEF VotesOf
      <4> QED
        BY <3>1, <3>3, <3>4, <3>5, <4>1, HonestBeforeStays
    <3>6. ASSUME NEW g \in TxHashes, Before(bucket, h, g), VotesOf(g) = {},
                 Seen(bucket, h), voter.firstSeq >= 1 \/ 0 \in Seqs
          PROVE  Before(bucket', h, g)
      <4>1. \A i \in DOMAIN bucket.votes : bucket.votes[i].txHash # g
        BY <3>6 DEF VotesOf
      <4>2. /\ voter \in Voters /\ voter.firstSeq \in Nat
            /\ Numbered(voter.votes)
            /\ \A v \in voter.votes : v.seq >= voter.firstSeq
        BY <1>1, VotersAreNumbered, VotersAssumption DEF Inv, TypeOK
      <4>3. \A v \in voter.votes : v.seq = 0 => 0 \in SeqsIn(bucket.votes)
        BY <3>6, <4>2 DEF Seqs
      <4>4. Before(r.bucket, h, g)
        BY <3>3, <3>4, <3>6, <4>1, <4>2, <4>3, HonestSeenBeforeStays
      <4> QED
        BY <3>1, <4>4
    <3> QED
      BY <3>2, <3>5, <3>6
  <2>2. ASSUME NEW k \in TxHashes, UpdateTxSetStep(k) PROVE Stays(h)
    <3>1. /\ bucket'.votes = bucket.votes
          /\ bucket'.lastSeqSeen = bucket.lastSeqSeen
      BY <1>1, <2>2, CommitKeeps
    <3>2. \A g : elementByHash(bucket', g) = elementByHash(bucket, g)
      BY <3>1 DEF elementByHash
    <3> QED
      BY <3>1, <3>2 DEF Seen, Before
  <2>3. CASE UNCHANGED vars
    BY <2>3 DEF vars
  <2> QED
    BY <1>1, <2>1, <2>2, <2>3, StepCases
<1>2. Inv /\ [Next]_vars => [HonestVoter => \A h \in TxHashes : Stays(h)]_vars
  BY <1>1
<1> QED
  BY <1>2, InvInit, InvNext, PTL DEF Spec, SeenAndBeforeAreStable

\* The list of a peer implements the log of its votes: every call of AddVote or
\* AddVotes, refused or not, is a Register step or a stutter, every commit a
\* Commit step.
THEOREM ListImplementsLog == Spec => ImplementsVoteLog
<1>1. Init => Log!Init
  BY DEF Init, Log!Init, newPeerBucket, ToSet
<1>2. Inv /\ Inv' /\ [Next]_vars => [Log!Next]_(Log!vars)
  <2> SUFFICES ASSUME Inv, Inv', [Next]_vars PROVE [Log!Next]_(Log!vars)
    OBVIOUS
  <2>1. ASSUME NEW r, Good(bucket, r, voter), Return(r) PROVE Log!Register
    <3>1. bucket' = r.bucket
      BY <2>1 DEF Return
    <3>2. ToSet(bucket.votes) \subseteq ToSet(bucket'.votes)
      BY <2>1, <3>1, KeepsSeqs DEF Good
    <3>3. /\ bucket'.votes \in Seq(Votes) /\ bucket'.lastSeqSeen \in Nat
          /\ 1..bucket'.lastSeqSeen \subseteq SeqsIn(bucket'.votes)
      BY DEF Inv, TypeOK, GoodBucket, NoGaps
    <3>4. ToSet(bucket'.votes) \in SUBSET Votes
      BY <3>3 DEF ToSet
    <3>5. SeqsIn(bucket'.votes) \subseteq Log!SeqsOf(ToSet(bucket'.votes))
      BY DEF SeqsIn, ToSet, Log!SeqsOf
    <3>6. /\ bucket'.lastSeqSeen >= bucket.lastSeqSeen
          /\ bucket'.commitedHashes = bucket.commitedHashes
      BY <2>1, <3>1 DEF Good
    <3> QED
      BY <3>2, <3>3, <3>4, <3>5, <3>6 DEF Log!Register
  <2>2. ASSUME NEW h \in TxHashes, UpdateTxSetStep(h) PROVE Log!Commit(h)
    BY <2>2 DEF UpdateTxSetStep, UpdateTxSet, Log!Commit, Inv, TypeOK
  <2>3. CASE UNCHANGED vars
    BY <2>3 DEF vars, Log!vars
  <2> QED
    BY <2>1, <2>2, <2>3, StepCases DEF Log!Next
<1>3. Spec => []Inv
  BY InvInit, InvNext, PTL DEF Spec
<1> QED
  BY <1>1, <1>2, <1>3, PTL DEF Spec, ImplementsVoteLog, Log!Spec
=============================================================================
