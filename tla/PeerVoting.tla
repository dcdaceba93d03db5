----------------------------- MODULE PeerVoting -----------------------------
(***************************************************************************)
(* One voter as Wendy sees it: a single bucket of a Peer (peer.go) that    *)
(* receives the votes the voter signs in any order, each of them any       *)
(* number of times or never, while blocks commit transactions.  Wendy      *)
(* calls the peer with its peersMtx held, so each call is one step.        *)
(***************************************************************************)
EXTENDS Peer

CONSTANTS
  Voters,     \* what the voter may be: records [votes, firstSeq] of the votes
              \* it signs and the sequence number it starts from
  TxHashes,   \* hashes of the transactions
  MaxLen      \* bound: the list is not grown beyond this length

Votes == UNION {w.votes : w \in Voters}

ASSUME VotersAssumption ==
  \A w \in Voters :
    /\ w.firstSeq \in Nat
    /\ \A v \in w.votes : v.seq \in Nat /\ v.seq >= w.firstSeq
                          /\ v.txHash \in TxHashes

ASSUME MaxLenAssumption == MaxLen \in Nat

VARIABLES
  voter,      \* the voter, chosen once
  bucket,     \* the peerBucket
  ret         \* what the last AddVote or AddVotes returned: [added, err]

vars == <<voter, bucket, ret>>

Init ==
  /\ voter \in Voters
  /\ bucket = newPeerBucket
  /\ ret = [added |-> FALSE, err |-> FALSE]

Return(r) ==
  /\ bucket' = r.bucket
  /\ ret' = [added |-> r.added, err |-> r.err]
  /\ UNCHANGED voter

AddVoteStep(v) ==
  /\ Len(bucket.votes) < MaxLen
  /\ Return(AddVote(bucket, v))

AddVotesStep(v, w) ==
  /\ Len(bucket.votes) + 1 < MaxLen
  /\ Return(AddVotes(bucket, <<v, w>>))

UpdateTxSetStep(h) ==
  /\ bucket' = UpdateTxSet(bucket, {h})
  /\ UNCHANGED <<voter, ret>>

Next ==
  \/ \E v \in voter.votes : AddVoteStep(v)
  \/ \E v, w \in voter.votes : AddVotesStep(v, w)
  \/ \E h \in TxHashes : UpdateTxSetStep(h)

Spec == Init /\ [][Next]_vars

-----------------------------------------------------------------------------
(* Abbreviations used by the properties.                                   *)

Seqs == SeqsIn(bucket.votes)

VotesOf(h) == {bucket.votes[i] : i \in {j \in DOMAIN bucket.votes :
                                          bucket.votes[j].txHash = h}}

\* The voter never signs two votes with one sequence number and links every
\* vote to the one before.
HonestVoter ==
  \A v, w \in voter.votes :
    /\ v.seq = w.seq => v = w
    /\ v.txHash = w.txHash => v = w
    /\ v.seq + 1 = w.seq => w.prevHash = Hash(v)

\* The voter's first vote was the first to arrive: nothing is ever put before
\* the head of the list.
FirstCameFirst ==
  bucket.votes # << >> /\ bucket.votes[1].seq = voter.firstSeq

\* The set of votes a caller may think of in place of the list.
Log == INSTANCE VoteLog
  WITH received <- ToSet(bucket.votes),
       seen <- bucket.lastSeqSeen,
       commited <- bucket.commitedHashes

-----------------------------------------------------------------------------
(* Properties                                                              *)

\* Every field has its type and the list holds votes of this voter only.
TypeOK ==
  /\ voter \in Voters
  /\ bucket \in [votes : Seq(Votes), lastSeqSeen : Nat,
                 commitedHashes : SUBSET TxHashes]
  /\ ret \in [added : BOOLEAN, err : BOOLEAN]

\* lastSeqSeen is only ever advanced over sequence numbers that were received:
\* whatever the order of arrival, the duplicates, the errors and the votes
\* that AddVote leaves in the wrong place, no number in 1..lastSeqSeen is
\* missing from the list (peer.go:106-110).
SeenHasNoGaps == NoGaps(bucket)

\* The chain of an honest voter is never refused, in whatever order and
\* however often its votes arrive: the hash checks of AddVote (peer.go:86-97)
\* compare neighbours of the list, which need not be neighbours of the chain.
HonestVoteNeverFails == HonestVoter => ~ret.err

\* Before (peer.go:145-188) orders the uncommitted votes of an honest voter
\* by sequence number even when the list holds them out of order or twice.
BeforeFollowsSeq ==
  HonestVoter =>
    \A v, w \in ToSet(bucket.votes) :
      {v.txHash, w.txHash} \cap bucket.commitedHashes = {} =>
        (Before(bucket, v.txHash, w.txHash) <=> v.seq < w.seq)

\* "It returns true if the vote hasn't been added before, otherwise, the vote
\* is not added and false is returned" (peer.go:60-62): no vote is twice in
\* the list.
VoteAddedOnce ==
  \A i, j \in DOMAIN bucket.votes :
    i # j => bucket.votes[i] # bucket.votes[j]

\* As votes of an honest voter arrive, Seen (peer.go:192) never turns from true
\* to false, nor does Before (peer.go:148) while nothing is commited, if there is
\* a vote for the second transaction, or if the first one is seen: a vote that
\* is yet to come has a higher number then, unless it is vote 0, which
\* lastSeqSeen does not wait for.  Without either, Before(h, g) is true as long
\* as only h has a vote (peer.go:183), and a vote for g may turn it.
SeenAndBeforeAreStable ==
  [][ HonestVoter =>
        \A h \in TxHashes :
          /\ Seen(bucket, h) => Seen(bucket', h)
          /\ \A g \in TxHashes :
               /\ Before(bucket, h, g)
               /\ \/ VotesOf(g) # {}
                  \/ Seen(bucket, h) /\ (voter.firstSeq >= 1 \/ 0 \in Seqs)
               /\ bucket.commitedHashes' = bucket.commitedHashes
               => Before(bucket', h, g)
    ]_vars

\* "LastSeqSeen returns the last higher consecutive Seq number registered by a
\* vote" (peer.go:57) and AddVote adds a vote once (peer.go:60-62), if the first
\* vote of an honest voter is the first to arrive and it numbers from 0 or 1:
\* then lastSeqSeen is exact after every call, in whatever order the others
\* arrive.
ExactWhenFirstCameFirst ==
  HonestVoter /\ FirstCameFirst /\ voter.firstSeq <= 1 =>
    bucket.lastSeqSeen + 1 \notin Seqs /\ VoteAddedOnce

\* Whatever the voter signs and however it arrives, the list implements a log:
\* votes are never lost or invented by the insertions, lastSeqSeen never falls
\* and never passes a number that is missing, commits are never taken back
\* (peer.go:60-137, 203-212).
ImplementsVoteLog == Log!Spec
=============================================================================
