-------------------------------- MODULE Peer --------------------------------
(***************************************************************************)
(* The per-label state of a Wendy peer (peer.go) as values and operators.  *)
(*                                                                         *)
(* A Vote is a record [seq, txHash, time, prevHash] of the fields that its *)
(* digest covers (types.go).  Hash is modelled injectively, by the tuple   *)
(* of the digested fields: two votes have the same hash iff they agree on  *)
(* them.                                                                   *)
(*                                                                         *)
(* A peerBucket is a record [votes, lastSeqSeen, commitedHashes].  The     *)
(* linked list `votes' is a sequence, its head first; 0 stands for a nil   *)
(* *list.Element and a position of the sequence for any other.             *)
(***************************************************************************)
EXTENDS Integers, Sequences, SequencesExt

\* Mutant: the counter starts before the first number.
newPeerBucketMinusOne ==
  [votes |-> << >>, lastSeqSeen |-> -1, commitedHashes |-> {}]

newPeerBucket == [votes |-> << >>, lastSeqSeen |-> 0, commitedHashes |-> {}]

Hash(v) == <<v.seq, v.txHash, v.time, v.prevHash>>

-----------------------------------------------------------------------------
(* AddVote                                                                 *)

\* Mutant: the hashes of any two neighbours are compared.
validHashesOfAny(prev, next) == Hash(prev) = next.prevHash

\* ErrVoteHashesDontMatch is reported only for contiguous sequence numbers.
validHashes(prev, next) ==
  prev.seq + 1 = next.seq => Hash(prev) = next.prevHash

\* First(seq <= v.seq, Backward): the last element of the list, not the one
\* with the highest sequence number, that is not above v.
PrevElement(votes, v) ==
  SelectLastInSeq(votes, LAMBDA e : e.seq <= v.seq)

\* Mutants: the loop jumps over gaps, or looks at the new element only.
AdvanceSeenOverGaps(votes, from, last) ==
  LET seen[i \in 0..Len(votes)] ==
        IF i < from THEN last
        ELSE IF votes[i].seq > seen[i-1] THEN votes[i].seq
        ELSE seen[i-1]
  IN  seen[Len(votes)]

AdvanceSeenOnce(votes, from, last) ==
  IF votes[from].seq = last + 1 THEN last + 1 ELSE last

\* The loop at the end of AddVote: one pass from the element at `from' to the
\* end of the list.
AdvanceSeen(votes, from, last) ==
  LET seen[i \in 0..Len(votes)] ==
        IF i < from THEN last
        ELSE IF votes[i].seq = seen[i-1] + 1 THEN seen[i-1] + 1
        ELSE seen[i-1]
  IN  seen[Len(votes)]

\* What AddVote leaves in the bucket and returns: (added, err).
Result(b, added, err) == [bucket |-> b, added |-> added, err |-> err]

\* v is in the list at position pos: advance lastSeqSeen and return true.
Inserted(b, votes, pos) ==
  Result([b EXCEPT !.votes = votes,
                   !.lastSeqSeen = AdvanceSeen(votes, pos, b.lastSeqSeen)],
         TRUE, FALSE)

\* An error against the next element is returned after the insertion.
InsertAfter(b, v, pos) ==
  LET votes == InsertAt(b.votes, pos + 1, v)
  IN  IF pos + 2 \in DOMAIN votes /\ ~validHashes(v, votes[pos + 2])
      THEN Result([b EXCEPT !.votes = votes], FALSE, TRUE)
      ELSE Inserted(b, votes, pos + 1)

AddVote(b, v) ==
  LET pos == PrevElement(b.votes, v)
  IN  CASE pos = 0 ->
             Inserted(b, Append(b.votes, v), Len(b.votes) + 1)
        [] pos # 0 /\ b.votes[pos].seq = v.seq ->
             Result(b, FALSE, FALSE)
        [] pos # 0 /\ b.votes[pos].seq # v.seq
                   /\ ~validHashes(b.votes[pos], v) ->
             Result(b, FALSE, TRUE)
        [] OTHER -> InsertAfter(b, v, pos)

\* AddVotes stops at the first error; the votes before it stay added.
AddVotes(b, vs) ==
  LET after[i \in 0..Len(vs)] ==
        IF i = 0 THEN Result(b, TRUE, FALSE)
        ELSE IF after[i-1].err THEN after[i-1]
        ELSE AddVote(after[i-1].bucket, vs[i])
  IN  after[Len(vs)]

-----------------------------------------------------------------------------
(* Queries and commits                                                     *)

elementByHash(b, h) == SelectInSeq(b.votes, LAMBDA e : e.txHash = h)

\* Mutants: positions are compared in place of numbers, or the comparison is
\* turned round.
BeforeByPosition(b, h1, h2) ==
  LET v1 == elementByHash(b, h1)
      v2 == elementByHash(b, h2)
  IN  \/ h1 \in b.commitedHashes
      \/ h2 \notin b.commitedHashes /\ v1 # 0 /\ (v2 # 0 => v1 < v2)

BeforeReversed(b, h1, h2) ==
  LET v1 == elementByHash(b, h1)
      v2 == elementByHash(b, h2)
  IN  \/ h1 \in b.commitedHashes
      \/ /\ h2 \notin b.commitedHashes
         /\ v1 # 0
         /\ v2 # 0 => b.votes[v1].seq > b.votes[v2].seq

\* Both transactions have the bucket's label: Before panics otherwise.
Before(b, h1, h2) ==
  LET v1 == elementByHash(b, h1)
      v2 == elementByHash(b, h2)
  IN  \/ h1 \in b.commitedHashes
      \/ /\ h2 \notin b.commitedHashes
         /\ v1 # 0
         /\ v2 # 0 => b.votes[v1].seq < b.votes[v2].seq

\* Mutant: only the last consecutive vote counts.
SeenLastOnly(b, h) ==
  LET v == elementByHash(b, h)
  IN  v # 0 /\ b.votes[v].seq = b.lastSeqSeen

Seen(b, h) ==
  LET v == elementByHash(b, h)
  IN  v # 0 /\ b.votes[v].seq <= b.lastSeqSeen

\* Mutant: earlier commits are forgotten.
UpdateTxSetAnew(b, hs) ==
  [b EXCEPT !.commitedHashes = hs]

UpdateTxSet(b, hs) ==
  [b EXCEPT !.commitedHashes = @ \cup hs]

\* Mutant: the wrong fraction.
QuorumOfHalf(n) == n \div 2

\* The votes of n validators that make a quorum (UpdateValidatorSet of
\* wendy.go): math.Floor(n * 2/3) + 1.
QuorumOf(n) == (2 * n) \div 3 + 1

-----------------------------------------------------------------------------
(* Abbreviations used by the properties.                                   *)

SeqsIn(votes) == {votes[i].seq : i \in DOMAIN votes}

\* Every number up to lastSeqSeen was received.
NoGaps(b) == 1..b.lastSeqSeen \subseteq SeqsIn(b.votes)
=============================================================================
