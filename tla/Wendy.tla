------------------------------- MODULE Wendy --------------------------------
(***************************************************************************)
(* The Wendy object (wendy.go): pending transactions, votes and peers, as  *)
(* its callers see it from several goroutines.                             *)
(*                                                                         *)
(* A step is what one critical section does.  Three operations take more   *)
(* than one:                                                               *)
(*  - UpdateValidatorSet writes `validators' and `quorum' before it takes  *)
(*    peersMtx;                                                            *)
(*  - AddBlock holds txsMtx throughout, but removes the transactions before*)
(*    it takes peersMtx;                                                   *)
(*  - NewBlockWithOptions holds txsMtx for reading, and takes peersMtx for *)
(*    reading anew for every cell of the blocking matrix.                  *)
(* One goroutine at a time is inside each of the three; all the others     *)
(* interleave with them as the locks allow.                                *)
(***************************************************************************)
EXTENDS Peer, BlockingSet

CONSTANTS
  TxHashes,       \* the transactions, each standing for its hash
  Size,           \* the size in bytes of each of them
  Environments    \* what may happen around Wendy: a set of records of
                  \*   label: the label of every transaction and its votes
                  \*   votes: the votes that may arrive, with their pubkey
                  \*   inOrder: whether each voter's votes arrive in order, once
                  \*   validatorSets: the arguments of UpdateValidatorSet
                  \*   options: those of NewBlockWithOptions, but for AddBlock
                  \*   blocks: the blocks that may be added or committed

ASSUME WendyAssumption ==
  \A e \in Environments :
    /\ DOMAIN e.label = TxHashes
    /\ \A v \in e.votes : v.txHash \in TxHashes /\ v.seq \in Nat
    /\ e.inOrder \in BOOLEAN
    /\ \A vs \in e.validatorSets : vs \in Seq(ToSet(vs))
    /\ e.blocks \subseteq Seq(TxHashes)

(* What honest voters do, where a theorem needs it                         *)

\* A voter gives a number to one transaction of a label only.
NumbersAreClear ==
  \A e \in Environments : \A v, w \in e.votes :
    /\ v.pubkey = w.pubkey
    /\ e.label[v.txHash] = e.label[w.txHash]
    /\ v.seq = w.seq
    => v.txHash = w.txHash

\* Every vote links to the one with the number before it.
VotesAreLinked ==
  \A e \in Environments : \A v, w \in e.votes :
    /\ v.pubkey = w.pubkey
    /\ e.label[v.txHash] = e.label[w.txHash]
    /\ v.seq + 1 = w.seq
    => w.prevHash = Hash(v)

\* Somebody votes, and whoever votes is among the validators of every update.
VotersStay ==
  \A e \in Environments : e.inOrder =>
    /\ e.votes # {}
    /\ \A v \in e.votes, vs \in e.validatorSets : v.pubkey \in ToSet(vs)

VARIABLES
  env,          \* the environment, chosen once
  validators,   \* the current validators: a sequence of keys
  quorum,       \* votes that make a quorum, 0 before the first update
  txs,          \* the pending transactions and their index (Txs)
  votes,        \* the last vote registered for a transaction
  peers,        \* the buckets of every peer by key and label
  updating,     \* the goroutine inside UpdateValidatorSet
  adding,       \* the goroutine inside AddBlock: it holds txsMtx
  making,       \* the goroutine inside NewBlockWithOptions: it reads txsMtx
  panicked,     \* whether Before panicked
  arrived       \* environment: the votes that have arrived, if in order

updateVars == <<validators, quorum>>
vars == <<env, validators, quorum, txs, votes, peers, updating, adding,
          making, panicked, arrived>>

label == env.label

Labels == {label[h] : h \in TxHashes}

Idle == [pc |-> "idle"]

newPeer == [l \in Labels |-> newPeerBucket]

Init ==
  /\ env \in Environments
  /\ validators = << >>
  /\ quorum = 0
  /\ txs = NewTxs
  /\ votes = << >>
  /\ peers = << >>
  /\ updating = Idle
  /\ adding = Idle
  /\ making = Idle
  /\ panicked = FALSE
  /\ arrived = {}

-----------------------------------------------------------------------------
(* The validator set                                                       *)

UpdateValidators(vs) ==
  /\ ~panicked
  /\ updating = Idle
  /\ validators' = vs
  /\ updating' = [pc |-> "quorum", vs |-> vs]
  /\ UNCHANGED <<env, quorum, txs, votes, peers, adding, making, panicked,
                 arrived>>

UpdateQuorum ==
  /\ ~panicked
  /\ updating.pc = "quorum"
  /\ quorum' = QuorumOf(Len(updating.vs))
  /\ updating' = [updating EXCEPT !.pc = "peers"]
  /\ UNCHANGED <<env, validators, txs, votes, peers, adding, making,
                 panicked, arrived>>

UpdatePeers ==
  /\ ~panicked
  /\ updating.pc = "peers"
  /\ peers' = [id \in ToSet(updating.vs) |->
                 IF id \in DOMAIN peers THEN peers[id] ELSE newPeer]
  /\ updating' = Idle
  /\ UNCHANGED <<env, validators, quorum, txs, votes, adding, making,
                 panicked, arrived>>

-----------------------------------------------------------------------------
(* Transactions and votes                                                  *)

\* txsMtx can be taken for writing.
TxsUnlocked == adding = Idle /\ making.pc # "matrix"

AddTx(h) ==
  /\ ~panicked
  /\ TxsUnlocked
  /\ txs' = Push(txs, h)
  /\ UNCHANGED <<env, updateVars, votes, peers, updating, adding, making,
                 panicked, arrived>>

\* The peer of a vote is created when there is none.
PeerOf(id) == IF id \in DOMAIN peers THEN peers[id] ELSE newPeer

SetPeer(id, p) ==
  [i \in DOMAIN peers \cup {id} |-> IF i = id THEN p ELSE peers[i]]

\* The environment: which votes may arrive now.  In order, it is the next
\* one of its voter.
Arrives(v) ==
  env.inOrder =>
    \A w \in env.votes :
      w.pubkey = v.pubkey => (w.seq < v.seq <=> w \in arrived)

\* AddVote of Wendy.  A vote that the peer refuses with an error is not
\* registered by its transaction; a duplicate is.
AddVoteToPeer(v) ==
  LET r == AddVote(PeerOf(v.pubkey)[label[v.txHash]], v)
  IN  /\ ~panicked
      /\ Arrives(v)
      /\ peers' = SetPeer(v.pubkey, [PeerOf(v.pubkey)
                                       EXCEPT ![label[v.txHash]] = r.bucket])
      /\ votes' = IF r.err THEN votes
                  ELSE [h \in DOMAIN votes \cup {v.txHash} |->
                          IF h = v.txHash THEN v ELSE votes[h]]
      /\ arrived' = IF env.inOrder THEN arrived \cup {v} ELSE arrived
      /\ UNCHANGED <<env, updateVars, txs, updating, adding, making,
                     panicked>>

VoteByTxHash(h) == IF h \in DOMAIN votes THEN {votes[h]} ELSE {}

-----------------------------------------------------------------------------
(* Quorums                                                                 *)

\* The counter starts at 0 and is compared with w.quorum after every vote.
hasQuorum(ids) == quorum > 0 /\ Cardinality(ids) >= quorum

\* w.quorum is written without a lock.  When it falls in the middle of the
\* count, and to a value the counter has passed, the counter never equals it
\* and hasQuorum returns false.
QuorumMaySlip(ids) ==
  /\ updating.pc = "quorum"
  /\ QuorumOf(Len(updating.vs)) < quorum
  /\ QuorumOf(Len(updating.vs)) <= Cardinality(ids)

PeersBefore(h1, h2) ==
  {id \in DOMAIN peers : Before(peers[id][label[h1]], h1, h2)}

IsBlockedBy(h1, h2) == ~hasQuorum(PeersBefore(h1, h2))

IsBlocked(h) ==
  ~hasQuorum({id \in DOMAIN peers : Seen(peers[id][label[h]], h)})

-----------------------------------------------------------------------------
(* Blocks                                                                  *)

\* UpdateTxSet of one peer for the transactions of a block.
UpdatePeerTxSet(p, block) ==
  [l \in Labels |->
     UpdateTxSet(p[l], {h \in ToSet(block) : label[h] = l})]

CommitToPeers(block) ==
  peers' = [id \in DOMAIN peers |-> UpdatePeerTxSet(peers[id], block)]

CommitBlock(block) ==
  /\ ~panicked
  /\ CommitToPeers(block)
  /\ UNCHANGED <<env, updateVars, txs, votes, updating, adding, making,
                 panicked, arrived>>

AddBlockRemove(block) ==
  /\ ~panicked
  /\ TxsUnlocked
  /\ txs' = RemoveAll(txs, block)
  /\ adding' = [pc |-> "commit", block |-> block]
  /\ UNCHANGED <<env, updateVars, votes, peers, updating, making, panicked,
                 arrived>>

AddBlockCommit ==
  /\ ~panicked
  /\ adding.pc = "commit"
  /\ CommitToPeers(adding.block)
  /\ adding' = Idle
  /\ UNCHANGED <<env, updateVars, txs, votes, updating, making, panicked,
                 arrived>>

NewBlockStart(opts) ==
  /\ ~panicked
  /\ adding = Idle
  /\ making.pc # "matrix"
  /\ making' = [pc |-> "matrix", opts |-> opts, cells |-> << >>]
  /\ UNCHANGED <<env, updateVars, txs, votes, peers, updating, adding,
                 panicked, arrived>>

\* The cell of the matrix that is computed next, row by row.
NextCell ==
  LET n == Len(txs.list)
      k == Len(making.cells)
  IN  <<txs.list[(k \div n) + 1], txs.list[(k % n) + 1]>>

MatrixIncomplete ==
  /\ ~panicked
  /\ making.pc = "matrix"
  /\ Len(making.cells) < Len(txs.list) * Len(txs.list)

\* Before panics for transactions with different labels, if there is a peer
\* to ask.
WouldPanic(h1, h2) == label[h1] # label[h2] /\ DOMAIN peers # {}

NewBlockCell(blocked) ==
  /\ MatrixIncomplete
  /\ LET h1 == NextCell[1]
         h2 == NextCell[2]
     IN  /\ ~WouldPanic(h1, h2)
         /\ \/ blocked = IsBlockedBy(h1, h2)
            \/ blocked /\ QuorumMaySlip(PeersBefore(h1, h2))
  /\ making' = [making EXCEPT !.cells = Append(@, blocked)]
  /\ UNCHANGED <<env, updateVars, txs, votes, peers, updating, adding,
                 panicked, arrived>>

NewBlockPanic ==
  /\ MatrixIncomplete
  /\ WouldPanic(NextCell[1], NextCell[2])
  /\ panicked' = TRUE
  /\ making' = Idle
  /\ UNCHANGED <<env, updateVars, txs, votes, peers, updating, adding,
                 arrived>>

NewBlockReturn ==
  LET n == Len(txs.list)
      matrix == [i \in 1..n |-> [j \in 1..n |-> making.cells[(i-1)*n + j]]]
  IN  /\ ~panicked
      /\ making.pc = "matrix"
      /\ Len(making.cells) = n * n
      /\ making' = [pc |-> "made", opts |-> making.opts,
                    block |-> NewBlock(matrix, txs.list, making.opts, Size)]
      /\ UNCHANGED <<env, updateVars, txs, votes, peers, updating, adding,
                     panicked, arrived>>

Next ==
  \/ \E vs \in env.validatorSets : UpdateValidators(vs)
  \/ UpdateQuorum
  \/ UpdatePeers
  \/ \E h \in TxHashes : AddTx(h)
  \/ \E v \in env.votes : AddVoteToPeer(v)
  \/ \E block \in env.blocks : CommitBlock(block)
  \/ \E block \in env.blocks : AddBlockRemove(block)
  \/ AddBlockCommit
  \/ \E opts \in env.options : NewBlockStart(opts)
  \/ \E blocked \in BOOLEAN : NewBlockCell(blocked)
  \/ NewBlockPanic
  \/ NewBlockReturn

Spec == Init /\ [][Next]_vars

-----------------------------------------------------------------------------
(* Abbreviations used by the properties.                                   *)

\* The peers are those of the validator set whose quorum is in force: no
\* update is under way and no outsider has voted.
ValidatorsInForce ==
  /\ quorum = QuorumOf(Len(validators))
  /\ DOMAIN peers \subseteq ToSet(validators)

CommitedSomewhere(h) ==
  \E id \in DOMAIN peers : h \in peers[id][label[h]].commitedHashes

\* Pairs of transactions that can be compared.
Pairs ==
  {p \in TxHashes \X TxHashes : p[1] # p[2] /\ label[p[1]] = label[p[2]]}

\* lastSeqSeen starts at 0, so that Seen takes vote 0 for received.  It is, or
\* id casts none with this label: its numbers start at 1.
FirstIsHere(id, l) ==
  \A v \in env.votes :
    /\ v.pubkey = id
    /\ label[v.txHash] = l
    /\ v.seq = 0
    => 0 \in SeqsIn(peers[id][l].votes)

\* The peers that have seen h, with all votes below it, and report it before g.
SeenBefore(h, g) ==
  {id \in PeersBefore(h, g) :
     Seen(peers[id][label[h]], h) /\ FirstIsHere(id, label[h])}

BothBefore(h1, h2) == ~IsBlockedBy(h1, h2) /\ ~IsBlockedBy(h2, h1)

-----------------------------------------------------------------------------
(* Properties                                                              *)

\* The index of the pending transactions stays in step with the list through
\* every Push and through the removal of blocks that repeat transactions or
\* name unknown ones (tx.go:66-117), and every vote a peer holds can be found
\* by its transaction (wendy.go:90-111).
IndexInStep ==
  /\ IndexMatchesList(txs)
  /\ \A id \in DOMAIN peers, l \in Labels :
       \A v \in ToSet(peers[id][l].votes) : VoteByTxHash(v.txHash) # {}

\* Two transactions never both have priority over the other: while the peers
\* are the validators, two quorums share a peer, and no peer reports both
\* before the other unless it holds both as committed (wendy.go:145-169).
OneOfTwoIsBlocked ==
  ValidatorsInForce =>
    \A p \in Pairs :
      BothBefore(p[1], p[2]) =>
        \E id \in DOMAIN peers :
          {p[1], p[2]} \subseteq peers[id][label[p[1]]].commitedHashes

\* "IsBlocked identifies if it is pssible that a so-far-unknown transaction
\* might be scheduled with priority to tx" (wendy.go:171).  A transaction that
\* is not blocked stays so; and once a quorum of peers has seen h, without a gap
\* below its votes, and reports it before g (as it does as long as nobody voted
\* for g), h is never blocked by g again, whatever votes arrive later and in
\* whatever order, numbered from 1 (reactor.go:50-55) or from 0
\* (simulation/node.go:87-89).  A gap may be hidden from Seen at 0 only, where
\* lastSeqSeen starts: hence FirstIsHere.  For votes that arrive in order, and
\* are all seen, this is "IsBlockedBy MUST be monotone" (wendy_test.go:55).
SeenPriorityIsFinal ==
  [][ quorum' = quorum /\ DOMAIN peers \subseteq DOMAIN peers' =>
        /\ \A h \in TxHashes : ~IsBlocked(h) => ~IsBlocked(h)'
        /\ \A p \in Pairs :
             hasQuorum(SeenBefore(p[1], p[2])) /\ ~CommitedSomewhere(p[2])'
             => hasQuorum(SeenBefore(p[1], p[2]))'
    ]_<<quorum, peers>>

\* A block made without limits holds all the pending transactions, as
\* TestNewBlock expects (wendy_test.go:235-245), although the matrix is read
\* cell by cell while votes arrive, each voter's in order (wendy.go:280-284).
BlockLeavesNothingOut ==
  [][ /\ env.inOrder
      /\ making.pc = "matrix" /\ making'.pc = "made"
      /\ making.opts = NoOptions
      /\ \A h \in TxHashes : ~CommitedSomewhere(h)
      => making'.block = txs.list
    ]_vars
=============================================================================
