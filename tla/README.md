# Wendy: a TLA+ verification project

Wendy orders transactions fairly: validators vote on the transactions they see,
each numbering its own votes; a transaction has priority over another one when
a quorum of validators voted for it first; a block must not hold a transaction
without those that may have priority over it. This project models the Go code of
the repository, checks the models with TLC on small instances, and proves with
TLAPS, for every instance, all the safety properties that the passing runs check:
those of a peer and that it implements an abstract log of votes, of Wendy, its
locks and the blocks it makes, of the simulated network, of both reactors, of the
mempool and of the life of a node. Paths are relative to `src/`.

## 1. Inventory

| Part | State | Operations | Module |
|---|---|---|---|
| Peer (`peer.go`, `types.go`, `utils/list`) | per label: a linked list of votes, `lastSeqSeen`, the committed hashes | `AddVote`, `AddVotes`, `Before`, `Seen`, `UpdateTxSet` | `Peer`, `PeerVoting` |
| Pending transactions (`tx.go`) | a list and an index of positions | `Push`, `RemoveByHash` | `Txs` |
| Block production (`wendy.go:197-326`) | none | `BlockingSet`, `recompute`, `NewBlockWithOptions` | `BlockingSet`, `BlockMaking` |
| Wendy (`wendy.go`) | validators, quorum, pending transactions, votes by transaction, peers | `UpdateValidatorSet`, `AddTx`, `AddVote(s)`, `IsBlockedBy`, `IsBlocked`, `AddBlock`, `CommitBlock`, `NewBlock` | `Wendy` |
| Locking of Wendy (`wendy.go`) | `txsMtx`, `peersMtx` | the same methods | `WendyLocks` |
| Wendy reactor (`tendermint/wendy/reactor.go`) | `txChan`, `seq`, a goroutine per peer | `OnNewTx`, `AddPeer`, `broadcastTxRoutine` | `WendyReactor` |
| Simulation (`simulation/node.go`) | per node: a Wendy, `seq`, `lastVote`, two channels; one WaitGroup | `AddTx`, `handleTx`, `handleVote`, `send`, `recvMsgs` | `Simulation` |
| Mempool (`tendermint/mempool/mempool.go`) | a list, a map, a cache, totals, recheck cursors, the signal to the consensus | `CheckTx`, callbacks, `Update`, `ReapMaxBytesMaxGas`, `ReapMaxTxs` | `Mempool`, `TxList` |
| Mempool reactor (`tendermint/mempool/reactor.go`) | IDs of peers, a goroutine per peer that walks along the mempool's list | `InitPeer`, `AddPeer`, `RemovePeer`, `Receive`, `broadcastTxRoutine` | `MempoolReactor`, `TxList` |
| Node (`tendermint/node/node.go`, `tendermint/main.go`) | what is on disk; flags computed in `NewNode`; the goroutine of a state sync | `NewNode`, `OnStart`, `startStateSync`, `OnStop` | `Node` |
| Application, wire format, crypto | | | not modelled (section 8) |

**How they interact.** Wendy calls its peers under `peersMtx`, and its list of
transactions under `txsMtx`. The simulation gives each node a Wendy and gossips
transactions and votes between them. In the Tendermint node the mempool's
notify function is `OnNewTx` of the Wendy reactor, which numbers a vote and
sends it; the receiving reactor only logs the vote, so that the node does not
yet feed it to a Wendy. The consensus calls the mempool's `Update` and
`ReapMaxBytesMaxGas` and waits on `TxsAvailable`; the application answers
`CheckTx` through callbacks. The mempool reactor walks along the mempool's list
while it changes, and gives the mempool what peers send. The node decides from
its stores which of state sync, fast sync and consensus starts, and hands over
from one to the next.

**What is hard.**

- Votes arrive in any order, several times and over several paths; the list of a
  peer is searched from its tail and is not always sorted.
- An error can come after a state change (`peer.go:94`).
- `UpdateValidatorSet`, `AddBlock` and `NewBlockWithOptions` are not one critical
  section each, and two fields are not protected at all.
- Several goroutines draw from one channel or counter (the reactor, the
  simulation).
- Limits are tested before a request and again when it is answered; rechecks
  match answers with the list by a cursor; the cache may forget what the list
  still holds; an application in the same process lets callbacks overlap.
- The list changes under the routines that walk along it, and IDs of peers
  are 16-bit numbers that wrap around.
- A process may end at any point of its start or of a state sync, and the next one
  has to cope with what it finds.

**What makes each part correct.** Peer: `lastSeqSeen` passes no gap, an honest
chain is never refused, `Before` follows the numbers, nothing that is seen is
unseen later. Block production: the closure is the transitive one, limits hold,
an unlimited block leaves nothing out. Wendy: of two transactions one is
blocked, priorities that rest on seen votes are final. Locks: no race but
one, no circular wait, every call returns. Wendy reactor: votes are unique, nothing is
held back. Simulation: the nodes end with one view, gossip ends.
Mempool: no panic, limits, the consensus is told, committed transactions stay
out. Mempool reactor: IDs are unambiguous and given back, no transaction is
skipped, routines return. Node: one of state sync, fast sync and consensus at a
time, a restart works, the stores never go back, the node ends up in the
consensus.

The hazards, each with its line and its properties, are listed in
`PROJECT.json`.

## 2. Modules

```
Peer ──── PeerVoting ──(refines)── VoteLog        Txs ── BlockingSet ── BlockMaking
  ├── Simulation                                             │
  └───────────────────────── Wendy ──────────────────────────┘
WendyLocks     WendyReactor     Mempool ──(refines)── TxList ── MempoolReactor
Node           SeqSums (the sum over a sequence: BlockMaking, Mempool)
```

The proofs about a module `M` are in `MProofs`, for `PeerVoting`, `Wendy` (with
`BlockMaking`), `WendyLocks`, `Simulation`, `Mempool`, `MempoolReactor` and `Node`
(with `WendyReactor`); `Lemmas` has what several of them use.

`MC*` modules give the constants their values for TLC. A definition marked
`Mutant:` is a plausible bug of the definition below it; no specification uses it.
Each is put in the place of that definition to see that the property is
violated.

### Peer, PeerVoting, VoteLog

`Peer` has the pure part: a bucket is a record of a sequence of votes (the
linked list, head first), `lastSeqSeen` and the committed hashes. `AddVote`
keeps the control of the code: the backward search for the last element that is
not above the new vote, the return for an equal number, the check of the
previous hash before and of the next hash *after* the insertion, the push to
the back when nothing was found, and the single pass that advances
`lastSeqSeen` (a recursive function over the positions). Hashes are injective:
the hash of a vote is the tuple of the digested fields. Times are equal for all
votes, they only enter the hash. `SeqsIn` and `NoGaps` say which numbers a bucket
has and that `lastSeqSeen` passes none that is missing.

`PeerVoting` is a bucket whose voter's votes arrive at will. A vote that is sent
again may be added again, so the list is bounded by `MaxLen` in the guards.
The voter is chosen in the initial state: an honest one, numbering from 0 or
from 1, or one that equivocates and breaks its chain. `VoteLog` is the abstract
peer: a set of votes that only grows, a number that only grows and has no gap
below it, and a growing set of committed transactions. `Log` in `PeerVoting` maps
the bucket to it, forgetting order and repetitions.

### Txs, BlockingSet, BlockMaking

`Txs` is the list and its index of positions. `BlockingSet` has `recompute` with
its shared visited set (`Visited` is one turn of its loop, `visit` a function of row,
column and set), the blockers as the code computes them (a prefix of the
pending list as long as the closure is large) and the two nested loops of
`NewBlockWithOptions` with their breaks. In `BlockMaking` the initial states choose a
matrix and options (`chosenMatrix`, `chosenOpts`) and the one action makes the block
from them.

### Wendy

One step per critical section. `UpdateValidatorSet` is three steps (validators,
quorum, peers), `AddBlock` two (remove under `txsMtx`, commit under `peersMtx`),
`NewBlockWithOptions` one per cell of the matrix. The guard `TxsUnlocked` and
the `adding`/`making` states stand for `txsMtx`. `hasQuorum` compares a counter with
`==` while `quorum` may be written; `NewBlockCell` allows the outcome `blocked`
when the quorum falls, during the count, to a value the counter has passed. `Before` panics on two labels; after
a panic nothing happens any more. `Wendy.AddVotes` is a sequence of `AddVote`
steps. The quorum `floor(n * 2/3) + 1` is computed in floating point; for
n = 3k the product rounds to exactly 2k, so it equals `(2n) div 3 + 1`.
The environment is a record the initial states choose: the voters and their
votes, whether votes arrive in order, the validator sets, the options of blocks.

### WendyLocks

A method is the sequence of its lock operations and field accesses, with
deferred unlocks last. `HonestParties` and `HonestMajority` only read, and are
modelled here. `sync.RWMutex` is external: a writer that waits keeps new
readers out. A data race is two goroutines that are about to access one field,
one of them for writing.

`Bucket` is a call of `Peer.bucket`: while some peer has no bucket for some label
(`missing`, after `UpdateValidatorSet` or `AddVote` has made a peer) it may have to
insert one (`InsertBucket`) into the map `buckets`, which queries share under a read
lock. The Go runtime ends the process when it notices two such accesses to a map
(`Abort`); it does not notice all of them, and an insertion may be lost. The other
modules read an absent bucket as an empty one, which is what `bucket` returns, and
leave this race to `WendyLocks`.

### WendyReactor

The goroutines of `OnNewTx` wait with their transactions on the unbuffered
channel; a broadcast routine is in one of four places (check, receive, number,
send). A peer may stop at any time, and what is sent to it is lost.

### Simulation

Messages in flight are a bag: each is a goroutine blocked on the receiver's
channel. `handleTx` is split at the accesses of `seq` and `lastVote`, which the
caller of `AddTx` and `recvMsgs` share without a lock. `wg.Wait` returns when
nothing is in flight or being handled.

### Mempool

Actions are `CheckTx`, the response of the application (global callback, then
the callback of the request), `Update` and the receive from `TxsAvailable`. The
map is the set of its keys, because the element it holds is always the last
one of that transaction in the list (`ElementOf`). Cursors are positions. The connection
answers in order; the consensus flushes it under `updateMtx` before it calls
`Update`, as Tendermint's `BlockExecutor.Commit` does. `txsAvailable` is
assumed to be enabled, as the node enables it if the consensus waits for
transactions (`WaitForTxs`, `tendermint/node/node.go:351`). The write-ahead log is left out:
it is written and never read.

With an application in the same process (`config.Local`), the client answers
inside `CheckTx`, under a read lock of `updateMtx` that several callers hold at
a time. The callback is then split where the callbacks of two callers can
interleave: the answer with the test of the limits, `addTx`, the read of
`notifiedTxsAvailable`, and the notification (`LocalAnswer`, `LocalAddTx`,
`LocalReadNotified`, `LocalNotify`).

### TxList, MempoolReactor

`TxList` is what the mempool promises those who walk along its list:
transactions come in at the end, those that stay keep their order, senders are
added. `Mempool` is checked and proved to implement it, and `MempoolReactor` changes its
list by the actions of `TxList` only; this is how the two are composed without
the product of their states.

`MempoolReactor` has the IDs (`FoundNext` is the search of `nextPeerID`, with
wrap-around), the switch that calls `InitPeer`, `AddPeer` and `RemovePeer`, the
calls of `Receive`, which look up the sender first and call `CheckTx` later, and
the routine, split at every place where it waits or where the list can change
between two reads: `WaitFront`, `TxsFront`, `CheckPeer`, `Send`, `WaitNext`,
`TakeNext`. A removed element keeps what it held and its link to the next one,
as in Tendermint's `clist`.

### Node

The stores (`disk`) outlive processes. A process is a record of the variables of
`NewNode` and a place: loaded, ready (after the handshake), created, switched
(the switch and its reactors run), up. `RunStateSync` starts the goroutine of
`startStateSync`, whose steps are those between which a process can end:
`Bootstrap`, `SaveSeenCommit`, `SwitchFromSync`. `Exit` may happen anywhere.
Tendermint's own parts are external: the reactors execute blocks (`SaveBlock`,
`ApplyBlock`, `FastSyncEnds`), the handshake replays a block that was saved and
not executed and takes over the validators of the application.

## 3. Runs

### Runs that pass

What differs between the instances of one component (the voter, the labels, the
network, the configuration of the mempool) is a variable that the initial states
choose, so that one run covers all of them.

| Run | Instance | Shows |
|---|---|---|
| `peer_voting` | an honest chain of 4 votes from number 1, one of 3 from number 0, and one of 3 with an equivocation and a broken link; the list grows up to 7 | `SeenHasNoGaps` and `ImplementsVoteLog` for every voter; `HonestVoteNeverFails`, `BeforeFollowsSeq`, `SeenAndBeforeAreStable` and `ExactWhenFirstCameFirst` for honest ones |
| `block_making` | all matrices of 4 transactions, with and without limits | `RecomputeIsClosure`, `LimitsHold`, `UnlimitedBlockIsWhole` |
| `wendy` | 2 voters that disagree on 2 transactions, one numbering from 1 and one from 0, updates between 2 validator sets, votes in any order, repeated and from anybody, blocks with repetitions; 4 validators of which one disagrees, votes in order, a block made meanwhile, with one label or two; one voter while the quorum falls and rises under a block that is made | `IndexInStep`, `OneOfTwoIsBlocked`, `SeenPriorityIsFinal` everywhere; `BlockLeavesNothingOut` where votes arrive in order |
| `wendy_locks` | 3 goroutines calling every method but `BlockingSet` and `NewBlockWithOptions` with `AddBlock` | `OnlyQueriesRace`, `LockOrder`, `EveryCallReturns` |
| `wendy_reactor` | 3 transactions, 3 peers, one of them unreliable | `VotesAreUnique`, `EveryTxIsNumbered` |
| `simulation` | 3 nodes in a line with 3 calls, 3 connected nodes with 2 calls, 2 nodes with 2 labels, 2 nodes with a source each and no waiting | `SameViewWhenQuiet`, `GossipEnds` everywhere; `NoVoteRefused` and `OrderOfCallsIsKept` where calls wait; `NotBlockedWhenQuiet` where they wait and have one label |
| `mempool` | 3 transactions, 2 heights; room for 2 and a cache that forgets nothing, with rechecks and without; room for 3 and a cache of 1; an application in the same process; two senders | `NeverPanics`, `LimitsHold`, `ConsensusIsTold`, `ReapIsLongestPrefix`, `ImplementsTxList` everywhere; `CommitedStayOut` where the cache forgets nothing |
| `mempool_reactor` | 4 connections of 2 peers with IDs up to 3; one peer and 3 transactions; a peer that lags; a peer that stops and comes back, and whose sends fail | `IDsAreUnambiguous`, `IDsAreGivenBack`, `RoutineReturns` everywhere; `NothingIsSkipped` and `EveryPeerGetsTx` until an ID is used again |
| `node` | 3 genesis documents, all combinations of state sync, fast sync and the validators of the application, 3 heights, 3 processes that end | `OneAtATime`, `PanicsOnlyAfterLostCommit`, `MempoolFollowsState`, `StoresNeverGoBack`, and `TakesPart` where the state sync does not fail |

### Runs that show a disagreement

Each checks what a comment of the repository says; the findings of
`PROJECT.json` quote the lines.

| Run | What happens |
|---|---|
| `peer_duplicate` | votes 2, 1, 2: the second 2 is added again and reported as new |
| `locks_buckets` | after an update of the validators two calls of `IsBlockedBy` insert buckets into the map of one peer at the same time, under a read lock |
| `locks_add_block` | `NewBlockWithOptions` with `AddBlock` waits for itself |

### Other disagreements met while modelling

These are not runs; they are why some properties above have a premise. Each can be
seen by dropping that premise or stating what the quoted comment says.

- `peer.go:57`, `LastSeqSeen`: after votes 2 and 1 it is 1, because the loop starts
  at the vote that was pushed to the back. Hence `FirstCameFirst` in
  `ExactWhenFirstCameFirst`.
- `peer.go:146` says that `Before` is false if one of the transactions is not
  seen; it is true if the first one has a vote and the second one has none
  (`peer.go:183`). It turns false when a vote with a lower number arrives for the
  second one, unless the first one is seen: hence the premise on `g` and `h` in
  `SeenAndBeforeAreStable`, and `SeenBefore` in `SeenPriorityIsFinal`.
- `peer.go:191`, `Seen`: `lastSeqSeen` starts at 0, so that a voter that numbers
  from 0 (`simulation/node.go:89`) has vote 1 seen while vote 0 is missing. A
  transaction that counts as seen may then lose its priority again. Hence `0 \in Seqs`
  in `SeenAndBeforeAreStable` and `FirstIsHere` in `SeenPriorityIsFinal`; without
  either TLC finds this.
- `wendy.go:271`: "BlockingSet returns a list of blocking Txs for all the currently
  seen Txs." `for txIndex := range keys` (`wendy.go:298`) ranges over the positions
  of the keys, so that the list is a prefix of the pending transactions and not the
  dependencies. `BlockMakingBlockers.cfg`, with `MCBlockMaking`, has TLC find this
  as a violation of `BlockersAreDependencies`.
- `peer.go:94`: a vote refused for the hash of its next neighbour stays in the
  list, and `lastSeqSeen` passes over it.
- `wendy.go:203-207`, `MaxBlockSize`: the size of a transaction is counted once for
  every blocking set it occurs in, so that blocks stay smaller than they may be.
- `wendy_test.go:55`, "IsBlockedBy MUST be monotone": it is not when the votes of a
  voter arrive out of order.
- `wendy.go:13` says that "Invoking Wendy methods is thread safe", but
  `UpdateValidatorSet` writes the quorum before it changes the peers
  (`wendy.go:42-58`): in between a new, lower quorum counts the old peers, and two
  transactions may each have priority over the other.
- `wendy.go:280-284`: when votes arrive out of order, a vote between two cells of
  the matrix can leave neither of two transactions blocked by the other, and an
  unlimited block then leaves one out. So can the votes of voters without a seat,
  even in order: with one validator one vote is a quorum, and two voters that
  disagree then have one each. Hence `VotersStay` in the theorem on
  `BlockLeavesNothingOut`.
- `wendy.go:38`: peers that are no validators are removed by an update, but
  `AddVote` creates them again for any voter, and their votes count. Hence
  `ValidatorsInForce` in `OneOfTwoIsBlocked`.
- `wendy.go:282`: with pending transactions of two labels `NewBlock` panics
  (`NewBlockPanic`).
- `wendy.go:181-182`: a transaction of an added block that arrives again is pending
  again. `wendy.go:122-123`: `CommitBlock` removes nothing from the pending ones.
- `wendy.go:64-76`: `HonestParties` returns the quorum and not t + 1,
  `HonestMajority` n minus the quorum and not n - t.
- `wendy.go:40-45, 273`: `validators` and `quorum` are written without a lock, and the
  exported `BlockingSet` reads the transactions without one. Hence
  `ProtectedFields` and `MostMethods` in the run `wendy_locks`.
- `peer.go:30` says that peers are not safe for concurrent access, and queries access
  them concurrently: besides the map of buckets (`locks_buckets`) nothing is written
  in a query, which `OnlyQueriesRace` states.
- `tendermint/wendy/reactor.go:73`: the routines of all peers receive from one
  channel, so that a vote is sent to one peer and not to every one
  (`docs/flow.html:105`).
- `simulation/node.go:88`: one counter numbers the votes of all labels, `Seen` wants
  consecutive numbers within one; with two labels in turn, transactions stay
  blocked.
- `tendermint/mempool/mempool.go:612-623`: a pending transaction that the cache
  forgot is added again, and `Update` removes one of the two.
- `tendermint/mempool/mempool.go:143-144, 426`: the notify function runs before the
  limits are tested again, so that a transaction may be voted on and then refused.
- `tendermint/mempool/mempool.go:432`: with an application in the same process all
  callers of `CheckTx` may pass the test of the limits before one of them adds, so
  that the mempool exceeds its limits by one transaction less than there are
  callers. Hence the `excess` in `LimitsHold`.
- `tendermint/mempool/mempool.go:44`: "fires once for each height". Callers that
  overlap may both find `notifiedTxsAvailable` false and both send, the second one
  after the consensus has received the first signal. Hence `ConsensusIsTold` is about
  at least one signal.
- `tendermint/mempool/mempool.go:577`: `ReapMaxTxs` returns up to max + 1
  transactions, which `ReapIsLongestPrefix` states.
- `tendermint/mempool/mempool.go:269`: `CheckTx` tests `mem.wal` and then uses it,
  while `OnStop` closes the log before the RPC listeners are closed.
- `tendermint/mempool/reactor.go:245`: transactions remember the IDs of their
  senders. After 65535 reservations IDs are used again, and a peer that gets the ID
  of another one is not sent that one's transactions. Hence `NoIDReused`.
- `tendermint/mempool/reactor.go:62`: a peer that fails to start after `InitPeer` is
  never removed, its ID is lost; 65534 of them make `nextPeerID` panic. Hence
  `Failed` in `IDsAreGivenBack`.
- `tendermint/node/node.go:608-617`: a process that ends between `Bootstrap` and
  `SaveSeenCommit` leaves a state whose commit is missing; the next one skips
  state sync because of the state's height, and panics, as does every one after
  it. Hence `lostCommit`.
- `tendermint/node/node.go:605`: a failed state sync is logged and nothing more; the
  node waits for ever. Hence the premise of `TakesPart`.
- `tendermint/node/node.go:629`: `OnStop` does not stop the goroutine of a state sync,
  which may start fast sync or the consensus of a stopped node.
- `tendermint/node/node.go:579`: "startStateSync starts an asynchronous state sync
  process, then switches to fast sync mode"; with fast sync disabled it switches
  to the consensus.
- `tendermint/node/node.go:726`: after a state sync the mempool is at the height of the
  genesis until the first block. Hence the second case of `MempoolFollowsState`.
- `tendermint/node/node.go:694-698`: whether to state sync is decided before the
  handshake. A genesis that names nobody and an application that names only this
  node would, with state sync enabled, wait for a chain that no other node has;
  `MCNode` leaves this combination out.

In the run `wendy` voters without a seat may vote, and updates may be half done;
`OneOfTwoIsBlocked` speaks of the moments at which the peers are validators and
the quorum is theirs.

### Bounds and why they are enough

- *Votes.* A list misbehaves only once a lower vote was pushed behind higher ones
  and a vote is repeated; with four numbers and a list of seven every vote can be
  below, between and above others and be repeated. `MaxLen` cuts off lists that
  hold yet more repetitions.
- *Validators.* Four is the smallest number with a quorum (3) that tolerates a
  disagreeing validator; updates between one and two validators already change
  the quorum and remove a peer.
- *Transactions.* Priorities are between two transactions, so two are enough for
  Wendy; the closure of the matrix is checked with four, which has chains and
  cycles of every length up to four.
- *Goroutines.* Three: a holder, a waiting writer and a reader behind it. A race
  is between two.
- *Mempool.* A full list, an eviction, a recheck that removes the first, the last
  or all elements, a block that repeats a transaction, and a second height. At
  most two requests are under way, which is what callbacks need to overlap.
- *Mempool reactor.* With IDs up to 3 four reservations wrap around, meet IDs in
  use, given back and lost, and use up all of them; an element at the front, in
  the middle and at the end of three is removed while a routine stands at it.
- *Node.* Three processes that end: one during a state sync, one during a block,
  and one after those; three heights tell the genesis, a synced state and the
  blocks after it apart.
- *Simulation.* Three nodes are the smallest network with a node that passes
  messages on and with a cycle.

No symmetry is used.

`CHECK_DEADLOCK FALSE` is set where the system stops: after a panic (`wendy` with
two labels, `mempool_reactor`), when all transactions are voted for
(`wendy_reactor`) or sent (`mempool_reactor`), when the script of the test is done
(`simulation`), when a node waits for ever or the last height is reached (`node`),
when the runtime ends the process (`wendy_locks`, `locks_buckets`; that no goroutine
waits for ever is `EveryCallReturns`), and in `locks_add_block`, whose finding is a
call that waits for itself. Everywhere else deadlock is checked.

## 4. Fairness

- `WendyLocks`: strong fairness for each goroutine's steps. A goroutine that wants a
  mutex that is free again and again gets it: a starving waiter of `sync.Mutex` is
  handed the mutex, and a writer that unlocks an `RWMutex` lets the waiting
  readers in. Nothing obliges a goroutine to call a method, nor the runtime to notice
  a race: if it does, all calls end with the process, and `EveryCallReturns` counts
  them as returned.
- `WendyReactor`: weak fairness for each broadcast routine (the Go scheduler) and
  for the connection of each reliable peer. `EveryTxIsNumbered` needs one peer that
  stays; peers that stop are unconstrained.
- `Simulation`: weak fairness for the goroutine of the test and for each `recvMsgs`.
- `MempoolReactor`: weak fairness for the steps of each routine and for a peer that
  follows the chain, strong fairness for a `Send` that succeeds: a connection whose
  queue stays full for ever is not one that runs. Nothing obliges peers to
  connect, stop or send, nor the mempool to change.
- `Node`: weak fairness for the start of a process, for the goroutine of a state sync
  (which ends, one way or the other), for a block that was saved and for fast sync
  that has caught up. Nothing obliges anybody to start, stop or kill a process, or
  to make blocks; a process that is not up is started because an operator does,
  and `TakesPart` only speaks of processes that are up.

## 5. Proofs

Each module of proofs has an inductive invariant, a lemma that the initial states
satisfy it, one that every action keeps it, and theorems that follow from it by
PTL. The theorems hold for every value of the constants that satisfies the
assumptions named here, all of which hold on the instances of the runs, where TLC
evaluates them. The loops of the code are recursive functions; what
they compute is shown by the least step at which it would fail (`LeastExists`),
which takes the place of an induction.

`Lemmas` has what the library lacks: least and greatest elements of sets of
naturals, the elements of `InsertAt` and `RemoveAt`, and what `AddVote`,
`AddVotes`, `Before` and `Seen` do to and say of a bucket, which `PeerVotingProofs`,
`WendyProofs` and `SimulationProofs` share, and what appending, removing and replacing
an element does to a sum.

### Peer (`PeerVotingProofs`)

For every set of voters, honest or not, every set of transactions and every bound:

- `Typing`: `Spec => []TypeOK`;
- `NoGapBelowLastSeqSeen`: `Spec => []SeenHasNoGaps`, that every number from 1 to
  `lastSeqSeen` was received;
- `ListImplementsLog`: `Spec => ImplementsVoteLog`, that the list refines
  `VoteLog`;
- `HonestVotesAreAccepted` (`HonestVoteNeverFails`), `BeforeIsByNumber`
  (`BeforeFollowsSeq`), `LastSeqSeenIsExact` (`ExactWhenFirstCameFirst`) and the
  action property `SeenAndBeforeStay` (`SeenAndBeforeAreStable`), which speak of
  honest voters. The last one says that `Before(h, g)` stays if `g` has a vote, or if
  `h` is seen and the voter numbers from 1 or its vote 0 is there; where `h` is not
  seen and `g` has no vote it claims nothing, because there `Before` does turn false.

They rest on `VotersAssumption`: votes are numbered from the voter's first number.
`MaxLenAssumption` is not needed.

The invariant `Inv` says that the bucket has its type, that `lastSeqSeen` passes no
gap, and, for an honest voter, that the last call did not fail and that
`ExactFrom` holds: while the list is empty or begins with the first vote, its
numbers rise and `lastSeqSeen` is the last consecutive one. That the list holds votes is needed
for the loop to compute a number, that the old value covers no gap for the new
one to cover none. The argument:

1. A function with the equations of the loop `seen[i]` of `AdvanceSeen` exists for
   every length, and every number between the old and the new value is the number
   of an element.
2. An insertion keeps every element (`Keeps`, `KeepsSeqs`).
3. Every branch of `AddVote`, the error after the insertion included, and a batch
   that stops at an error, are `Good`: they leave a bucket that holds what it held,
   whose `lastSeqSeen` has not fallen and passes no gap.
4. In a list of linked votes the neighbours of the place of a new one either have
   not its neighbouring numbers or the right hashes, so that `AddVote` fails for no
   honest vote.
5. Refinement: by `Good`, a call that returns is a `Register` of the log or a
   stutter, and `UpdateTxSet` is a `Commit` (`StepCases`).

### Wendy (`WendyProofs`)

For any number of validators, any updates of them, any votes and blocks:

- `OneOfTwoHasNoPriority`: `Spec => []OneOfTwoIsBlocked`;
- `SeenPriorityStays`: `NumbersAreClear` implies `Spec => SeenPriorityIsFinal`;
- `IndexStaysInStep`: `VotesAreLinked` implies `Spec => []IndexInStep`;
- `BlocksLeaveNothingOut`: `VotersStay` implies `Spec => BlockLeavesNothingOut`.

The first one is about the moments of `ValidatorsInForce`: the quorum is that of the
current validators, and all peers are among them.

`WendyAssumption` types the environments. `NumbersAreClear` says that voters give a
number of a label to one transaction only; without it a vote may still arrive with a
number that counts as seen already, and take from a transaction the priority it had.
Voters may number from 1, as the reactor does, or from 0, as the simulation does:
`SeenPriorityIsFinal` counts a peer that numbers from 0 once its vote 0 is there
(`FirstIsHere`). `VotesAreLinked` says that a vote links to the one before it; without
it a vote that is refused after its insertion stays in the list and is registered
nowhere (`peer.go:94`). `VotersStay` says that where votes arrive in order, somebody
votes and whoever votes is among the validators of every update; the other
validators come and go. `MCWendy` assumes all three, so that TLC evaluates them.

`TypeOK` has the type of every peer's buckets, and that they have no gaps; it is
inductive on its own, because each action leaves each bucket as it is, adds a vote
of that peer and label to it, or commits (`PeersStep`). The first theorem follows
from it: while the validators are in force two quorums among the peers share a peer
(`FS_MajoritiesIntersect` of the library), and `Before` of one bucket is asymmetric
unless both transactions are committed. The second one: a step loses neither
what a peer has seen nor what it has before something it has seen, and the peers
that give priority can only become more. The third one needs `TxsOK`, that list and
index agree, through the loop of removals, and `VotesOK`, that every vote of a
bucket is registered by its transaction.

The last one is about a matrix whose cells are read in different states. `BlockInv`
says that a cell that found no block is still true: more than half of all voters
have the one transaction before the other (`MostBefore` in `CellsOK`). A quorum is
more than half of the voters whatever update it comes from, the one that is under
way included, because no update has fewer validators than there are voters; and
in-order votes only arrive behind what they follow (`ArrivedOK`), so that what a peer
has before another transaction stays so. `VotersOK`, that a voter's peer holds what any
peer holds as committed, is needed because the removal of a peer may forget commits:
what is not committed when the block is made was not committed at an earlier cell.
Two majorities of the voters meet, so that of two transactions one is blocked in the
matrix, and `NewBlockIsWhole` (below) says that the block is the list.

Of the pure part of block production, for any pending transactions, sizes, options
and matrices (`BlockMakingAssumption`):

- `SearchFindsTheClosure`: `BlockSpec => []RecomputeIsClosure`;
- `BlockKeepsToLimits`: `BlockSpec => []LimitsHold`;
- `UnlimitedBlockLeavesNothingOut`: `BlockSpec => UnlimitedBlockIsWhole`.

`visit` is a function because every call leaves less to do (`Left`: columns that are
not visited, then the rest of the row), which is also what the least call that would
return something wrong is chosen by. `VisitOK` is what a call returns: it keeps what
was visited, adds to it whatever blocks what it adds, and nothing that a closed set
with the row would not have; with an empty set it is the closure
(`RecomputeIsTheClosure`). The blockers that are pushed are a prefix of the list
(`BlockersArePrefix`); where of each two transactions one is blocked by the other, one
transaction depends on all of them (`OneDependsOnAll`), so that its prefix is the
list (`NewBlockIsWhole`). `PushTurnWithin` shows that each turn of the loops keeps to
the limits: the running size counts every transaction of the block at least once.

### Locks (`WendyLocksProofs`)

`OnlyQueriesRaceForBuckets` and `LocksAreOrdered`: for any number of goroutines that
call methods of `MostMethods`, all but `BlockingSet` and `NewBlockWithOptions` with
`AddBlock`, `Spec => []OnlyQueriesRace` and `Spec => []LockOrder`. The run `wendy_locks`
calls all of these methods. `NoDataRace`, which leaves no race out, is false
(`locks_buckets`).

What a goroutine holds is its mode. `Runs(a, s, b)` says that the code `s`, started
in mode `a`, accesses fields under the mutexes that protect them, but for the buckets
a query inserts, takes mutexes in order and ends in mode `b`. `CodeInv` says that what
each goroutine has yet to do runs from what it holds to holding nothing; `MutexInv` is what `sync.RWMutex`
guarantees. That each method runs from nothing to nothing is shown once for its
code; a step of a goroutine takes the first operation off.

### Wendy reactor (`NodeProofs`)

`VotesStayUnique`: `ReactorSpec => []VotesAreUnique`, for any number of peers and
transactions. The invariant `VotesInv` adds `VotesAreDrawn` (a vote, received or about to be
sent, has a number that was drawn and a transaction that left the channel) and
`HeldByOne` (a transaction that a routine is about to number has no vote yet, and no
other routine holds it).

### Simulation (`SimulationProofs`)

For any connected networks, labels and scripts of calls that add no transaction twice,
as those of the tests are (`SimulationAssumption`):

- `SameViews`: `Spec => []SameViewWhenQuiet`;
- `NoneIsRefused`: `Spec => []NoVoteRefused`;
- `CallsAreInOrder`: `Spec => []OrderOfCallsIsKept`;
- `CallsAreNotBlocked`: `Spec => []NotBlockedWhenQuiet`.

`GossipingInv` is the invariant of the first one, for calls that wait or not.
`KnownInv` says that a node that knows a transaction has told each of its peers: they
know it or a message to them is under way. `GossipInv` says the same of votes, and
that every vote anybody holds is held by its voter, as long as none was refused;
`NumbersInv` that goroutines which share a counter draw different numbers, without
which a second vote with the same number would be dropped as a duplicate and never
passed on. Nothing under way then means that what one node has, its peers have,
and the network is connected.

The other three are about calls that wait for each other. `WaitInv` says what one
call leaves to the next: all nodes know the earlier transactions (`EarlierKnown`) and
hold the votes of all nodes for them (`VotesTell`), messages are about the last call
(`MsgsTell`), each node is worked on by one goroutine (`HandlersTell`) and has drawn a
number and a link for each call it is done with (`CountersTell`). So the votes of all
nodes are the same chain but for the voter, and each links to the one before it,
which is why none is refused and why the numbers order the calls. With one label the
votes of a voter arrive one after the other (`OrderInv`), so that all of them are seen.

### Mempool (`MempoolProofs`)

For any transactions, blocks and configurations, over a socket or with an
application in the same process:

- `CallbacksNeverPanic`: `Spec => []NeverPanics`;
- `TheConsensusIsTold`: `Spec => []ConsensusIsTold`;
- `CommitedTxsStayOut`: `Spec => []CommitedStayOut`;
- `LimitsAreKept`: `Spec => []LimitsHold`;
- `LongestPrefixIsReaped`: `Spec => []ReapIsLongestPrefix`;
- `ListIsKeptForWalkers`: `Spec => ImplementsTxList`, the refinement of `TxList`.

They rest on `MempoolAssumption`: finitely many transactions with a size, blocks of
them, and at least one caller.

`Safe` is the invariant of the first two. `RecheckOK` ties the requests to the list:
while rechecks are under way they are the first requests, one for each element
from the cursor to the end, in order, and a local application has no others; this
is why an answer finds its element, and why a later `CheckTx` is not taken for a
recheck. `CallersOK` says that nothing is removed while a caller has yet to tell of
the transaction it added; `ToldOK` that the consensus was told, or finds the signal,
or a caller is about to send it.

`OnceInv` adds, where the cache has room for all transactions, that the cache and
the list have none twice, that the cache has all transactions that are in the
list, asked for or committed, and that the requests ask for different ones that
are neither in the list nor committed. `CommitedStayOut` alone is not inductive: a
request that was under way could add what a block has committed.

`LimitInv` adds that the total is the sum of the sizes in the list, and, with an
application in the same process, that the list *together with what callers that
passed the test are about to add* is within the limits and the excess. When a
caller passes the test, the others number one less than `MaxPending` at most and
each has at most `MaxTxBytes`; from then on adding moves a transaction from one
side of the sum to the other. Lemmas on `Sum` show what appending, removing and
replacing an element does to it.

What is reaped is a property of the loop alone. `ReapTx` is its turn: at each one
the sums of what was taken are those of a prefix of the list, and they are within the
limits; at the turn at which it stops, they would not be with one more transaction.

For the refinement, `Changes` says what a step of `TxList` may make of a list: an
element with one sender is appended, some elements stay in their order (`Stays`, with
the increasing function that gives the place each had before), or a sender is added.
Each action changes the list so or leaves it alone. A block takes several elements at
once: `Stays` is transitive (`StaysTwice`), which carries it along the loop of
`Update`. `Safe` is needed for the answers to rechecks and for the element of a
transaction in the map: the place they remove, or add a sender to, must be one of the
list.

### Mempool reactor (`MempoolReactorProofs`)

For every `MaxUint`, any peers, connections and transactions (`ReactorAssumption`):

- `UnambiguousIDs`: `Spec => []IDsAreUnambiguous`;
- `NoIDLeaks`: `Spec => []IDsAreGivenBack`;
- `NoTxIsSkipped`: `Spec => []NothingIsSkipped`.

`BaseInv` has `PeersInv` (an ID in the map is in use, and by one peer), `ConnsInv` (a
connection's peer has an ID as long as it is connected, and its routine uses that
one), `ListInv` (transactions are numbered as they come in, and none that is pending
is between a removed one and the one it links to) and `PlaceInv`. It gives the first
theorem; `CountInv` counts the IDs in use for the second one. For the third one
`SkipInv` says, until an ID is used again, that IDs are handed out in order
(`FreshInv`), that a sender with the ID of a peer is that peer (`SendersInv`), and
that what a routine has passed was sent or came from its peer (`WalkInv`). That a
removed element still leads to the next one is what keeps `WalkInv` when the list
changes under a routine.

### Node (`NodeProofs`)

For every set of genesis documents, keys and configurations, every number of
heights and of processes that end:

- `OneWorksAtATime`: `Spec => []OneAtATime`;
- `OnlyLostCommitsPanic`: `Spec => []PanicsOnlyAfterLostCommit`;
- `MempoolIsInStep`: `Spec => []MempoolFollowsState`;
- `StoresOnlyAdvance`: `Spec => StoresNeverGoBack`, an action property.

They rest on `NodeAssumption`, the types of the constants. The three invariants are
not inductive: what a process does depends on flags that were computed from a state
loaded earlier. `Inv` adds what ties them together: `DiskInv` (a saved block has
its commit, and so has the last executed one, unless it is still to be saved or was
lost), `ProcInv` (what `NewNode` and `OnStart` know of the stores at each place: the
state in memory is the one on disk unless the node will state sync, in which case
there is none), `ReactorsInv` (reactors run only once the switch runs, on a state
with a height) and `SyncInv` (the goroutine works on a node that will state sync, on
stores that nobody else writes). The handshake and `CreateReactors` need the case
split on state sync.

### Only model-checked

The liveness properties (`EveryCallReturns`, `EveryTxIsNumbered`, `GossipEnds`,
`RoutineReturns`, `EveryPeerGetsTx`, `TakesPart`): fairness and ENABLED are out of the
prover's reach. Every invariant and every action property of a passing run is proved.

## 6. Running it

`tlc -config <cfg> <module>` for the pairs in `PROJECT.json`, `tlapm <module>.tla` for
`Lemmas` and the seven modules of proofs. `MempoolProofs`, `SimulationProofs` and
`WendyProofs` take several minutes each, the others less.

## 7. Plan

Done: peer, block production, Wendy, its locks, the reactor, the simulation, the
mempool with both kinds of application, its reactor, and the life of a node;
34 theorems, which state all but the six liveness properties of the 40 the passing
runs check.

Extensions of the model that are left: `Mempool` and `WendyReactor` joined through the
notify function (the receiving side only logs votes, so that little would follow
from it), and topologies of the simulation in which a vote that was added twice is
passed on twice.

## 8. Not modelled

- `tendermint/node`, in part: the RPC, gRPC, pprof and Prometheus servers, the address
  book, the transport, the indexer and the options of `NewNode` are created and
  started, and keep no state the decisions depend on. That the event bus is stopped
  before the switch, so that the last blocks may not be indexed, is not modelled
  either.
- `tendermint/mempool/mempool.go`, in part: `Flush` ("unsafe", a debugging call of the
  RPC), `RemoveTxByKey`, which nothing calls, and the write-ahead log, which
  nothing reads.
- `tendermint/mempool`, two options: `config.Broadcast` set to false
  (`tendermint/mempool/reactor.go:157`), with which no broadcast routine is started,
  and a mempool without `EnableTxsAvailable`, which tells the consensus nothing.
- `tendermint/app`: an application that accepts everything. The application of
  `Mempool` answers at will. The command line of `tendermint/main.go`.
- `proto/`: generated marshalling.
- `crypto.go`, `sha256.go`: calls of libraries. No code on a modelled path
  verifies a signature.
- Logging, metrics and debug output.
