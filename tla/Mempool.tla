------------------------------ MODULE Mempool -------------------------------
(***************************************************************************)
(* The mempool of the Tendermint node (tendermint/mempool/mempool.go) as   *)
(* it works with the application, the consensus and the Wendy reactor.     *)
(*                                                                         *)
(* The connection to the application is external.  Over a socket, requests *)
(* are answered in order, and the callbacks of a response run before those *)
(* of the next one.  An application in the same process, as main.go has    *)
(* it, answers inside CheckTxAsync: the callback of a request then runs in *)
(* the goroutine that called CheckTx, and those of several callers         *)
(* overlap, while rechecks are answered before Update returns.  The        *)
(* application, the pre- and the post-check accept or reject at will.  The *)
(* consensus holds updateMtx while it flushes the connection and calls     *)
(* Update, so that nothing but responses happens in between.               *)
(*                                                                         *)
(* mem holds the fields of the mempool.  txs is the list of mempoolTx.     *)
(* txsMap is the set of keys of the map: the element of a key is the last  *)
(* one with this transaction in the list.  recheckCursor and recheckEnd    *)
(* are positions of the list, 0 for nil.  The cache is a sequence, the     *)
(* least recently used transaction first.  The write-ahead log is left     *)
(* out: it is never read.                                                  *)
(***************************************************************************)
EXTENDS Integers, Sequences, FiniteSets, SequencesExt, SeqSums

CONSTANTS
  Txs,            \* the transactions, each standing for its key
  TxSize,         \* the length in bytes of each of them
  GasWanted,      \* the gas each of them asks for
  Blocks,         \* the blocks: sequences of [tx, ok], ok if DeliverTx was OK
  Configs,        \* the configurations: records of Size, MaxTxsBytes,
                  \* MaxTxBytes, CacheSize, Recheck, KeepInvalidTxsInCache,
                  \* Local for an application in the same process, and the
                  \* peer IDs transactions come from as Senders
  MaxHeight,      \* bound: the height of the last block
  ReapLimits,     \* limits [maxBytes, maxGas] the consensus reaps with
  MaxPending      \* bound: requests that are not answered, or callers of a
                  \* local application that have not returned

ASSUME MempoolAssumption ==
  /\ IsFiniteSet(Txs)
  /\ \A tx \in Txs : TxSize[tx] \in Nat \ {0} /\ GasWanted[tx] \in Nat
  /\ Configs \subseteq [Size : Nat, MaxTxsBytes : Nat, MaxTxBytes : Nat,
                         CacheSize : Nat, Recheck : BOOLEAN,
                         KeepInvalidTxsInCache : BOOLEAN, Local : BOOLEAN,
                         Senders : SUBSET Nat]
  /\ Blocks \subseteq Seq([tx : Txs, ok : BOOLEAN])
  /\ MaxHeight \in Nat /\ MaxPending \in Nat \ {0}
  /\ ReapLimits \subseteq [maxBytes : Int, maxGas : Int]

VARIABLES
  config,     \* the configuration, chosen once
  mem,        \* the fields of the Mempool
  requests,   \* the requests that are under way, in order
  commited,   \* history: transactions whose last commit was a success
  told        \* whether the consensus received from TxsAvailable since Update

vars == <<config, mem, requests, commited, told>>

New ==
  [txs |-> << >>, txsMap |-> {}, txsBytes |-> 0, cache |-> << >>,
   height |-> 0, recheckCursor |-> 0, recheckEnd |-> 0,
   notifiedTxsAvailable |-> FALSE, txsAvailable |-> 0, panicked |-> FALSE]

Init ==
  /\ config \in Configs
  /\ mem = New
  /\ requests = << >>
  /\ commited = {}
  /\ told = FALSE

-----------------------------------------------------------------------------
(* The cache of seen transactions                                          *)

CacheRemove(cache, tx) == RemoveFirst(cache, tx)

\* A transaction that is in the cache becomes the most recently used one; a
\* new one takes the place of the least recently used one when it is full.
CachePush(cache, tx) ==
  IF config.CacheSize = 0 THEN cache
  ELSE IF tx \in ToSet(cache) THEN Append(CacheRemove(cache, tx), tx)
  ELSE IF Len(cache) >= config.CacheSize THEN Append(Tail(cache), tx)
  ELSE Append(cache, tx)

-----------------------------------------------------------------------------
(* The list of transactions                                                *)

Panic(m) == [m EXCEPT !.panicked = TRUE]

\* The element that txsMap holds for a transaction.
ElementOf(m, tx) == SelectLastInSeq(m.txs, LAMBDA e : e.tx = tx)

isFull(m, tx) ==
  \/ Len(m.txs) >= config.Size
  \/ TxSize[tx] + m.txsBytes > config.MaxTxsBytes

\* Mutant: a new transaction is put in front.
addTxInFront(m, tx, sender) ==
  [m EXCEPT !.txs = <<[tx |-> tx, height |-> m.height,
                       senders |-> {sender}]>> \o @,
            !.txsMap = @ \cup {tx},
            !.txsBytes = @ + TxSize[tx]]

addTx(m, tx, sender) ==
  [m EXCEPT !.txs = Append(@, [tx |-> tx, height |-> m.height,
                               senders |-> {sender}]),
            !.txsMap = @ \cup {tx},
            !.txsBytes = @ + TxSize[tx]]

removeTx(m, pos, removeFromCache) ==
  LET tx == m.txs[pos].tx
  IN  [m EXCEPT !.txs = RemoveAt(@, pos),
                !.txsMap = @ \ {tx},
                !.txsBytes = @ - TxSize[tx],
                !.cache = IF removeFromCache THEN CacheRemove(@, tx) ELSE @]

\* The channel has room for one signal.
notifyTxsAvailable(m) ==
  IF m.txs = << >> THEN Panic(m)
  ELSE [m EXCEPT !.notifiedTxsAvailable = TRUE,
                 !.txsAvailable = IF m.notifiedTxsAvailable THEN @ ELSE 1]

-----------------------------------------------------------------------------
(* CheckTx and the callbacks of its responses                              *)

\* The sender of a transaction that is still in the mempool is recorded.
RecordSender(m, tx, sender) ==
  IF tx \notin m.txsMap THEN m
  ELSE [m EXCEPT !.txs[ElementOf(m, tx)].senders = @ \cup {sender}]

\* A local application is being asked again inside Update.
LocalRecheck == config.Local /\ mem.recheckCursor # 0

\* CheckTx beyond its early returns.
CheckTx(tx, sender) ==
  LET cached == config.CacheSize > 0 /\ tx \in ToSet(mem.cache)
      pushed == [mem EXCEPT !.cache = CachePush(@, tx)]
  IN  /\ ~mem.panicked
      /\ ~LocalRecheck
      /\ ~isFull(mem, tx)
      /\ TxSize[tx] <= config.MaxTxBytes
      /\ IF cached
         THEN /\ mem' = RecordSender(pushed, tx, sender)
              /\ UNCHANGED requests
         ELSE /\ Len(requests) < MaxPending
              /\ mem' = pushed
              /\ requests' = Append(requests, [recheck |-> FALSE, tx |-> tx,
                                               sender |-> sender,
                                               stage |-> "asked"])
      /\ UNCHANGED <<config, commited, told>>

\* When CheckTx returns an error before it comes to the cache, it leaves
\* everything as it is; so do the errors of the pre-check, the log and the
\* connection.
CheckTxError(tx) ==
  /\ ~mem.panicked
  /\ ~LocalRecheck
  /\ isFull(mem, tx) \/ TxSize[tx] > config.MaxTxBytes
  /\ UNCHANGED vars

\* Mutant: the limits are not tested again.
resCbFirstTimeUnchecked(m, req, valid) ==
  IF valid THEN notifyTxsAvailable(addTx(m, req.tx, req.sender))
  ELSE [m EXCEPT !.cache = IF config.KeepInvalidTxsInCache THEN @
                           ELSE CacheRemove(@, req.tx)]

resCbFirstTime(m, req, valid) ==
  CASE ~valid ->
         [m EXCEPT !.cache = IF config.KeepInvalidTxsInCache THEN @
                             ELSE CacheRemove(@, req.tx)]
    [] valid /\ isFull(m, req.tx) ->
         [m EXCEPT !.cache = CacheRemove(@, req.tx)]
    [] valid /\ ~isFull(m, req.tx) ->
         notifyTxsAvailable(addTx(m, req.tx, req.sender))

reqResCb(m, req, valid) ==
  IF m.recheckCursor # 0 THEN Panic(m) ELSE resCbFirstTime(m, req, valid)

\* The cursor moves on to the element after the one it is at, which stays
\* reachable when it is removed.
NextCursor(m, removed) ==
  IF m.recheckCursor = m.recheckEnd
  THEN [m EXCEPT !.recheckCursor = 0]
  ELSE IF removed THEN [m EXCEPT !.recheckEnd = @ - 1]
  ELSE [m EXCEPT !.recheckCursor = @ + 1]

\* Mutants: the end of the recheck is not announced, or announced although
\* nothing is left.
resCbRecheckSilently(m, req, valid) ==
  LET left == IF valid THEN m
              ELSE removeTx(m, m.recheckCursor, ~config.KeepInvalidTxsInCache)
  IN  IF m.txs[m.recheckCursor].tx # req.tx THEN Panic(m)
      ELSE NextCursor(left, ~valid)

resCbRecheckAlwaysTells(m, req, valid) ==
  LET left == IF valid THEN m
              ELSE removeTx(m, m.recheckCursor, ~config.KeepInvalidTxsInCache)
      next == NextCursor(left, ~valid)
  IN  IF m.txs[m.recheckCursor].tx # req.tx THEN Panic(m)
      ELSE IF next.recheckCursor = 0 THEN notifyTxsAvailable(next)
      ELSE next

resCbRecheck(m, req, valid) ==
  LET left == IF valid THEN m
              ELSE removeTx(m, m.recheckCursor, ~config.KeepInvalidTxsInCache)
      next == NextCursor(left, ~valid)
  IN  IF m.txs[m.recheckCursor].tx # req.tx THEN Panic(m)
      ELSE IF next.recheckCursor = 0 /\ next.txs # << >>
      THEN notifyTxsAvailable(next)
      ELSE next

globalCb(m, req, valid) ==
  IF m.recheckCursor = 0 THEN m ELSE resCbRecheck(m, req, valid)

\* The application answers its first request; the global callback runs before
\* the one of the request, if that has one.
Response(valid) ==
  LET req == Head(requests)
      after == globalCb(mem, req, valid)
      first == ~req.recheck /\ ~after.panicked
  IN  /\ ~mem.panicked
      /\ requests # << >>
      /\ config.Local => req.recheck
      /\ requests' = Tail(requests)
      /\ mem' = IF first THEN reqResCb(after, req, valid) ELSE after
      /\ UNCHANGED <<config, commited, told>>

\* The caller of the i-th request, which has the answer of a local application
\* and is in the callback.
LocalCaller(i, stage) ==
  /\ ~mem.panicked
  /\ config.Local
  /\ ~requests[i].recheck
  /\ requests[i].stage = stage
  /\ UNCHANGED <<config, commited, told>>

\* resCbFirstTime of a caller, one step at a time: it tests the limits ...
LocalAnswer(i, valid) ==
  /\ LocalCaller(i, "asked")
  /\ IF valid /\ ~isFull(mem, requests[i].tx)
     THEN /\ requests' = [requests EXCEPT ![i].stage = "adding"]
          /\ UNCHANGED mem
     ELSE /\ requests' = RemoveAt(requests, i)
          /\ mem' = resCbFirstTime(mem, requests[i], valid)

\* ... adds the transaction ...
LocalAddTx(i) ==
  /\ LocalCaller(i, "adding")
  /\ requests' = [requests EXCEPT ![i].stage = "added"]
  /\ mem' = addTx(mem, requests[i].tx, requests[i].sender)

\* ... and in notifyTxsAvailable reads notifiedTxsAvailable ...
LocalReadNotified(i) ==
  /\ LocalCaller(i, "added")
  /\ requests' = IF mem.notifiedTxsAvailable THEN RemoveAt(requests, i)
                 ELSE [requests EXCEPT ![i].stage = "telling"]
  /\ mem' = IF mem.txs = << >> THEN Panic(mem) ELSE mem

\* ... and sets it and sends, as others may have done meanwhile.
LocalNotify(i) ==
  /\ LocalCaller(i, "telling")
  /\ requests' = RemoveAt(requests, i)
  /\ mem' = [mem EXCEPT !.notifiedTxsAvailable = TRUE, !.txsAvailable = 1]

-----------------------------------------------------------------------------
(* The consensus                                                           *)

\* Mutant: a committed transaction is not put into the cache.
UpdateTxUncached(m, d) ==
  IF d.tx \in m.txsMap
  THEN removeTx(m, ElementOf(m, d.tx), ~d.ok)
  ELSE m

\* One committed transaction.
UpdateTx(m, d) ==
  LET cache == CASE d.ok -> CachePush(m.cache, d.tx)
                 [] ~d.ok /\ ~config.KeepInvalidTxsInCache ->
                      CacheRemove(m.cache, d.tx)
                 [] OTHER -> m.cache
      cached == [m EXCEPT !.cache = cache]
  IN  IF d.tx \in m.txsMap
      THEN removeTx(cached, ElementOf(m, d.tx), FALSE)
      ELSE cached

UpdateTxs(m, block) ==
  LET after[i \in 0..Len(block)] ==
        IF i = 0 THEN m ELSE UpdateTx(after[i-1], block[i])
  IN  after[Len(block)]

\* The transactions whose last commit was a success when the block is there.
CommitedBy(block) ==
  LET last(tx) == SelectLastInSeq(block, LAMBDA d : d.tx = tx)
  IN  {tx \in Txs : IF last(tx) = 0 THEN tx \in commited
                    ELSE block[last(tx)].ok}

\* Requests for all of the list; their answers come back to resCbRecheck.
recheckTxs(m) ==
  [m EXCEPT !.recheckCursor = 1, !.recheckEnd = Len(m.txs)]

RecheckRequests(m) ==
  [i \in DOMAIN m.txs |-> [recheck |-> TRUE, tx |-> m.txs[i].tx]]

\* FlushAppConn, called with updateMtx held, returns when everything is
\* answered; updateMtx is held when no caller of CheckTx is left.
FlushAppConn == requests = << >>

Update(block) ==
  LET begun == [mem EXCEPT !.height = @ + 1, !.notifiedTxsAvailable = FALSE]
      left == UpdateTxs(begun, block)
      rechecks == config.Recheck /\ left.txs # << >>
  IN  /\ ~mem.panicked
      /\ mem.height < MaxHeight
      /\ FlushAppConn
      /\ mem' = CASE rechecks -> recheckTxs(left)
                  [] ~rechecks /\ left.txs # << >> -> notifyTxsAvailable(left)
                  [] OTHER -> left
      /\ requests' = IF rechecks THEN requests \o RecheckRequests(left)
                     ELSE requests
      /\ commited' = CommitedBy(block)
      /\ told' = FALSE
      /\ UNCHANGED config

\* The consensus receives from TxsAvailable.
ReceiveTxsAvailable ==
  /\ ~mem.panicked
  /\ mem.txsAvailable = 1
  /\ mem' = [mem EXCEPT !.txsAvailable = 0]
  /\ told' = TRUE
  /\ UNCHANGED <<config, requests, commited>>

\* Mutant: a transaction that does not fit is skipped.
SkipTx(acc, tx, maxBytes, maxGas) ==
  LET bytes == acc.bytes + TxSize[tx]
      gas == acc.gas + GasWanted[tx]
  IN  IF \/ maxBytes > -1 /\ bytes > maxBytes
         \/ maxGas > -1 /\ gas > maxGas
      THEN acc
      ELSE [acc EXCEPT !.txs = Append(@, tx), !.bytes = bytes, !.gas = gas]

\* One turn of the loop over the list; `done' is its return.  TxSize stands for
\* what a transaction adds to the encoding of the block.
ReapTx(acc, tx, maxBytes, maxGas) ==
  LET bytes == acc.bytes + TxSize[tx]
      gas == acc.gas + GasWanted[tx]
  IN  IF \/ acc.done
         \/ maxBytes > -1 /\ bytes > maxBytes
         \/ maxGas > -1 /\ gas > maxGas
      THEN [acc EXCEPT !.done = TRUE]
      ELSE [acc EXCEPT !.txs = Append(@, tx), !.bytes = bytes, !.gas = gas]

\* The transactions of the next block: the list up to the first transaction
\* that exceeds a limit, -1 standing for no limit.
ReapMaxBytesMaxGas(m, maxBytes, maxGas) ==
  LET after[i \in 0..Len(m.txs)] ==
        IF i = 0 THEN [txs |-> << >>, bytes |-> 0, gas |-> 0, done |-> FALSE]
        ELSE ReapTx(after[i-1], m.txs[i].tx, maxBytes, maxGas)
  IN  after[Len(m.txs)].txs

\* What the RPC shows.
ReapMaxTxs(m, max) ==
  LET limit == IF max < 0 THEN Len(m.txs) ELSE max
  IN  [i \in 1..Min({limit + 1, Len(m.txs)}) |-> m.txs[i].tx]

Next ==
  \/ \E tx \in Txs, sender \in config.Senders : CheckTx(tx, sender)
  \/ \E tx \in Txs : CheckTxError(tx)
  \/ \E valid \in BOOLEAN : Response(valid)
  \/ \E i \in DOMAIN requests, valid \in BOOLEAN : LocalAnswer(i, valid)
  \/ \E i \in DOMAIN requests : LocalAddTx(i)
  \/ \E i \in DOMAIN requests : LocalReadNotified(i)
  \/ \E i \in DOMAIN requests : LocalNotify(i)
  \/ \E block \in Blocks : Update(block)
  \/ ReceiveTxsAvailable

Spec == Init /\ [][Next]_vars

-----------------------------------------------------------------------------
(* Properties                                                              *)

ListedTxs == [i \in DOMAIN mem.txs |-> mem.txs[i].tx]

Listed == ToSet(ListedTxs)

\* The cache has room for all transactions, so that it forgets none.
CacheForgetsNone == config.CacheSize >= Cardinality(Txs)

\* None of the panics of the callbacks is reached (mempool.go:343, 478, 521):
\* the answers to the rechecks come back in the order of the list, before any
\* answer to a later CheckTx, and nobody touches the list meanwhile.
NeverPanics == ~mem.panicked

\* The callers that are between the test of the limits and the end.
Finishing == {i \in DOMAIN requests :
                ~requests[i].recheck /\ requests[i].stage # "asked"}

\* The configured limits are kept although CheckTx tests them long before the
\* answer of the application adds the transaction, and the totals agree with
\* the list through every removal.  The second test is there "to reduce the
\* chance of exceeding the limits" (mempool.go:360-405, 430-435): callers of a
\* local application that overlap exceed them, by one transaction less than
\* there are callers.
LimitsHold ==
  LET excess == IF config.Local THEN MaxPending - 1 ELSE 0
  IN  /\ Len(mem.txs) <= config.Size + excess
      /\ mem.txsBytes = Sum(TxSize, ListedTxs)
      /\ mem.txsBytes <= config.MaxTxsBytes + excess * config.MaxTxBytes

\* TxsAvailable "fires once for each height, when the mempool is not empty"
\* (mempool.go:44): when transactions are left or have come in, and none is
\* being rechecked, the consensus has been told at this height or will find
\* the signal in the channel, unless a caller is still about to tell it.  That
\* is at least once: callers that overlap may tell it twice.
ConsensusIsTold ==
  mem.txs # << >> /\ mem.recheckCursor = 0 /\ Finishing = {} =>
    mem.notifiedTxsAvailable /\ (told \/ mem.txsAvailable = 1)

\* A transaction that was committed successfully is not in the mempool: the
\* block removed it, and the cache keeps it from coming back as long as it does
\* not forget it (mempool.go:604-625).
CommitedStayOut == CacheForgetsNone => commited \cap Listed = {}

\* What the consensus reaps is the longest prefix of the mempool within the
\* limits (mempool.go:534-565); what the RPC shows is a prefix of one
\* transaction more than it asked for (mempool.go:577).
ReapIsLongestPrefix ==
  \A limits \in ReapLimits :
    LET all == ListedTxs
        reaped == ReapMaxBytesMaxGas(mem, limits.maxBytes, limits.maxGas)
        Fits(txs) ==
          /\ limits.maxBytes > -1 => Sum(TxSize, txs) <= limits.maxBytes
          /\ limits.maxGas > -1 => Sum(GasWanted, txs) <= limits.maxGas
    IN  /\ IsPrefix(reaped, all)
        /\ Fits(reaped)
        /\ Len(reaped) < Len(all) => ~Fits(SubSeq(all, 1, Len(reaped) + 1))
        /\ \A max \in 0..config.Size :
             /\ ReapMaxTxs(mem, -1) = all
             /\ IsPrefix(ReapMaxTxs(mem, max), all)
             /\ Len(all) > max => Len(ReapMaxTxs(mem, max)) = max + 1

TxList == INSTANCE TxList WITH list <- mem.txs

\* The list changes only in the ways those count on that walk along it while it
\* does: transactions come in at the end, those that stay keep their order, and
\* a repeated CheckTx adds a sender (mempool.go:65-67, 358-379).
ImplementsTxList == TxList!Spec
=============================================================================
