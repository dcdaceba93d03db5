----------------------------- MODULE WendyLocks -----------------------------
(***************************************************************************)
(* The locking of wendy.go: which fields every method reads and writes and *)
(* which of the two sync.RWMutexes it holds while it does.                 *)
(*                                                                         *)
(* A method is the sequence of its lock operations and field accesses;     *)
(* deferred unlocks come last, in reverse order.  Goroutines call methods  *)
(* again and again.  A sync.RWMutex is external: a goroutine that waits in *)
(* Lock keeps new readers out, and gets the lock once the readers that     *)
(* hold it are gone.                                                       *)
(*                                                                         *)
(* Peer.bucket inserts a bucket where there is none, in a query too, which *)
(* holds peersMtx for reading only.  Two queries may then access one map   *)
(* at a time, one of them writing; Go's runtime ends the process when it   *)
(* notices.                                                                *)
(***************************************************************************)
EXTENDS Integers, Sequences, FiniteSets

CONSTANTS
  Goroutines,
  Methods     \* the methods the goroutines call: a set of names

Nobody == "nobody"

ASSUME GoroutinesAssumption == Nobody \notin Goroutines

Mutexes == {"txsMtx", "peersMtx"}

\* buckets are the maps of buckets of the peers (peer.go:33), entries what the
\* buckets hold.
Fields ==
  {"txs", "peers", "buckets", "entries", "votes", "validators", "quorum"}

-----------------------------------------------------------------------------
(* The methods                                                             *)

Lock(m) == <<[op |-> "Lock", on |-> m]>>
Unlock(m) == <<[op |-> "Unlock", on |-> m]>>
RLock(m) == <<[op |-> "RLock", on |-> m]>>
RUnlock(m) == <<[op |-> "RUnlock", on |-> m]>>
Read(f) == <<[op |-> "read", on |-> f]>>
Write(f) == <<[op |-> "write", on |-> f]>>

\* A call of Peer.bucket, which looks a bucket up and inserts it if there is
\* none.  One call stands for those of a loop over the peers.
Bucket == <<[op |-> "bucket", on |-> "buckets"]>>

UpdateValidatorSet ==
  Write("validators") \o Write("quorum") \o
  Lock("peersMtx") \o Write("peers") \o Unlock("peersMtx")

HonestParties == Read("quorum")
HonestMajority == Read("validators") \o Read("quorum")

\* Mutant: AddTx does not take the lock.
AddTxUnlocked == Write("txs")

AddTx == Lock("txsMtx") \o Write("txs") \o Unlock("txsMtx")

AddVote ==
  Lock("peersMtx") \o Write("peers") \o Bucket \o Write("entries") \o
  Write("votes") \o Unlock("peersMtx")

\* UpdateTxSet of every peer, in CommitBlock and in AddBlock.
UpdateTxSets == Read("peers") \o Bucket \o Write("entries")

CommitBlock == Lock("peersMtx") \o UpdateTxSets \o Unlock("peersMtx")

VoteByTxHash == RLock("peersMtx") \o Read("votes") \o RUnlock("peersMtx")

hasQuorum(fn) ==
  RLock("peersMtx") \o Read("peers") \o fn \o Read("quorum") \o
  RUnlock("peersMtx")

Before == Bucket \o Read("entries")
Seen == Bucket \o Read("entries")

IsBlockedBy == hasQuorum(Before)
IsBlocked == hasQuorum(Seen)

\* Mutant: the locks are taken in the other order.
AddBlockReversed ==
  Lock("peersMtx") \o Lock("txsMtx") \o Write("txs") \o
  UpdateTxSets \o Unlock("txsMtx") \o Unlock("peersMtx")

AddBlock ==
  Lock("txsMtx") \o Write("txs") \o
  Lock("peersMtx") \o UpdateTxSets \o Unlock("peersMtx") \o
  Unlock("txsMtx")

\* Both calls of List come before the matrix is filled by calls of IsBlockedBy,
\* of which two stand for all.
BlockingSet == Read("txs") \o IsBlockedBy \o IsBlockedBy

NewBlock ==
  RLock("txsMtx") \o BlockingSet \o Read("txs") \o RUnlock("txsMtx")

\* NewBlockWithOptions with the AddBlock flag calls AddBlock before it returns.
NewBlockAndAdd ==
  RLock("txsMtx") \o BlockingSet \o Read("txs") \o AddBlock \o
  RUnlock("txsMtx")

Code(method) ==
  CASE method = "UpdateValidatorSet" -> UpdateValidatorSet
    [] method = "HonestParties" -> HonestParties
    [] method = "HonestMajority" -> HonestMajority
    [] method = "AddTx" -> AddTx
    [] method = "AddVote" -> AddVote
    [] method = "CommitBlock" -> CommitBlock
    [] method = "VoteByTxHash" -> VoteByTxHash
    [] method = "IsBlockedBy" -> IsBlockedBy
    [] method = "IsBlocked" -> IsBlocked
    [] method = "AddBlock" -> AddBlock
    [] method = "BlockingSet" -> BlockingSet
    [] method = "NewBlock" -> NewBlock
    [] method = "NewBlockAndAdd" -> NewBlockAndAdd

\* All methods, but for BlockingSet called from outside, which reads the
\* transactions without txsMtx, and for NewBlockWithOptions with its AddBlock
\* flag.
MostMethods ==
  {"UpdateValidatorSet", "HonestParties", "HonestMajority", "AddTx", "AddVote",
   "CommitBlock", "VoteByTxHash", "IsBlockedBy", "IsBlocked", "AddBlock",
   "NewBlock"}

-----------------------------------------------------------------------------
VARIABLES
  todo,       \* what is left of the method each goroutine is in
  readers,    \* the goroutines that hold a mutex for reading
  writer,     \* the goroutine that holds a mutex, or waits for its readers
  locked,     \* whether that goroutine holds it
  missing,    \* whether some peer has no bucket for some label
  aborted     \* whether the runtime has ended the process

mutexes == <<readers, writer, locked>>
process == <<missing, aborted>>
vars == <<todo, mutexes, process>>

Init ==
  /\ todo = [g \in Goroutines |-> << >>]
  /\ readers = [m \in Mutexes |-> {}]
  /\ writer = [m \in Mutexes |-> Nobody]
  /\ locked = [m \in Mutexes |-> FALSE]
  /\ missing = FALSE
  /\ aborted = FALSE

At(g, op) == todo[g] # << >> /\ Head(todo[g]).op = op
On(g) == Head(todo[g]).on

Advance(g) == todo' = [todo EXCEPT ![g] = Tail(@)]

Call(g, method) ==
  /\ ~aborted
  /\ todo[g] = << >>
  /\ todo' = [todo EXCEPT ![g] = Code(method)]
  /\ UNCHANGED <<mutexes, process>>

\* New peers have no buckets.  An insertion may have been the last one that was
\* missing; one that another goroutine makes at the same time may be lost.
Access(g) ==
  /\ At(g, "read") \/ At(g, "write")
  /\ Advance(g)
  /\ IF At(g, "write") /\ On(g) \in {"peers", "buckets"}
     THEN missing' \in BOOLEAN
     ELSE UNCHANGED missing
  /\ UNCHANGED <<mutexes, aborted>>

FindBucket(g) ==
  /\ At(g, "bucket")
  /\ Advance(g)
  /\ UNCHANGED <<mutexes, process>>

InsertBucket(g) ==
  /\ At(g, "bucket")
  /\ missing
  /\ todo' = [todo EXCEPT ![g] = Write("buckets") \o Tail(@)]
  /\ UNCHANGED <<mutexes, process>>

\* Mutant: readers do not let a waiting writer pass.
DoRLockFirst(g) ==
  /\ At(g, "RLock")
  /\ ~locked[On(g)]
  /\ readers' = [readers EXCEPT ![On(g)] = @ \cup {g}]
  /\ Advance(g)
  /\ UNCHANGED <<writer, locked, process>>

DoRLock(g) ==
  /\ At(g, "RLock")
  /\ writer[On(g)] = Nobody
  /\ readers' = [readers EXCEPT ![On(g)] = @ \cup {g}]
  /\ Advance(g)
  /\ UNCHANGED <<writer, locked, process>>

DoRUnlock(g) ==
  /\ At(g, "RUnlock")
  /\ readers' = [readers EXCEPT ![On(g)] = @ \ {g}]
  /\ Advance(g)
  /\ UNCHANGED <<writer, locked, process>>

\* Lock announces the writer and then waits for the readers.
DoLockAnnounce(g) ==
  /\ At(g, "Lock")
  /\ writer[On(g)] = Nobody
  /\ writer' = [writer EXCEPT ![On(g)] = g]
  /\ UNCHANGED <<todo, readers, locked, process>>

DoLock(g) ==
  /\ At(g, "Lock")
  /\ writer[On(g)] = g
  /\ readers[On(g)] = {}
  /\ locked' = [locked EXCEPT ![On(g)] = TRUE]
  /\ Advance(g)
  /\ UNCHANGED <<readers, writer, process>>

DoUnlock(g) ==
  /\ At(g, "Unlock")
  /\ writer' = [writer EXCEPT ![On(g)] = Nobody]
  /\ locked' = [locked EXCEPT ![On(g)] = FALSE]
  /\ Advance(g)
  /\ UNCHANGED <<readers, process>>

Step(g) ==
  \/ Access(g)
  \/ FindBucket(g)
  \/ InsertBucket(g)
  \/ DoRLock(g)
  \/ DoRUnlock(g)
  \/ DoLockAnnounce(g)
  \/ DoLock(g)
  \/ DoUnlock(g)

\* The fields that are accessed under a mutex.
ProtectedFields == {"txs", "peers", "buckets", "entries", "votes"}

\* g is about to write a field that a mutex protects, and h to access it.
Race(g, h) ==
  /\ g # h
  /\ At(g, "write") /\ On(g) \in ProtectedFields
  /\ At(h, "read") \/ At(h, "write") \/ At(h, "bucket")
  /\ On(g) = On(h)

\* "fatal error: concurrent map writes", or "map read and map write": the
\* runtime notices some of the races for a map, and ends the process.
Abort ==
  /\ \E g, h \in Goroutines : Race(g, h) /\ On(g) = "buckets"
  /\ todo' = [g \in Goroutines |-> << >>]
  /\ readers' = [m \in Mutexes |-> {}]
  /\ writer' = [m \in Mutexes |-> Nobody]
  /\ locked' = [m \in Mutexes |-> FALSE]
  /\ missing' = FALSE
  /\ aborted' = TRUE

Next ==
  \/ \E g \in Goroutines :
       \/ \E method \in Methods : Call(g, method)
       \/ Step(g)
  \/ Abort

Spec == Init /\ [][Next]_vars

\* Every goroutine is scheduled, and one that waits for a mutex that becomes
\* free again and again gets it in the end: sync.Mutex hands itself over to a
\* starving waiter, and an unlocking writer lets the waiting readers in.
FairSpec == Spec /\ \A g \in Goroutines : SF_vars(Step(g))

-----------------------------------------------------------------------------
(* Properties                                                              *)

HoldsForReading(g, m) == g \in readers[m]
HoldsForWriting(g, m) == writer[m] = g /\ locked[m]

\* "Invoking Wendy methods is thread safe" (wendy.go:13), as far as the mutexes
\* go: no goroutine writes a field that a mutex protects while another one
\* accesses it.  validators and quorum are protected by none (wendy.go:40-45).
NoDataRace == \A g, h \in Goroutines : ~Race(g, h)

\* Only two queries race (wendy.go:145-178), and only for the buckets that
\* Before and Seen insert (peer.go:46-55): whoever writes another field, or
\* inserts a bucket in AddVote, CommitBlock or AddBlock, is alone with it.
OnlyQueriesRace ==
  \A g, h \in Goroutines :
    Race(g, h) =>
      /\ On(g) = "buckets"
      /\ HoldsForReading(g, "peersMtx") /\ HoldsForReading(h, "peersMtx")

\* The order of the locks: nobody waits for txsMtx while holding peersMtx, so
\* that AddBlock and NewBlock, which take peersMtx inside txsMtx
\* (wendy.go:183-195, 228-234), cannot wait for each other in a circle.
LockOrder ==
  \A g \in Goroutines :
    (At(g, "Lock") \/ At(g, "RLock")) =>
      /\ ~HoldsForReading(g, "peersMtx")
      /\ ~HoldsForWriting(g, "peersMtx")
      /\ On(g) = "txsMtx" => /\ ~HoldsForReading(g, "txsMtx")
                             /\ ~HoldsForWriting(g, "txsMtx")

\* Every call of a method returns, or ends with the process (Abort): whatever a
\* goroutine calls, it is outside the methods again and again.
EveryCallReturns == \A g \in Goroutines : []<>(todo[g] = << >>)
=============================================================================
