----------------------------- MODULE NodeProofs -----------------------------
(***************************************************************************)
(* Proofs about Node, for every set of genesis documents, validators and   *)
(* configurations and every bound: one of state sync, fast sync and        *)
(* consensus works at a time, panics come from a lost commit only, the     *)
(* mempool follows the state, and the stores never go back.  And about its *)
(* Wendy reactor, for any number of peers, connections that fail and       *)
(* transactions: no two votes of the node have one number and no           *)
(* transaction has two votes.                                              *)
(***************************************************************************)
EXTENDS Node, WendyReactor, TLAPS

-----------------------------------------------------------------------------
(* The inductive invariant                                                 *)

States == [height : Int, validators : SUBSET Keys]

ProcPCs == {"down", "loaded", "ready", "created", "switched", "up", "stopped",
            "failed", "panicked"}
SyncPCs == {"none", "sync", "bootstrap", "commit", "switch", "done", "failed"}

TypeOK ==
  /\ config \in Configs
  /\ file \in Docs
  /\ disk \in [genesisDoc : Docs \cup {None}, state : States, blocks : Int,
               commits : SUBSET Int]
  /\ proc \in [pc : ProcPCs, genDoc : Docs \cup {None}, state : States,
               stateSync : BOOLEAN, fastSync : BOOLEAN, waitSync : BOOLEAN,
               mempool : Int]
  /\ sync \in [pc : SyncPCs, state : States]
  /\ bc \in {"off", "running"}
  /\ cs \in {"off", "running", "panicked"}
  /\ exits \in Nat
  /\ lostCommit \in BOOLEAN

\* The stores: nothing or a state with a height; a saved block has its commit,
\* and so has the last executed one, unless the commit is still to be saved or
\* was lost.
DiskInv ==
  /\ disk.state = EmptyState \/ disk.state.height >= 0
  /\ disk.blocks = 0 \/ disk.blocks \in disk.commits
  /\ \/ lostCommit
     \/ sync.pc = "commit"
     \/ disk.state.height <= 0
     \/ disk.state.height \in disk.commits

\* What NewNode and OnStart know of the stores at each point.
ProcInv ==
  /\ proc.pc = "loaded" =>
       /\ proc.state.height >= 0
       /\ \/ disk.state = EmptyState /\ proc.state.height = 0
          \/ disk.state = proc.state
  /\ proc.pc = "ready" =>
       IF proc.stateSync
       THEN proc.state.height = 0 /\ disk.state.height <= 0
       ELSE proc.state.height >= 0 /\ disk.state = proc.state
  /\ proc.pc = "created" =>
       /\ proc.stateSync => proc.waitSync /\ ~proc.fastSync
       /\ proc.fastSync => proc.waitSync
  /\ proc.pc \in {"created", "switched"} =>
       IF proc.stateSync
       THEN proc.mempool = 0 /\ disk.state.height <= 0
       ELSE proc.mempool = disk.state.height /\ disk.state.height >= 0
  /\ proc.pc = "switched" /\ proc.stateSync => bc = "off" /\ cs = "off"

\* The reactors run, or panicked, only after the switch was started.
ReactorsInv ==
  /\ bc # "off" \/ cs # "off" => proc.pc \in {"switched", "up", "stopped"}
  /\ Executing => disk.state.height >= 0

\* The goroutine of a state sync has the stores for itself.
SyncInv ==
  /\ sync.pc # "none" => proc.pc \in {"up", "stopped"} /\ proc.stateSync
  /\ SyncAtWork => proc.mempool = 0
  /\ sync.pc \in {"sync", "bootstrap"} => disk.state.height <= 0
  /\ sync.pc \in {"bootstrap", "commit", "switch"} => sync.state.height >= 1
  /\ sync.pc \in {"commit", "switch"} => disk.state = sync.state

Inv ==
  /\ TypeOK
  /\ DiskInv
  /\ ProcInv
  /\ ReactorsInv
  /\ SyncInv
  /\ OneAtATime
  /\ PanicsOnlyAfterLostCommit
  /\ MempoolFollowsState

-----------------------------------------------------------------------------
(* Typing                                                                  *)

\* What the state store holds before any state was saved is a state, too.
LEMMA EmptyStateType == EmptyState \in States /\ EmptyState.height = -1
BY DEF EmptyState, States

\* The types hold at first.
LEMMA TypeInit == Init => TypeOK
<1>1. Down \in [pc : ProcPCs, genDoc : Docs \cup {None}, state : States,
                stateSync : BOOLEAN, fastSync : BOOLEAN, waitSync : BOOLEAN,
                mempool : Int]
  BY EmptyStateType DEF Down, ProcPCs
<1>2. NoSync \in [pc : SyncPCs, state : States]
  BY EmptyStateType DEF NoSync, SyncPCs
<1>3. [genesisDoc |-> None, state |-> EmptyState, blocks |-> 0, commits |-> {}]
        \in [genesisDoc : Docs \cup {None}, state : States, blocks : Int,
             commits : SUBSET Int]
  BY EmptyStateType
<1>4. 0 \in Nat
  OBVIOUS
<1> QED
  BY <1>1, <1>2, <1>3, <1>4, Zenon DEF Init, TypeOK

\* Every action keeps the types.
LEMMA TypeNext == TypeOK /\ [Next]_vars => TypeOK'
<1> SUFFICES ASSUME TypeOK, [Next]_vars PROVE TypeOK'
  OBVIOUS
<1> USE NodeAssumption, EmptyStateType DEF TypeOK, ProcPCs, SyncPCs
<1>1. CASE LoadState
  <2>1. LoadGenesisDoc \in Docs
    BY DEF LoadGenesisDoc
  <2>2. LoadFromDBOrGenesisDoc(LoadGenesisDoc) \in States
    BY <2>1 DEF LoadFromDBOrGenesisDoc, States
  <2> QED
    BY <1>1, <2>1, <2>2 DEF LoadState
<1>2. CASE Handshake
  <2>1. Handshaken(proc.state) \in States
    BY DEF Handshaken, States
  <2>2. StateSync(proc.state) \in BOOLEAN
    BY DEF StateSync
  <2> QED
    BY <1>2, <2>1, <2>2 DEF Handshake
<1>3. CASE CreateReactors
  BY <1>3 DEF States, CreateReactors, FastSync, StartsWithFastSync, WaitSync,
     NewMempool, HasLastCommit, onlyValidatorIsUs
<1>4. CASE StartSwitch
  BY <1>4 DEF StartSwitch, StartConsensus, HasLastCommit
<1>5. CASE RunStateSync
  BY <1>5 DEF RunStateSync
<1>6. CASE OnStop
  BY <1>6 DEF OnStop
<1>7. CASE Exit
  BY <1>7 DEF Exit, Down, NoSync
<1>8. ASSUME NEW doc \in Docs, ChangeFile(doc) PROVE TypeOK'
  BY <1>8 DEF ChangeFile
<1>9. ASSUME NEW height \in 1..MaxHeight, SyncSucceeds(height)
      PROVE  TypeOK'
  BY <1>9 DEF SyncSucceeds, States
<1>10. CASE SyncFails
  BY <1>10 DEF SyncFails
<1>11. CASE Bootstrap
  BY <1>11 DEF Bootstrap
<1>12. CASE SaveSeenCommit
  BY <1>12 DEF SaveSeenCommit, States
<1>13. CASE SwitchFromSync
  BY <1>13 DEF SwitchFromSync, StartConsensus, HasLastCommit
<1>14. CASE SaveBlock
  <2>1. disk.state.height + 1 \in Int
    BY DEF States
  <2>2. disk.commits \cup {disk.state.height + 1} \in SUBSET Int
    BY <2>1
  <2>3. disk' \in [genesisDoc : Docs \cup {None}, state : States, blocks : Int,
                   commits : SUBSET Int]
    BY <1>14, <2>1, <2>2 DEF SaveBlock
  <2> QED
    BY <1>14, <2>3 DEF SaveBlock
<1>15. CASE ApplyBlock
  BY <1>15 DEF States, ApplyBlock, Executing, InBlock
<1>16. CASE FastSyncEnds
  BY <1>16 DEF FastSyncEnds, InBlock, StartConsensus, HasLastCommit
<1>17. CASE UNCHANGED vars
  BY <1>17 DEF vars
<1> QED
  BY <1>1, <1>2, <1>3, <1>4, <1>5, <1>6, <1>7, <1>8, <1>9,
     <1>10, <1>11, <1>12, <1>13, <1>14, <1>15, <1>16, <1>17
     DEF Next, Starting, Syncing

-----------------------------------------------------------------------------
(* Invariance                                                              *)

\* Every action keeps the invariant.  Handshake and CreateReactors decide from
\* the stores what is started.
LEMMA InvNext == Inv /\ [Next]_vars => Inv'
<1> SUFFICES ASSUME Inv, [Next]_vars PROVE Inv'
  OBVIOUS
<1> TypeOK /\ TypeOK'
  BY TypeNext DEF Inv
<1> USE EmptyStateType DEF TypeOK, States, Inv, DiskInv, ProcInv, ReactorsInv,
    SyncInv, OneAtATime, PanicsOnlyAfterLostCommit, MempoolFollowsState,
    Executing, SyncAtWork
<1>1. CASE LoadState
  BY <1>1 DEF LoadState, LoadGenesisDoc, LoadFromDBOrGenesisDoc
<1>2. CASE Handshake
  <2>1. DiskInv'
    <3>1. CASE StateSync(proc.state)
      BY <1>2, <3>1 DEF Handshake
    <3>2. CASE ~StateSync(proc.state)
      <4>1. disk' = [disk EXCEPT !.state = Handshaken(proc.state)]
        BY <1>2, <3>2 DEF Handshake
      <4>2. /\ proc.state.height >= 0
            /\ proc.state.height = 0 \/ proc.state.height = disk.state.height
        BY <1>2 DEF Handshake
      <4>3. \/ Handshaken(proc.state).height = proc.state.height
            \/ /\ Handshaken(proc.state).height = disk.blocks
               /\ disk.blocks = proc.state.height + 1
        BY DEF Handshaken
      <4>4. /\ disk'.state = Handshaken(proc.state)
            /\ disk'.blocks = disk.blocks
            /\ disk'.commits = disk.commits
            /\ lostCommit' = lostCommit
            /\ sync' = sync
        BY <1>2, <4>1 DEF Handshake
      <4>5. disk'.state.height >= 0
        BY <4>2, <4>3, <4>4
      <4>6. \/ lostCommit
            \/ sync.pc = "commit"
            \/ disk'.state.height <= 0
            \/ disk'.state.height \in disk.commits
        BY <4>2, <4>3, <4>4
      <4> QED
        BY <4>4, <4>5, <4>6
    <3> QED
      BY <3>1, <3>2
  <2>2. ProcInv'
    <3>1. CASE StateSync(proc.state)
      BY <1>2, <3>1 DEF Handshake, StateSync
    <3>2. CASE ~StateSync(proc.state)
      <4>1. /\ disk' = [disk EXCEPT !.state = Handshaken(proc.state)]
            /\ proc'.pc \in {"ready", "failed"}
            /\ proc'.state = Handshaken(proc.state)
            /\ ~proc'.stateSync
        BY <1>2, <3>2 DEF Handshake
      <4>2. proc.state.height >= 0
        BY <1>2 DEF Handshake
      <4>3. Handshaken(proc.state).height >= 0
        BY <4>2 DEF Handshaken
      <4> QED
        BY <4>1, <4>3
    <3> QED
      BY <3>1, <3>2
  <2>3. /\ ReactorsInv' /\ SyncInv' /\ OneAtATime'
        /\ PanicsOnlyAfterLostCommit' /\ MempoolFollowsState'
    BY <1>2 DEF Handshake, Handshaken, StateSync
  <2> QED
    BY <2>1, <2>2, <2>3
<1>3. CASE CreateReactors
  <2>1. PanicsOnlyAfterLostCommit'
    <3>1. /\ sync.pc # "commit"
          /\ cs = "off"
          /\ UNCHANGED <<cs, lostCommit>>
      BY <1>3 DEF CreateReactors
    <3>2. HasLastCommit(proc.state) \/ lostCommit
      <4>1. CASE proc.stateSync
        BY <1>3, <4>1 DEF CreateReactors, HasLastCommit
      <4>2. CASE ~proc.stateSync
        BY <1>3, <3>1, <4>2 DEF CreateReactors, HasLastCommit
      <4> QED
        BY <4>1, <4>2
    <3>3. HasLastCommit(proc.state) => proc'.pc = "created"
      BY <1>3 DEF CreateReactors
    <3> QED
      BY <3>1, <3>2, <3>3
  <2>2. /\ DiskInv' /\ ProcInv' /\ ReactorsInv' /\ SyncInv'
        /\ OneAtATime' /\ MempoolFollowsState'
    BY <1>3 DEF CreateReactors, FastSync, StartsWithFastSync, WaitSync,
       NewMempool
  <2> QED
    BY <2>1, <2>2
<1>4. CASE StartSwitch
  BY <1>4 DEF StartSwitch, StartConsensus, HasLastCommit
<1>5. CASE RunStateSync
  BY <1>5 DEF RunStateSync
<1>6. CASE OnStop
  BY <1>6 DEF OnStop
<1>7. CASE Exit
  BY <1>7 DEF Exit, Down, NoSync
<1>8. ASSUME NEW doc \in Docs, ChangeFile(doc) PROVE Inv'
  BY <1>8 DEF ChangeFile
<1>9. ASSUME NEW height \in 1..MaxHeight, SyncSucceeds(height)
      PROVE  Inv'
  BY <1>9 DEF SyncSucceeds
<1>10. CASE SyncFails
  BY <1>10 DEF SyncFails
<1>11. CASE Bootstrap
  BY <1>11 DEF Bootstrap
<1>12. CASE SaveSeenCommit
  BY <1>12 DEF SaveSeenCommit
<1>13. CASE SwitchFromSync
  BY <1>13 DEF SwitchFromSync, StartConsensus, HasLastCommit
<1>14. CASE SaveBlock
  BY <1>14 DEF SaveBlock, Executing, InBlock
<1>15. CASE ApplyBlock
  BY <1>15 DEF ApplyBlock, Executing, InBlock
<1>16. CASE FastSyncEnds
  BY <1>16 DEF FastSyncEnds, InBlock, StartConsensus, HasLastCommit
<1>17. CASE UNCHANGED vars
  BY <1>17 DEF vars
<1> QED
  BY <1>1, <1>2, <1>3, <1>4, <1>5, <1>6, <1>7, <1>8, <1>9, <1>10, <1>11, <1>12,
     <1>13, <1>14, <1>15, <1>16, <1>17 DEF Next, Starting, Syncing

\* The invariant holds at first.
LEMMA InvInit == Init => Inv
BY TypeInit, EmptyStateType DEF Init, Inv, Down, NoSync, DiskInv, ProcInv,
   ReactorsInv, SyncInv, OneAtATime, PanicsOnlyAfterLostCommit,
   MempoolFollowsState, Executing, SyncAtWork

\* The invariant holds in every state of every process.
LEMMA Invariance == Spec => []Inv
BY InvInit, InvNext, PTL DEF Spec

-----------------------------------------------------------------------------
(* The theorems                                                            *)

\* Of state sync, fast sync and the consensus at most one is at work on the
\* stores, whatever the configuration and whenever processes end: the flags
\* that NewNode computes (node.go:694-758) exclude the others, and the
\* goroutine of startStateSync hands over when it is done.
THEOREM OneWorksAtATime == Spec => []OneAtATime
<1>1. Inv => OneAtATime
  BY DEF Inv
<1> QED
  BY <1>1, Invariance, PTL

\* The consensus finds the commit of the last block in every process, unless one
\* ended, or a write failed, between Bootstrap and SaveSeenCommit
\* (node.go:608-617).
THEOREM OnlyLostCommitsPanic == Spec => []PanicsOnlyAfterLostCommit
<1>1. Inv => PanicsOnlyAfterLostCommit
  BY DEF Inv
<1> QED
  BY <1>1, Invariance, PTL

\* The mempool is made from the state after the handshake and is at its height
\* while blocks are executed, except from a state sync to the first block
\* (node.go:708-726).
THEOREM MempoolIsInStep == Spec => []MempoolFollowsState
<1>1. Inv => MempoolFollowsState
  BY DEF Inv
<1> QED
  BY <1>1, Invariance, PTL

\* No step, of this process or a later one, replaces the genesis document or
\* takes the state back to an earlier height (node.go:694-698, 1326-1341).
THEOREM StoresOnlyAdvance == Spec => StoresNeverGoBack
<1> DEFINE Kept == /\ disk.genesisDoc # None =>
                        disk'.genesisDoc = disk.genesisDoc
                   /\ disk'.state.height >= disk.state.height
<1>1. Inv /\ [Next]_vars => [Kept]_vars
  <2> SUFFICES ASSUME Inv, [Next]_vars PROVE Kept
    OBVIOUS
  <2> USE EmptyStateType DEF Inv, TypeOK, States
  <2>1. CASE LoadState
    BY <2>1 DEF LoadState, LoadGenesisDoc
  <2>2. CASE Handshake
    <3>1. CASE StateSync(proc.state)
      BY <2>2, <3>1 DEF Handshake
    <3>2. CASE ~StateSync(proc.state)
      <4>1. proc.state.height >= disk.state.height
        BY <2>2 DEF Handshake, ProcInv
      <4>2. Handshaken(proc.state).height >= proc.state.height
        BY DEF Handshaken
      <4>3. Handshaken(proc.state).height \in Int
        BY DEF Handshaken
      <4>4. disk' = [disk EXCEPT !.state = Handshaken(proc.state)]
        BY <2>2, <3>2 DEF Handshake
      <4> QED
        BY <4>1, <4>2, <4>3, <4>4
    <3> QED
      BY <3>1, <3>2
  <2>3. CASE Bootstrap
    BY <2>3 DEF Bootstrap, SyncInv
  <2>4. CASE SaveSeenCommit
    BY <2>4 DEF SaveSeenCommit
  <2>5. CASE SaveBlock
    BY <2>5 DEF SaveBlock
  <2>6. CASE ApplyBlock
    BY <2>6 DEF ApplyBlock
  <2>7. CASE UNCHANGED disk
    BY <2>7
  <2> QED
    BY <2>1, <2>2, <2>3, <2>4, <2>5, <2>6, <2>7
       DEF Next, Starting, Syncing, CreateReactors, StartSwitch, RunStateSync,
           OnStop, Exit, ChangeFile, SyncSucceeds, SyncFails, SwitchFromSync,
           FastSyncEnds, vars
<1> QED
  BY <1>1, Invariance, PTL DEF Spec, StoresNeverGoBack

-----------------------------------------------------------------------------
(* The votes of the node's Wendy reactor                                   *)

Vote == [seq : Nat, tx : Txs]

\* What a broadcastTxRoutine holds at each of its places.
RoutineOK(r) ==
  /\ r.pc = "number" => r.tx \in Txs
  /\ r.pc = "send" => r.vote \in Vote

ReactorTypeOK ==
  /\ notified \subseteq Txs
  /\ waiting \subseteq notified
  /\ seq \in Nat
  /\ routine = [p \in Peers |-> routine[p]]
  /\ \A p \in Peers : RoutineOK(routine[p])
  /\ received \in [Peers -> Seq(Vote)]

\* A vote has a number that was drawn and a transaction that left txChan.
VotesAreDrawn ==
  \A v \in AllVotes : v.seq \in 1..seq /\ v.tx \in notified \ waiting

\* A routine that is about to number a transaction is the only one that holds
\* it.
HeldByOne ==
  \A p \in Peers :
    routine[p].pc = "number" =>
      /\ routine[p].tx \in notified \ waiting
      /\ \A v \in AllVotes : v.tx # routine[p].tx
      /\ \A q \in Peers \ {p} :
           routine[q].pc = "number" => routine[q].tx # routine[p].tx

VotesInv == ReactorTypeOK /\ VotesAreDrawn /\ HeldByOne /\ VotesAreUnique

-----------------------------------------------------------------------------
\* Nothing was drawn and nothing is held when the node starts.
LEMMA VotesInvInit == ReactorInit => VotesInv
<1> SUFFICES ASSUME ReactorInit PROVE VotesInv
  OBVIOUS
<1>1. \A p \in Peers : routine[p].pc = "none" /\ received[p] = << >>
  BY DEF ReactorInit, At
<1>2. AllVotes = {}
  BY <1>1 DEF AllVotes, AllReceived, InSend, Votes, ToSet
<1>3. ReactorTypeOK
  BY <1>1 DEF ReactorInit, ReactorTypeOK, RoutineOK
<1> QED
  BY <1>1, <1>2, <1>3 DEF VotesInv, VotesAreDrawn, HeldByOne, VotesAreUnique

\* The votes of a node grow by what its routines put into their hands only.
LEMMA VotesGrow ==
  ASSUME NEW new,
         \A p \in Peers : /\ routine'[p].pc = "send"
                          /\ routine'[p] # routine[p]
                          => routine'[p].vote \in new,
         \A p \in Peers : Votes(p)' \subseteq AllVotes
  PROVE  AllVotes' \subseteq AllVotes \cup new
<1> SUFFICES ASSUME NEW v \in AllVotes' PROVE v \in AllVotes \cup new
  OBVIOUS
<1>1. CASE v \in AllReceived'
  BY <1>1 DEF AllReceived
<1>2. ASSUME NEW p \in Peers, routine'[p].pc = "send", v = routine'[p].vote
      PROVE  v \in AllVotes \cup new
  BY <1>2 DEF AllVotes, InSend
<1> QED
  BY <1>1, <1>2 DEF AllVotes, InSend

\* What is received stays in the votes if nobody receives anything.
LEMMA ReceivedIsInVotes ==
  /\ \A p \in Peers : Votes(p) \subseteq AllVotes
  /\ received' = received => \A p \in Peers : Votes(p)' \subseteq AllVotes
  BY DEF Votes, AllVotes, AllReceived

\* A step that draws no number, receives nothing from txChan and holds no
\* other transaction to number keeps the invariant.
LEMMA QuietStepKeepsVotesInv ==
  ASSUME VotesInv, ReactorTypeOK', seq' = seq, AllVotes' \subseteq AllVotes,
         notified \ waiting \subseteq notified' \ waiting',
         \A p \in Peers : routine'[p].pc = "number" => routine'[p] = routine[p]
  PROVE  VotesInv'
<1>1. VotesAreDrawn' /\ VotesAreUnique'
  BY DEF VotesInv, VotesAreDrawn, VotesAreUnique
<1>2. HeldByOne'
  BY DEF VotesInv, HeldByOne
<1> QED
  BY <1>1, <1>2 DEF VotesInv

\* Every step of the node keeps the invariant.
LEMMA VotesInvNext == VotesInv /\ [ReactorNext]_reactorVars => VotesInv'
<1> SUFFICES ASSUME VotesInv, [ReactorNext]_reactorVars PROVE VotesInv'
  OBVIOUS
<1> USE DEF RoutineOK
<1>1. ASSUME NEW tx \in Txs, OnNewTx(tx) PROVE VotesInv'
  <2>1. ReactorTypeOK'
    BY <1>1 DEF VotesInv, ReactorTypeOK, OnNewTx
  <2>2. AllVotes' = AllVotes
    BY <1>1 DEF OnNewTx, AllVotes, AllReceived, InSend, Votes
  <2> QED
    BY <1>1, <2>1, <2>2, QuietStepKeepsVotesInv DEF OnNewTx
<1>2. ASSUME NEW p \in Peers, AddPeer(p) PROVE VotesInv'
  <2>1. ReactorTypeOK'
    BY <1>2 DEF VotesInv, ReactorTypeOK, AddPeer, At
  <2>2. \A q \in Peers : routine'[q] = routine[q] \/ routine'[q].pc = "check"
    BY <1>2 DEF AddPeer, At, VotesInv, ReactorTypeOK
  <2>3. AllVotes' \subseteq AllVotes
    BY <1>2, <2>2, ReceivedIsInVotes, VotesGrow DEF AddPeer
  <2> QED
    BY <1>2, <2>1, <2>2, <2>3, QuietStepKeepsVotesInv DEF AddPeer
<1>3. ASSUME NEW p \in Peers, PeerStops(p) PROVE VotesInv'
  <2>1. ReactorTypeOK'
    BY <1>3 DEF VotesInv, ReactorTypeOK, PeerStops
  <2>2. AllVotes' = AllVotes
    BY <1>3 DEF PeerStops, AllVotes, AllReceived, InSend, Votes
  <2> QED
    BY <1>3, <2>1, <2>2, QuietStepKeepsVotesInv DEF PeerStops
<1>4. ASSUME NEW p \in Peers, CheckRunning(p) PROVE VotesInv'
  <2>1. ReactorTypeOK'
    BY <1>4 DEF VotesInv, ReactorTypeOK, CheckRunning, At
  <2>2. \A q \in Peers : \/ routine'[q] = routine[q]
                         \/ routine'[q].pc \in {"receive", "returned"}
    BY <1>4 DEF CheckRunning, At, VotesInv, ReactorTypeOK
  <2>3. AllVotes' \subseteq AllVotes
    BY <1>4, <2>2, ReceivedIsInVotes, VotesGrow DEF CheckRunning
  <2> QED
    BY <1>4, <2>1, <2>2, <2>3, QuietStepKeepsVotesInv DEF CheckRunning
<1>5. ASSUME NEW p \in Peers, NEW tx \in Txs, ReceiveTx(p, tx) PROVE VotesInv'
  <2>1. ReactorTypeOK'
    BY <1>5 DEF VotesInv, ReactorTypeOK, ReceiveTx
  <2>2. /\ routine'[p] = [pc |-> "number", tx |-> tx]
        /\ \A q \in Peers \ {p} : routine'[q] = routine[q]
    BY <1>5 DEF ReceiveTx, VotesInv, ReactorTypeOK
  <2>3. AllVotes' \subseteq AllVotes
    BY <1>5, <2>2, ReceivedIsInVotes, VotesGrow DEF ReceiveTx
  <2>4. VotesAreDrawn' /\ VotesAreUnique'
    BY <1>5, <2>3 DEF VotesInv, VotesAreDrawn, VotesAreUnique, ReceiveTx
  <2>5. HeldByOne'
    BY <1>5, <2>2, <2>3
       DEF VotesInv, ReactorTypeOK, VotesAreDrawn, HeldByOne, ReceiveTx
  <2> QED
    BY <2>1, <2>4, <2>5 DEF VotesInv
<1>6. ASSUME NEW p \in Peers, NewVote(p) PROVE VotesInv'
  <2> DEFINE vote == [seq |-> seq + 1, tx |-> routine[p].tx]
  <2>1. /\ routine'[p] = [pc |-> "send", vote |-> vote]
        /\ routine'[p].pc = "send" /\ routine'[p].vote = vote
        /\ \A q \in Peers \ {p} : routine'[q] = routine[q]
    BY <1>6 DEF NewVote, VotesInv, ReactorTypeOK
  <2>2. vote \in Vote /\ vote.seq = seq + 1 /\ vote.tx = routine[p].tx
    BY <1>6 DEF NewVote, VotesInv, ReactorTypeOK, Vote
  <2> HIDE DEF vote
  <2>3. ReactorTypeOK'
    <3>1. \A q \in Peers : RoutineOK(routine'[q])
      BY <2>1, <2>2 DEF VotesInv, ReactorTypeOK
    <3>2. routine' = [q \in Peers |-> routine'[q]]
      BY <1>6 DEF NewVote, VotesInv, ReactorTypeOK
    <3> QED
      BY <1>6, <3>1, <3>2 DEF NewVote, VotesInv, ReactorTypeOK
  <2>4. AllVotes' \subseteq AllVotes \cup {vote}
    <3>1. \A q \in Peers : /\ routine'[q].pc = "send"
                           /\ routine'[q] # routine[q]
                           => routine'[q].vote \in {vote}
      BY <2>1
    <3>2. \A q \in Peers : Votes(q)' \subseteq AllVotes
      BY <1>6, ReceivedIsInVotes DEF NewVote
    <3> HIDE DEF RoutineOK
    <3> QED
      BY <3>1, <3>2, VotesGrow
  <2>5. VotesAreDrawn'
    BY <1>6, <2>2, <2>4
       DEF VotesInv, ReactorTypeOK, VotesAreDrawn, HeldByOne, NewVote
  <2>6. VotesAreUnique'
    BY <1>6, <2>2, <2>4
       DEF VotesInv, ReactorTypeOK, VotesAreDrawn, HeldByOne, VotesAreUnique,
           NewVote
  <2>7. HeldByOne'
    BY <1>6, <2>1, <2>2, <2>4 DEF VotesInv, HeldByOne, NewVote
  <2> QED
    BY <2>3, <2>5, <2>6, <2>7 DEF VotesInv
<1>7. ASSUME NEW p \in Peers, NEW delivered \in BOOLEAN, Send(p, delivered)
      PROVE  VotesInv'
  <2>1. ReactorTypeOK'
    <3>1. routine[p].vote \in Vote
      BY <1>7 DEF Send, VotesInv, ReactorTypeOK
    <3>2. received' \in [Peers -> Seq(Vote)]
      BY <1>7, <3>1 DEF Send, VotesInv, ReactorTypeOK
    <3> QED
      BY <1>7, <3>2 DEF Send, At, VotesInv, ReactorTypeOK
  <2>2. \A q \in Peers : routine'[q] = routine[q] \/ routine'[q].pc = "check"
    BY <1>7 DEF Send, At, VotesInv, ReactorTypeOK
  <2>3. \A q \in Peers : Votes(q)' \subseteq AllVotes
    <3> SUFFICES ASSUME NEW q \in Peers, NEW v \in Votes(q)'
                 PROVE  v \in AllVotes
      OBVIOUS
    <3>1. v \in Votes(q) \/ v = routine[p].vote
      BY <1>7 DEF Send, VotesInv, ReactorTypeOK, Votes, ToSet
    <3>2. routine[p].vote \in AllVotes
      BY <1>7 DEF Send, AllVotes, InSend
    <3> QED
      BY <3>1, <3>2, ReceivedIsInVotes
  <2>4. AllVotes' \subseteq AllVotes
    BY <2>2, <2>3, VotesGrow
  <2> QED
    BY <1>7, <2>1, <2>2, <2>4, QuietStepKeepsVotesInv DEF Send
<1>8. CASE UNCHANGED reactorVars
  <2>1. ReactorTypeOK' /\ AllVotes' = AllVotes
    BY <1>8 DEF reactorVars, VotesInv, ReactorTypeOK, AllVotes, AllReceived,
                InSend, Votes
  <2> QED
    BY <1>8, <2>1, QuietStepKeepsVotesInv DEF reactorVars
<1> QED
  BY <1>1, <1>2, <1>3, <1>4, <1>5, <1>6, <1>7, <1>8 DEF ReactorNext, Step

\* However many routines draw numbers from nextSeq and transactions from txChan
\* at a time, and whatever connections fail, each number is given to one
\* transaction and each transaction gets one number.
THEOREM VotesStayUnique == ReactorSpec => []VotesAreUnique
<1>1. VotesInv => VotesAreUnique
  BY DEF VotesInv
<1> QED
  BY <1>1, VotesInvInit, VotesInvNext, PTL DEF ReactorSpec
=============================================================================
