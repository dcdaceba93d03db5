-------------------------------- MODULE Node --------------------------------
(***************************************************************************)
(* The life of a node (tendermint/node/node.go, tendermint/main.go): how   *)
(* NewNode and OnStart decide, from what is on disk, whether to state      *)
(* sync, to fast sync or to go straight to the consensus; the goroutine    *)
(* that state syncs; and what a process finds that starts after another    *)
(* one ended at any point.                                                 *)
(*                                                                         *)
(* The reactors, the stores and the handshake are Tendermint's, external,  *)
(* and modelled by what the node relies on.  The blockchain and the        *)
(* consensus reactor execute blocks, saving each block with its commit     *)
(* before the state that results.  The consensus needs the commit of the   *)
(* last block and panics without it.  Fast sync ends when it has caught up *)
(* with other validators, and starts the consensus.  An error that NewNode *)
(* or OnStart return ends the process, as a crash does.                    *)
(***************************************************************************)
EXTENDS Integers

CONSTANTS
  Keys,         \* the keys of validators
  Docs,         \* the genesis documents the file may contain over time
  Validators,   \* the validators each of them names
  Us,           \* the validator whose key this node holds
  Configs,      \* the configurations: records of StateSync and FastSyncMode;
                \*   Switchable: whether the blockchain reactor can switch
                \*   from state sync and the light client can be set up;
                \*   InitChain: the validators the
                \*   application asks for, {} to keep those of the genesis
  Synced,       \* the validators of a state that is synced from others
  MaxHeight,    \* bound: the last height
  MaxExits      \* bound: how many processes end

None == "none"

\* What the state store holds before any state was saved.
EmptyState == [height |-> -1, validators |-> {}]

ASSUME NodeAssumption ==
  /\ Validators \in [Docs -> SUBSET Keys]
  /\ Synced \subseteq Keys
  /\ Configs \subseteq [StateSync : BOOLEAN, FastSyncMode : BOOLEAN,
                         Switchable : BOOLEAN, InitChain : SUBSET Keys]
  /\ None \notin Docs
  /\ MaxHeight \in Nat /\ MaxExits \in Nat

VARIABLES
  config,       \* the configuration, chosen once
  file,         \* the document in the genesis file
  disk,         \* genesisDoc, the state of the state store, the height of
                \* the block store and the heights whose seen commit it has
  proc,         \* the process: NewNode's variables and where it is
  sync,         \* the goroutine of startStateSync
  bc, cs,       \* the blockchain and the consensus reactor
  exits,        \* how many processes ended
  lostCommit    \* history: a process ended, or a write failed, between
                \* Bootstrap and SaveSeenCommit

vars == <<config, file, disk, proc, sync, bc, cs, exits, lostCommit>>

Down == [pc |-> "down", genDoc |-> None, state |-> EmptyState,
         stateSync |-> FALSE, fastSync |-> FALSE, waitSync |-> FALSE,
         mempool |-> 0]

NoSync == [pc |-> "none", state |-> EmptyState]

Init ==
  /\ config \in Configs
  /\ file \in Docs
  /\ disk = [genesisDoc |-> None, state |-> EmptyState, blocks |-> 0,
             commits |-> {}]
  /\ proc = Down
  /\ sync = NoSync
  /\ bc = "off"
  /\ cs = "off"
  /\ exits = 0
  /\ lostCommit = FALSE

-----------------------------------------------------------------------------
(* NewNode                                                                 *)

\* The saved document, or the one of the file when none was saved.
LoadGenesisDoc == IF disk.genesisDoc = None THEN file ELSE disk.genesisDoc

LoadFromDBOrGenesisDoc(doc) ==
  IF disk.state = EmptyState THEN [height |-> 0, validators |-> Validators[doc]]
  ELSE disk.state

\* The stores are opened; the document that is used is saved.
LoadState ==
  /\ proc.pc = "down"
  /\ disk' = [disk EXCEPT !.genesisDoc = LoadGenesisDoc]
  /\ proc' = [proc EXCEPT !.pc = "loaded", !.genDoc = LoadGenesisDoc,
                          !.state = LoadFromDBOrGenesisDoc(LoadGenesisDoc)]
  /\ UNCHANGED <<config, file, sync, bc, cs, exits, lostCommit>>

onlyValidatorIsUs(state) == state.validators = {Us}

\* Mutant: the height of the local state is not looked at.
StateSyncAlways(state) == config.StateSync /\ ~onlyValidatorIsUs(state)

StateSync(state) ==
  /\ config.StateSync
  /\ ~onlyValidatorIsUs(state)
  /\ state.height = 0

\* What the handshake leaves in the state store: the validators the
\* application asks for at the start of a chain, and the last block replayed
\* when it was saved but not executed.
Handshaken(state) ==
  [height |-> IF disk.blocks = state.height + 1 THEN disk.blocks
              ELSE state.height,
   validators |-> IF state.height = 0 /\ config.InitChain # {}
                  THEN config.InitChain ELSE state.validators]

\* Mutant: the state is not loaded again.
HandshakeOnly ==
  LET stateSync == StateSync(proc.state)
  IN  /\ proc.pc = "loaded"
      /\ disk' = IF stateSync THEN disk
                 ELSE [disk EXCEPT !.state = Handshaken(proc.state)]
      /\ proc' = [proc EXCEPT !.pc = "ready", !.stateSync = stateSync]
      /\ UNCHANGED <<config, file, sync, bc, cs, exits, lostCommit>>

\* Services are started; unless the node will state sync, it shakes hands
\* with the application and loads the state again.  Without any validator the
\* handshake fails.
Handshake ==
  LET stateSync == StateSync(proc.state)
      state == IF stateSync THEN proc.state ELSE Handshaken(proc.state)
  IN  /\ proc.pc = "loaded"
      /\ disk' = IF stateSync THEN disk ELSE [disk EXCEPT !.state = state]
      /\ proc' = [proc EXCEPT !.pc = IF stateSync \/ state.validators # {}
                                     THEN "ready" ELSE "failed",
                              !.state = state, !.stateSync = stateSync]
      /\ UNCHANGED <<config, file, sync, bc, cs, exits, lostCommit>>

\* Mutant: a node that is alone fast syncs, too.
FastSyncAlways(state) == config.FastSyncMode

FastSync(state) == config.FastSyncMode /\ ~onlyValidatorIsUs(state)

\* Mutant: the blockchain reactor does not wait for state sync.
StartsWithFastSyncAtOnce(stateSync, fastSync) == fastSync

\* The arguments of createBlockchainReactor and createConsensusReactor.
StartsWithFastSync(stateSync, fastSync) == fastSync /\ ~stateSync
WaitSync(stateSync, fastSync) == stateSync \/ fastSync

\* The mempool starts at the height of the state.
NewMempool(state) == state.height

\* The consensus finds the commit of the last block.
HasLastCommit(state) == state.height = 0 \/ state.height \in disk.commits

\* The rest of NewNode: mempool, reactors, switch, and the Wendy reactor as
\* the mempool's notify function.  The new consensus state loads the commit.
CreateReactors ==
  LET state == proc.state
      fastSync == FastSync(state)
  IN  /\ proc.pc = "ready"
      /\ proc' = [proc EXCEPT
                    !.pc = IF HasLastCommit(state) THEN "created"
                           ELSE "panicked",
                    !.fastSync = StartsWithFastSync(proc.stateSync, fastSync),
                    !.waitSync = WaitSync(proc.stateSync, fastSync),
                    !.mempool = NewMempool(state)]
      /\ UNCHANGED <<config, file, disk, sync, bc, cs, exits, lostCommit>>

-----------------------------------------------------------------------------
(* OnStart and OnStop                                                      *)

\* SwitchToConsensus and, when it does not wait, OnStart of the consensus.
StartConsensus ==
  cs' = IF HasLastCommit(disk.state) THEN "running" ELSE "panicked"

\* The RPC server, the transport and the switch, which starts the reactors.
StartSwitch ==
  /\ proc.pc = "created"
  /\ proc' = [proc EXCEPT !.pc = "switched"]
  /\ bc' = IF proc.fastSync THEN "running" ELSE "off"
  /\ IF proc.waitSync THEN UNCHANGED cs ELSE StartConsensus
  /\ UNCHANGED <<config, file, disk, sync, exits, lostCommit>>

\* OnStart returns, with an error when the reactor cannot switch.
RunStateSync ==
  /\ proc.pc = "switched"
  /\ IF proc.stateSync /\ ~config.Switchable
     THEN proc' = [proc EXCEPT !.pc = "failed"] /\ UNCHANGED sync
     ELSE /\ proc' = [proc EXCEPT !.pc = "up"]
          /\ sync' = IF proc.stateSync THEN [sync EXCEPT !.pc = "sync"]
                     ELSE sync
  /\ UNCHANGED <<config, file, disk, bc, cs, exits, lostCommit>>

\* OnStop stops the switch with its reactors; startStateSync goes on.
OnStop ==
  /\ proc.pc = "up"
  /\ proc' = [proc EXCEPT !.pc = "stopped"]
  /\ bc' = "off"
  /\ cs' = "off"
  /\ UNCHANGED <<config, file, disk, sync, exits, lostCommit>>

\* The process ends: killed, or by an error or a panic.
Exit ==
  /\ proc.pc # "down"
  /\ exits' = exits + 1
  /\ proc' = Down
  /\ sync' = NoSync
  /\ bc' = "off"
  /\ cs' = "off"
  /\ lostCommit' = (lostCommit \/ sync.pc = "commit")
  /\ UNCHANGED <<config, file, disk>>

\* Somebody changes the genesis file.
ChangeFile(doc) ==
  /\ proc.pc = "down"
  /\ file' = doc
  /\ UNCHANGED <<config, disk, proc, sync, bc, cs, exits, lostCommit>>

-----------------------------------------------------------------------------
(* The goroutine of startStateSync                                         *)

SyncSucceeds(height) ==
  /\ sync.pc = "sync"
  /\ sync' = [pc |-> "bootstrap",
              state |-> [height |-> height, validators |-> Synced]]
  /\ UNCHANGED <<config, file, disk, proc, bc, cs, exits, lostCommit>>

\* Each of the steps may return an error, which is logged only.
SyncFails ==
  /\ \/ sync.pc \in {"sync", "bootstrap", "commit"}
     \/ sync.pc = "switch" /\ config.FastSyncMode
  /\ sync' = [sync EXCEPT !.pc = "failed"]
  /\ lostCommit' = (lostCommit \/ sync.pc = "commit")
  /\ UNCHANGED <<config, file, disk, proc, bc, cs, exits>>

\* Mutant: the commit is not saved.
BootstrapOnly ==
  /\ sync.pc = "bootstrap"
  /\ disk' = [disk EXCEPT !.state = sync.state]
  /\ sync' = [sync EXCEPT !.pc = "switch"]
  /\ UNCHANGED <<config, file, proc, bc, cs, exits, lostCommit>>

Bootstrap ==
  /\ sync.pc = "bootstrap"
  /\ disk' = [disk EXCEPT !.state = sync.state]
  /\ sync' = [sync EXCEPT !.pc = "commit"]
  /\ UNCHANGED <<config, file, proc, bc, cs, exits, lostCommit>>

SaveSeenCommit ==
  /\ sync.pc = "commit"
  /\ disk' = [disk EXCEPT !.commits = @ \cup {sync.state.height}]
  /\ sync' = [sync EXCEPT !.pc = "switch"]
  /\ UNCHANGED <<config, file, proc, bc, cs, exits, lostCommit>>

\* SwitchToFastSync or SwitchToConsensus, whether the node was stopped or not.
SwitchFromSync ==
  /\ sync.pc = "switch"
  /\ sync' = [sync EXCEPT !.pc = "done"]
  /\ IF config.FastSyncMode
     THEN bc' = "running" /\ UNCHANGED cs
     ELSE StartConsensus /\ UNCHANGED bc
  /\ UNCHANGED <<config, file, disk, proc, exits, lostCommit>>

-----------------------------------------------------------------------------
(* The reactors                                                            *)

Executing == bc = "running" \/ cs = "running"

\* A block was saved whose execution has not ended.
InBlock == disk.blocks = disk.state.height + 1

SaveBlock ==
  /\ Executing
  /\ ~InBlock
  /\ disk.state.height < MaxHeight
  /\ disk' = [disk EXCEPT !.blocks = disk.state.height + 1,
                          !.commits = @ \cup {disk.state.height + 1}]
  /\ UNCHANGED <<config, file, proc, sync, bc, cs, exits, lostCommit>>

\* The block is executed, the mempool updated, and the state saved.
ApplyBlock ==
  /\ Executing
  /\ InBlock
  /\ disk' = [disk EXCEPT !.state.height = @ + 1]
  /\ proc' = [proc EXCEPT !.mempool = disk.blocks]
  /\ UNCHANGED <<config, file, sync, bc, cs, exits, lostCommit>>

FastSyncEnds ==
  /\ bc = "running"
  /\ ~InBlock
  /\ ~onlyValidatorIsUs(disk.state)
  /\ bc' = "off"
  /\ StartConsensus
  /\ UNCHANGED <<config, file, disk, proc, sync, exits, lostCommit>>

Starting ==
  \/ LoadState
  \/ Handshake
  \/ CreateReactors
  \/ StartSwitch
  \/ RunStateSync

Syncing ==
  \/ \E height \in 1..MaxHeight : SyncSucceeds(height)
  \/ SyncFails
  \/ Bootstrap
  \/ SaveSeenCommit
  \/ SwitchFromSync

Next ==
  \/ Starting
  \/ OnStop
  \/ exits < MaxExits /\ Exit
  \/ \E doc \in Docs : ChangeFile(doc)
  \/ Syncing
  \/ SaveBlock
  \/ ApplyBlock
  \/ FastSyncEnds

Spec == Init /\ [][Next]_vars

\* The process and its goroutines run; a state sync ends one way or the other.
FairSpec ==
  /\ Spec
  /\ WF_vars(Starting)
  /\ WF_vars(Syncing)
  /\ WF_vars(ApplyBlock)
  /\ WF_vars(FastSyncEnds)

-----------------------------------------------------------------------------
(* Properties                                                              *)

SyncAtWork == sync.pc \in {"sync", "bootstrap", "commit", "switch"}

\* "Don't start fast sync if we're doing a state sync first", "Don't enable
\* fully if doing a state sync and/or fast sync first" (node.go:744, 750): of
\* state sync, fast sync and the consensus, at most one is at work on the
\* stores, also when the node is stopped and started in between.
OneAtATime ==
  /\ SyncAtWork => ~Executing
  /\ ~(bc = "running" /\ cs = "running")

\* A process that ends at any point can be started again, and the consensus
\* always finds the commit of the last block, unless a process ended, or a write
\* failed, between Bootstrap and SaveSeenCommit (node.go:608-617): then every
\* process after it finds a state with a height, skips state sync, and panics.
PanicsOnlyAfterLostCommit ==
  proc.pc = "panicked" \/ cs = "panicked" => lostCommit

\* While blocks are executed the mempool is at the height of the state, also
\* after the handshake replayed a block (node.go:708-726).  Only state sync
\* leaves it at the height of the genesis, until the first block after it.
MempoolFollowsState ==
  Executing =>
    proc.mempool = disk.state.height \/ (proc.stateSync /\ proc.mempool = 0)

\* "save genesis doc to prevent a certain class of user errors (e.g. when it
\* was changed, accidentally or not)" and "Found local state with non-zero
\* height, skipping state sync" (node.go:1333, 696): over all processes, one
\* document is used, and the state never goes back to an earlier height.
StoresNeverGoBack ==
  [][ /\ disk.genesisDoc # None => disk'.genesisDoc = disk.genesisDoc
      /\ disk'.state.height >= disk.state.height
    ]_vars

\* A process that stays up takes part in the consensus sooner or later, also
\* when it is the only validator and has nobody to sync from (node.go:717-719),
\* unless its state sync fails, which is logged only (node.go:605).
TakesPart ==
  <>[](proc.pc = "up" /\ sync.pc # "failed" => cs = "running")
=============================================================================
