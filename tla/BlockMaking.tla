----------------------------- MODULE BlockMaking ----------------------------
(***************************************************************************)
(* The pure part of block production over every blocking matrix of a given *)
(* size: a matrix and options are chosen, NewBlockWithOptions is called.   *)
(***************************************************************************)
EXTENDS BlockingSet, SeqSums

CONSTANTS
  Pending,    \* the pending transactions, in order of arrival
  SizeOf,     \* the size in bytes of each of them
  Options,    \* the options of the call: records [TxLimit, MaxBlockSize]
  Matrices    \* the blocking matrices considered

\* No transaction is pending twice (Txs).
ASSUME BlockMakingAssumption ==
  /\ Pending \in Seq(ToSet(Pending)) /\ IsInjective(Pending)
  /\ \A tx \in ToSet(Pending) : SizeOf[tx] \in Nat
  /\ Options \subseteq [TxLimit : Nat, MaxBlockSize : Nat]
  /\ Matrices \subseteq [1..Len(Pending) -> [1..Len(Pending) -> BOOLEAN]]

VARIABLES
  chosenMatrix,   \* the matrix of the call
  chosenOpts,     \* its options
  madeBlock       \* the block it returned, empty before

blockVars == <<chosenMatrix, chosenOpts, madeBlock>>

N == Len(Pending)

BlockInit ==
  /\ chosenMatrix \in Matrices
  /\ chosenOpts \in Options
  /\ madeBlock = << >>

NewBlockWithOptions ==
  /\ madeBlock' = NewBlock(chosenMatrix, Pending, chosenOpts, SizeOf)
  /\ UNCHANGED <<chosenMatrix, chosenOpts>>

BlockNext == NewBlockWithOptions

BlockSpec == BlockInit /\ [][BlockNext]_blockVars

-----------------------------------------------------------------------------
(* The reference definitions                                               *)

\* The transactions i depends on: the least set that holds i and every
\* blocker of its members.
IsClosed(D) == \A i \in D, j \in 1..N : chosenMatrix[i][j] => j \in D

DependsOn(i) ==
  {j \in 1..N : \A D \in SUBSET (1..N) : i \in D /\ IsClosed(D) => j \in D}

\* Of two transactions, one may have priority over the other (what a quorum of
\* more than two thirds of the peers guarantees).
OneOfTwoBlocks ==
  \A i, j \in 1..N : i # j => chosenMatrix[i][j] \/ chosenMatrix[j][i]

-----------------------------------------------------------------------------
(* Properties                                                              *)

\* recompute's search with its shared visited set (wendy.go:307-326) finds
\* exactly the transitive blockers of a transaction, cycles included.
RecomputeIsClosure ==
  \A i \in 1..N : recompute(chosenMatrix, i, {}) = DependsOn(i)

\* A block without limits holds every pending transaction, as TestNewBlock
\* expects, whenever of each two transactions one is blocked by the other:
\* then no blocker is left out although BlockingSet returns a prefix of the
\* list in place of the blockers (wendy.go:298-300).
UnlimitedBlockIsWhole ==
  [][ OneOfTwoBlocks /\ chosenOpts = NoOptions
      => madeBlock' = Pending ]_blockVars

\* The limits hold for the block as a whole although each `break' leaves only
\* the inner loop (wendy.go:246-254).
LimitsHold ==
  /\ chosenOpts.TxLimit > 0 => Len(madeBlock) <= chosenOpts.TxLimit
  /\ chosenOpts.MaxBlockSize > 0 =>
       Sum(SizeOf, madeBlock) <= chosenOpts.MaxBlockSize

\* "BlockingSet returns a list of blocking Txs for all the currently seen Txs"
\* (wendy.go:271): the blockers that made the block are, for each transaction,
\* those it depends on.
BlockersAreDependencies ==
  madeBlock # << >> =>
    \A i \in 1..N :
      ToSet(blockers(chosenMatrix, Pending, i))
        = {Pending[j] : j \in DependsOn(i)}
=============================================================================
