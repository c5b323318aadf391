-------------------------- MODULE WriteTransaction --------------------------
(***************************************************************************)
(* InMemoryWriteTransaction of engine/storage/blockstore_v2.go over a      *)
(* BlockStore that may fail.  Transactions stage writes and deletes in     *)
(* memory; Commit plays them one by one against the store, writes first,   *)
(* and stops at the first error.  Commits of several transactions may      *)
(* overlap, and the process may die between two calls of the store.        *)
(*                                                                         *)
(* The store is external: WriteBlock and DeleteBlock change its index in   *)
(* memory, Flush persists the index.  A block is known by the operation    *)
(* that touched it last, [by |-> t, n |-> i] for the i-th of Commit in t.  *)
(***************************************************************************)
EXTENDS Integers, Sequences, FiniteSets, FiniteSetsExt

CONSTANTS
  Txs,        \* transactions
  Ids,        \* block IDs
  MaxStaged   \* bounds the operations staged in one transaction

ASSUME TransactionAssumption ==
  /\ IsFiniteSet(Txs) /\ IsFiniteSet(Ids)
  /\ "nobody" \notin Txs
  /\ MaxStaged \in Nat

VARIABLES
  writes, deletes,   \* t.writes and t.deletes, as sequences of block IDs
  done,              \* t.done
  step,              \* the next operation of Commit
  at,                \* "open", "committing", or how Commit or the owner ended
  store,             \* the store's index in memory
  disk,              \* the index as last flushed
  \* History of the run, read by properties only.
  plan,              \* what Commit set out to do, in order
  flushed            \* step of every transaction when the disk was written

txVars == <<writes, deletes, done>>
history == <<plan, flushed>>
allTxVars == <<txVars, step, at, store, disk, history>>

Nobody == [by |-> "nobody", n |-> 0]
Staged(t) == writes[t] \o deletes[t]
Ended(t, how) == at' = [at EXCEPT ![t] = how]

-----------------------------------------------------------------------------

\* NewInMemoryWriteTransaction
TxInit ==
  /\ writes = [t \in Txs |-> <<>>] /\ deletes = [t \in Txs |-> <<>>]
  /\ done = [t \in Txs |-> FALSE]
  /\ step = [t \in Txs |-> 1] /\ at = [t \in Txs |-> "open"]
  /\ store = [i \in Ids |-> Nobody] /\ disk = store
  /\ plan = [t \in Txs |-> <<>>] /\ flushed = step

\* On a closed transaction every operation returns ErrTransactionClosed.
MayStage(t) == ~ done[t] /\ Len(Staged(t)) < MaxStaged

WriteBlock(t, id) ==
  /\ MayStage(t)
  /\ writes' = [writes EXCEPT ![t] = Append(@, id)]
  /\ UNCHANGED <<deletes, done, step, at, store, disk, history>>

DeleteBlock(t, id) ==
  /\ MayStage(t)
  /\ deletes' = [deletes EXCEPT ![t] = Append(@, id)]
  /\ UNCHANGED <<writes, done, step, at, store, disk, history>>

Commit(t) ==
  /\ ~ done[t] /\ done' = [done EXCEPT ![t] = TRUE]
  /\ Ended(t, "committing")
  /\ plan' = [plan EXCEPT ![t] = Staged(t)]
  /\ UNCHANGED <<writes, deletes, step, store, disk, flushed>>

\* Slip: the call is counted although the store refused it.
Fail_Ignored(t) ==
  /\ at[t] = "committing"
  /\ step' = [step EXCEPT ![t] = @ + 1]
  /\ UNCHANGED <<txVars, at, store, disk, history>>

\* A call of the store returns an error, and Commit returns it.
Fail(t) ==
  /\ at[t] = "committing"
  /\ Ended(t, "failed")
  /\ UNCHANGED <<txVars, step, store, disk, history>>

\* store.WriteBlock or store.DeleteBlock succeeds and the loop goes on.
Apply(t) ==
  /\ at[t] = "committing" /\ step[t] <= Len(Staged(t))
  /\ store' = [store EXCEPT ![Staged(t)[step[t]]] = [by |-> t, n |-> step[t]]]
  /\ step' = [step EXCEPT ![t] = @ + 1]
  /\ UNCHANGED <<txVars, at, disk, history>>

\* Slip: Commit returns without flushing.
Flush_Skipped(t) ==
  /\ at[t] = "committing" /\ step[t] > Len(Staged(t))
  /\ Ended(t, "committed")
  /\ UNCHANGED <<txVars, step, store, disk, history>>

\* return t.store.Flush()
Flush(t) ==
  /\ at[t] = "committing" /\ step[t] > Len(Staged(t))
  /\ disk' = store /\ flushed' = step
  /\ Ended(t, "committed")
  /\ UNCHANGED <<txVars, step, store, plan>>

\* The owner's deferred Rollback runs when Commit is over, or instead of it.
Rollback(t) ==
  /\ at[t] \notin {"committing", "lost"}
  /\ done' = [done EXCEPT ![t] = TRUE]
  /\ writes' = [writes EXCEPT ![t] = <<>>]
  /\ deletes' = [deletes EXCEPT ![t] = <<>>]
  /\ at' = [at EXCEPT ![t] = IF @ = "open" THEN "rolledBack" ELSE @]
  /\ UNCHANGED <<step, store, disk, history>>

\* The process dies and comes back with the flushed index; of each commit
\* only the flushed part is left, and what was not committed is gone.
Crash ==
  /\ store' = disk /\ step' = flushed
  /\ at' = [t \in Txs |-> IF at[t] \in {"open", "committing"} THEN "lost"
                                                              ELSE at[t]]
  /\ done' = [t \in Txs |-> TRUE]
  /\ UNCHANGED <<writes, deletes, disk, history>>

TxNext ==
  \/ \E t \in Txs : \/ \E id \in Ids : WriteBlock(t, id) \/ DeleteBlock(t, id)
                    \/ Commit(t) \/ Fail(t) \/ Apply(t) \/ Flush(t)
                    \/ Rollback(t)
  \/ Crash

TxSpec == TxInit /\ [][TxNext]_allTxVars

-----------------------------------------------------------------------------

\* The last of the first n operations of t on a block, 0 if there is none.
LastOn(t, id, n) ==
  Max({0} \cup {i \in 1 .. n : i <= Len(plan[t]) /\ plan[t][i] = id})

\* An image of the store shows the first pos[t] - 1 operations of every t.
Shows(image, pos) ==
  \A t \in Txs, id \in Ids :
    LET last == LastOn(t, id, pos[t] - 1)
    IN /\ image[id].by = t => last > 0 /\ image[id].n = last
       /\ image[id] = Nobody => last = 0

\* What a Commit has done is a prefix of its plan, in order, at every moment and
\* however it ends, in memory and on disk: a block shows the last operation on
\* it that was played, or one of another transaction.  So nothing staged is
\* visible before Commit, and nothing after the operation that failed.  What was
\* played before it stays, as the comment on Commit says ("best-effort atomic")
\* and the interface denies: see StoreUnchangedOnError.
PlayedInOrder == Shows(store, step) /\ Shows(disk, flushed)

\* When Commit has returned nil, its outcome survives any later crash: on disk
\* each block it touched shows its last operation, or another transaction's.
CommitIsDurable ==
  \A t \in Txs, id \in Ids :
    at[t] = "committed" /\ LastOn(t, id, Len(plan[t])) > 0 =>
      /\ disk[id] # Nobody
      /\ disk[id].by = t => disk[id].n = LastOn(t, id, Len(plan[t]))

-----------------------------------------------------------------------------
(* A statement of the interface that its implementation does not keep.     *)

\* blockstore_v2.go:42, "Returns an error if any operation fails; the store
\* remains unchanged": no block shows an operation of a Commit that failed.
StoreUnchangedOnError ==
  \A t \in Txs, id \in Ids : at[t] = "failed" => store[id].by # t /\ disk[id].by # t

=============================================================================
