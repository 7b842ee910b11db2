----------------------------- MODULE StoreEngine -----------------------------
(***************************************************************************)
(* The storage engine of voodoo-store-core (engine.rs): a key-value map    *)
(* kept in memory, an append-only log that recovery rebuilds it from, and  *)
(* transactions that write records while they run and become visible when  *)
(* their commit record is written and synced.                              *)
(*                                                                         *)
(* A Transaction borrows the Store mutably, so at most one is in progress; *)
(* what interleaves with its steps is failure: a write or a sync that      *)
(* returns an error, the death of the process, the loss of power.          *)
(***************************************************************************)
EXTENDS LogRecovery

CONSTANTS
  Durability,      \* "Strict", "Data" or "Relaxed"
  RepairTornTail,  \* StoreOptions.repair_torn_tail
  MaxBytes,        \* StoreOptions.max_bytes, counted in records
  NamespaceQuota,  \* TRUE: namespace_max_bytes is set and may reject a commit
  WriteErrors,     \* what a failing write leaves in the file: "Clean", "Torn"
  SyncErrors       \* TRUE: the sync of a commit may fail

ASSUME OptionsAssumption ==
  /\ Durability \in {"Strict", "Data", "Relaxed"}
  /\ RepairTornTail \in BOOLEAN
  /\ MaxBytes \in Nat
  /\ NamespaceQuota \in BOOLEAN
  /\ WriteErrors \subseteq {"Clean", "Torn"}
  /\ SyncErrors \in BOOLEAN

VARIABLES
  log,            \* the records in the file, as the operating system shows them
  synced,         \* how many of them a loss of power cannot take away
  open,           \* a Store has the file open
  state,          \* Store.state: the committed map in memory
  next_tx_id,     \* Store.next_tx_id
  next_sequence,  \* Store.next_sequence
  tx,             \* the Transaction in progress
  acked,          \* history: transactions whose commit returned Ok
  doubt,          \* history: committed in the log, but commit returned an error
  scarred         \* history: an incomplete record was left under an open Store

memory == <<open, state, next_tx_id, next_sequence, tx, doubt>>
vars == <<log, synced, memory, acked, scarred>>

(* A transaction takes operations while it is "active". Its commit appends *)
(* the operations left in todo and then the commit record ("commit"), and  *)
(* waits for the sync ("sync").                                            *)
NoTx == [tx_id |-> 0, phase |-> "none", operations |-> << >>, todo |-> << >>]

Syncs == Durability # "Relaxed"

Init ==
  /\ log = << >>
  /\ synced = 0
  /\ open = FALSE
  /\ state = EmptyMap
  /\ next_tx_id = 1
  /\ next_sequence = 1
  /\ tx = NoTx
  /\ acked = {}
  /\ doubt = {}
  /\ scarred = FALSE

-----------------------------------------------------------------------------
(* Opening, syncing and closing.                                           *)

(* sync_file: every record in the file becomes durable.                    *)
SyncFileDataOnly(l) ==
  IF Durability = "Data" THEN Len(l) ELSE IF synced < Len(l) THEN synced ELSE Len(l)

SyncFile(l) == IF Syncs THEN Len(l) ELSE IF synced < Len(l) THEN synced ELSE Len(l)

(* The scan reaches an end, and what is left after it is truncated.        *)
OpenWithOptions ==
  /\ ~open
  /\ PrefixOk(log)
  /\ LET recovery == Recovered(log)
     IN  /\ recovery.max_tx_id < MaxTxId
         /\ recovery.max_sequence < MaxSequence
         /\ IF recovery.valid_end < Len(log) /\ RepairTornTail
              THEN /\ log' = SubSeq(log, 1, recovery.valid_end)
                   /\ synced' = SyncFile(log')
              ELSE UNCHANGED <<log, synced>>
         /\ state' = recovery.state
         /\ next_tx_id' = recovery.max_tx_id + 1
         /\ next_sequence' = recovery.max_sequence + 1
  /\ open' = TRUE
  /\ scarred' = (TornAt(log') # {})
  /\ UNCHANGED <<tx, acked, doubt>>

(* The scan fails, on a checksum or on another damage: the file stays as   *)
(* it is and the Store closed.                                             *)
OpenRefused ==
  /\ ~open
  /\ ~RecoverOk(log)
  /\ UNCHANGED vars

Flush ==
  /\ open
  /\ tx = NoTx
  /\ synced' = SyncFile(log)
  /\ UNCHANGED <<log, memory, acked, scarred>>

(* backup_to syncs the source completely, whatever the durability mode.    *)
BackupTo ==
  /\ open
  /\ tx = NoTx
  /\ synced' = Len(log)
  /\ UNCHANGED <<log, memory, acked, scarred>>

ForgetMemory ==
  /\ open' = FALSE
  /\ state' = EmptyMap
  /\ next_tx_id' = 1
  /\ next_sequence' = 1
  /\ tx' = NoTx
  /\ doubt' = {}

(* Dropping the Store unlocks the file; it neither writes nor syncs.       *)
DropStore ==
  /\ open
  /\ tx = NoTx
  /\ ForgetMemory
  /\ UNCHANGED <<log, synced, acked, scarred>>

-----------------------------------------------------------------------------
(* Transactions.                                                           *)

BeginAs(phase, todo) ==
  /\ open
  /\ tx = NoTx
  /\ next_tx_id < MaxTxId
  /\ next_tx_id' = next_tx_id + 1
  /\ tx' = [tx_id |-> next_tx_id, phase |-> phase, operations |-> << >>, todo |-> todo]
  /\ UNCHANGED <<log, synced, open, state, next_sequence, acked, doubt, scarred>>

Begin == BeginAs("active", << >>)

AppendUnchecked(op) ==
  /\ Len(log) < MaxBytes
  /\ next_sequence' = next_sequence + 1
  /\ log' = Append(log, LogRecord(op, tx.tx_id, next_sequence))
  /\ UNCHANGED scarred

(* Store.append: the sequence number is used up before anything can fail.  *)
AppendOk(op) ==
  /\ next_sequence < MaxSequence
  /\ Len(log) < MaxBytes
  /\ next_sequence' = next_sequence + 1
  /\ log' = Append(log, LogRecord(op, tx.tx_id, next_sequence))
  /\ UNCHANGED scarred

AppendErr ==
  \/ /\ next_sequence = MaxSequence
     /\ UNCHANGED <<next_sequence, log, scarred>>
  \/ /\ next_sequence < MaxSequence
     /\ next_sequence' = next_sequence + 1
     /\ \/ Len(log) >= MaxBytes /\ UNCHANGED <<log, scarred>>
        \/ Len(log) < MaxBytes /\ "Clean" \in WriteErrors /\ UNCHANGED <<log, scarred>>
        \/ /\ Len(log) < MaxBytes /\ "Torn" \in WriteErrors
           /\ log' = Append(log, Torn)
           /\ scarred' = TRUE

(* An operation whose append fails is not staged; the transaction goes on. *)
Stage(op) ==
  /\ tx.phase = "active"
  /\ Len(tx.operations) < MaxOps
  /\ \/ AppendOk(op) /\ tx' = [tx EXCEPT !.operations = Append(@, op)]
     \/ AppendErr /\ tx' = tx
  /\ UNCHANGED <<synced, open, state, next_tx_id, acked, doubt>>

TxPut(k, v) == Stage(Put(k, v))

TxDelete(k) == Stage(Delete(k))

(* rollback, and the drop of a transaction that was not committed.         *)
Rollback ==
  /\ tx.phase = "active"
  /\ tx' = NoTx
  /\ UNCHANGED <<log, synced, open, state, next_tx_id, next_sequence, acked, doubt, scarred>>

(* stage_changes: one change record per operation, indexed from 0.         *)
Changes(t, ops) ==
  [i \in DOMAIN ops |-> Put(<<t, i - 1>>, <<ops[i].kind, ops[i].key, ops[i].value>>)]

CommitBegin ==
  /\ tx.phase = "active"
  /\ tx' = [tx EXCEPT !.phase = "commit", !.todo = Changes(tx.tx_id, tx.operations)]
  /\ UNCHANGED <<log, synced, open, state, next_tx_id, next_sequence, acked, doubt, scarred>>

CommitStageIgnoresErrors ==
  /\ tx.phase = "commit"
  /\ tx.todo # << >>
  /\ \/ /\ AppendOk(Head(tx.todo))
        /\ tx' = [tx EXCEPT !.operations = Append(@, Head(tx.todo)), !.todo = Tail(@)]
     \/ AppendErr /\ tx' = [tx EXCEPT !.todo = Tail(@)]
  /\ UNCHANGED <<synced, open, state, next_tx_id, acked, doubt>>

(* An error ends the commit, and the transaction with it.                  *)
CommitStage ==
  /\ tx.phase = "commit"
  /\ tx.todo # << >>
  /\ \/ /\ AppendOk(Head(tx.todo))
        /\ tx' = [tx EXCEPT !.operations = Append(@, Head(tx.todo)), !.todo = Tail(@)]
     \/ AppendErr /\ tx' = NoTx
  /\ UNCHANGED <<synced, open, state, next_tx_id, acked, doubt>>

CommitAppend ==
  /\ tx.phase = "commit"
  /\ tx.todo = << >>
  /\ \/ AppendOk(Commit) /\ tx' = [tx EXCEPT !.phase = "sync"]
     \/ AppendErr /\ tx' = NoTx
     \/ NamespaceQuota /\ tx' = NoTx /\ UNCHANGED <<log, next_sequence, scarred>>
  /\ UNCHANGED <<synced, open, state, next_tx_id, acked, doubt>>

CommitSync ==
  /\ tx.phase = "sync"
  /\ synced' = SyncFile(log)
  /\ state' = ApplyOperations(state, tx.operations)
  /\ acked' = acked \cup {[tx_id |-> tx.tx_id, at |-> Len(log), operations |-> tx.operations]}
  /\ tx' = NoTx
  /\ UNCHANGED <<log, open, next_tx_id, next_sequence, doubt, scarred>>

CommitSyncErrAppliesFirst ==
  /\ tx.phase = "sync"
  /\ Syncs /\ SyncErrors
  /\ state' = ApplyOperations(state, tx.operations)
  /\ doubt' = doubt \cup {tx.tx_id}
  /\ tx' = NoTx
  /\ UNCHANGED <<log, synced, open, next_tx_id, next_sequence, acked, scarred>>

CommitSyncErr ==
  /\ tx.phase = "sync"
  /\ Syncs /\ SyncErrors
  /\ doubt' = doubt \cup {tx.tx_id}
  /\ tx' = NoTx
  /\ UNCHANGED <<log, synced, open, state, next_tx_id, next_sequence, acked, scarred>>

(* prune_changes_through deletes, in key order, the first changes of the   *)
(* feed up to transaction t, in a transaction that records no changes.     *)
KeyBefore(a, b) == a[1] < b[1] \/ (a[1] = b[1] /\ a[2] < b[2])

Prunable(t, limit) ==
  LET feed == {k \in ChangeKey : state[k] # NoValue /\ k[1] <= t}
  IN  {k \in feed : Cardinality({j \in feed : KeyBefore(j, k)}) < limit}

PruneChangesThrough(t, limit) ==
  \E n \in 1 .. limit : \E keys \in [1 .. n -> Prunable(t, limit)] :
    /\ \A i, j \in 1 .. n : i < j => KeyBefore(keys[i], keys[j])
    /\ \A k \in Prunable(t, limit) : \E i \in 1 .. n : keys[i] = k
    /\ BeginAs("commit", [i \in 1 .. n |-> Delete(keys[i])])

-----------------------------------------------------------------------------
(* Failures.                                                               *)

(* An append in progress when the process dies may leave part of a record. *)
Appending == tx.phase \in {"active", "commit"} /\ next_sequence < MaxSequence /\ Len(log) < MaxBytes

ProcessKill ==
  /\ open
  /\ ForgetMemory
  /\ log' = log \/ (Appending /\ log' = Append(log, Torn))
  /\ UNCHANGED <<synced, acked, scarred>>

(* A loss of power keeps the synced records and any prefix of the others,  *)
(* perhaps with part of the next one. Relaxed durability promises nothing  *)
(* about the records that go.                                              *)
PowerLoss ==
  /\ ForgetMemory
  /\ \E n \in synced .. Len(log) :
       \/ log' = SubSeq(log, 1, n)
       \/ (n < Len(log) \/ Appending) /\ log' = Append(SubSeq(log, 1, n), Torn)
  /\ synced' = Len(log')
  /\ acked' = IF Syncs THEN acked ELSE {a \in acked : a.at <= synced}
  /\ UNCHANGED scarred

-----------------------------------------------------------------------------
Next ==
  \/ OpenWithOptions
  \/ OpenRefused
  \/ Flush
  \/ BackupTo
  \/ DropStore
  \/ Begin
  \/ \E k \in Key, v \in Value : TxPut(k, v)
  \/ \E k \in Key : TxDelete(k)
  \/ Rollback
  \/ CommitBegin
  \/ CommitStage
  \/ CommitAppend
  \/ CommitSync
  \/ CommitSyncErr
  \/ \E t \in 1 .. MaxTxId - 1, limit \in 1 .. MaxOps : PruneChangesThrough(t, limit)
  \/ ProcessKill
  \/ PowerLoss

Spec == Init /\ [][Next]_vars

-----------------------------------------------------------------------------
(* Properties.                                                             *)

Transaction ==
  [tx_id: 0 .. MaxTxId, phase: {"none", "active", "commit", "sync"},
   operations: Seq(Operation), todo: Seq(Operation)]

(* Every variable has the type its Rust counterpart has, counters stay     *)
(* within their width, and the durable part of the file is part of it.     *)
TypeOK ==
  /\ log \in Seq(Record)
  /\ synced \in 0 .. Len(log)
  /\ open \in BOOLEAN
  /\ state \in [AnyKey -> AnyValue \cup {NoValue}]
  /\ next_tx_id \in 1 .. MaxTxId
  /\ next_sequence \in 1 .. MaxSequence
  /\ tx \in Transaction
  /\ acked \subseteq [tx_id: 1 .. MaxTxId, at: Nat, operations: Seq(Operation)]
  /\ doubt \subseteq 1 .. MaxTxId
  /\ scarred \in BOOLEAN

(* Whatever rollbacks, rejected appends, failed syncs, crashes and reopens *)
(* came before, the scan of recover never meets the errors                 *)
(* NonMonotonicSequence, RecordAfterCommit or CounterExhausted; and an     *)
(* open is refused for no other reason (a wrong checksum, kind or magic    *)
(* number) unless append has failed half way through a write, or an open   *)
(* without repair_torn_tail left an incomplete record, since the file was  *)
(* last repaired. Crashes and losses of power alone never make a file that *)
(* cannot be opened.                                                       *)
RecoveryAccepts ==
  /\ PrefixOk(log)
  /\ Recovered(log).max_tx_id < MaxTxId
  /\ Recovered(log).max_sequence < MaxSequence
  /\ scarred \/ RecoverOk(log)

(* The operation records that carry the identifier of the transaction in   *)
(* progress are its own operations, in order: it never adopts what a       *)
(* rolled-back, failed or interrupted transaction left in the log.         *)
OwnRecordsOnly ==
  tx.phase # "none" =>
    LET mine == {i \in DOMAIN log : IsOp(log[i]) /\ log[i].tx_id = tx.tx_id}
    IN  /\ Cardinality(mine) = Len(tx.operations)
        /\ \A i \in mine :
             LET op == tx.operations[Cardinality({j \in mine : j <= i})]
             IN  log[i] = LogRecord(op, tx.tx_id, log[i].sequence)

(* What readers see is exactly what the committed transactions of the log  *)
(* leave, except the one still waiting for its sync and those whose sync   *)
(* failed: nothing uncommitted, and no part of a transaction, is visible.  *)
VisibleIsCommitted ==
  open => state = Replay(log, Committed(log) \ (doubt \cup {tx.tx_id}))

(* A transaction whose commit returned Ok stays in the file, complete and  *)
(* readable by recovery, and within the part that a loss of power keeps    *)
(* unless durability is Relaxed.                                           *)
AckedIsDurable ==
  \A a \in acked :
    /\ a.at <= Intact(log)
    /\ Syncs => a.at <= synced
    /\ log[a.at].kind = "Commit" /\ log[a.at].tx_id = a.tx_id
    /\ \A i \in DOMAIN a.operations :
         LET r == log[a.at - Len(a.operations) + i - 1]
         IN  r = LogRecord(a.operations[i], a.tx_id, r.sequence)

(* The change feed describes every operation of every visible transaction, *)
(* under the number that its place in the transaction gives it, until a    *)
(* visible prune deletes it, and describes nothing else: a commit that     *)
(* fails half way through its changes leaves neither them nor their        *)
(* operations.                                                             *)
FeedIsComplete ==
  LET visible == Committed(log) \ (doubt \cup {tx.tx_id})
      on(K) == {i \in DOMAIN log : IsOp(log[i]) /\ log[i].key \in K /\ log[i].tx_id \in visible}
      change(i) == <<log[i].tx_id,
                     Cardinality({j \in on(Key) : j < i /\ log[j].tx_id = log[i].tx_id})>>
      pruned(k) == \E i \in on(ChangeKey) : log[i].key = k /\ log[i].kind = "Delete"
  IN  open =>
        /\ \A i \in on(Key) :
             \/ pruned(change(i))
             \/ state[change(i)] = <<log[i].kind, log[i].key, log[i].value>>
        /\ \A k \in ChangeKey : state[k] # NoValue =>
             ~pruned(k) /\ \E i \in on(Key) : change(i) = k

(* What readers see cannot be taken away by a loss of power.               *)
VisibleIsDurable ==
  open /\ Syncs =>
    \A t \in Committed(log) \ (doubt \cup {tx.tx_id}) : CommitAt(log, t) <= synced

=============================================================================
