# A TLA+ model of voodoo-store

voodoo-store is an embedded store: an append-only log with a key-value map in
memory, transactions with one writer, and durable primitives (queues, jobs,
workflows, streams, objects, collections and others) that are records under
internal keys, read and written through those transactions. This directory
models it in TLA+, checks the models with TLC and proves the main results with
TLAPS. Source paths below are relative to `crates/voodoo-store-core/src` unless
they name another crate.

## The system

| part | code | state and its owner | module |
|---|---|---|---|
| log records | `log.rs` | the file | `LogRecovery` |
| recovery | `engine.rs` `recover` | reads the file, builds map and counters | `LogRecovery`, `RecoverScan` |
| storage engine | `engine.rs` | `Store` (map, counters, file); `Transaction` borrows it mutably | `StoreEngine`, `TransactionalStore`, `StoreRefinement` |
| writer lock | `engine.rs` | names kept by a process, locks of the operating system | `WriterLock` |
| namespace quota | `engine.rs` | totals of the map by namespace | `NamespaceQuota` |
| header; generations and activation; compaction, snapshot, checkpoint, restore | `header.rs`, `generation.rs`, `activation.rs`, `compaction.rs`, `snapshot.rs`, `checkpoint.rs`, `restore.rs` | files of one directory and their names | `StoreFiles`; what copies do to identifiers: `Feeds` |
| change feed | `cdc.rs` | change records written by each commit | `StoreEngine`; readers and pruning: `Feeds` |
| queue | `queue.rs` | message records, next identifier | `Queue` |
| jobs; schedules, cron schedules, triggers | `jobs.rs`, `cron_scheduler.rs`, `triggers.rs` | job and history records; sources that create jobs | `Jobs`, `JobSources` |
| cron expressions | `cron.rs` | none | `Calendar` |
| workflows | `workflow.rs` | instances, their history and waits | `Workflows` |
| streams and subscriptions | `messaging.rs` | entries, next offsets, cursors | `Streams` |
| consumer groups | `consumer_group.rs` | one lease and cursor for each group | `ConsumerGroups` |
| outbox, rpc | `outbox.rs`, `rpc.rs` | events, requests, responses, ordered by transaction | `Feeds` |
| TTL, atomics | `ttl.rs`, `atomic.rs` | values and expiry records beside them | `KeyValues` |
| collections and queries | `collection.rs`, `query.rs` | records, indexes, schema versions | `Collections` |
| object store | `objects.rs` | objects, metadata, references | `Objects` |
| transaction domains | `transaction_domains.rs`, `transactional.rs` | operations of the primitives inside a caller's Transaction | `Transactions`, `Streams`, `Objects`, `StagedWork` |
| Python and C bindings | `voodoo-store-python`, `voodoo-store-ffi` | a slot or handle that lends the Store | `Bindings` |
| Python migrations, backup manifests | `python/voodoo_store/migrations.py`, `backup.py` | rows and schema version; backup and manifest files | `Migrations`, `Backups` |

Nothing in the core runs concurrently with a transaction: `Transaction` holds
`&mut Store`. What interleaves with the steps of an operation is failure (an
append refused by a quota, a write or a sync that returns an error, the death of
the process, the loss of power) and, for the primitives, callers that act on
what an earlier call returned: workers that use a lease long after they got it,
readers with an old cursor, consumers with an old delivery. Real concurrency
exists around the Store: processes that open the same file, Python threads and
objects that share a slot. `PROJECT.json` lists these hazards with their lines
and the properties that would notice them going wrong.

## Modules

The engine:

* **`LogRecovery`** describes a log and what recovery returns for it, without a
  loop. A record has a kind, a transaction identifier, a sequence number, a key
  and a value, or is `Torn`. Bytes, lengths and checksums are abstracted; that a
  checksum fails to notice damage is outside the model. Change-feed keys are
  pairs (transaction, index) ordered as their encodings are. A torn last record
  ends the scan; one with others behind it (`TornInside`) is taken together with
  them for one record, so that recovery stops there or fails (`RecoverOk`).
* **`RecoverScan`** is the loop of `recover`, one action per way an iteration
  can go, over files that need not come from this engine.
* **`StoreEngine`** is the engine. `log` is the file as the operating system
  shows it and `synced` the part that a loss of power cannot take. `tx` is the
  open transaction: `put` and `delete` append their record at once, a commit
  appends the change records, then the commit record, then syncs, then updates
  the map; each of these is a step, so an error or a crash can fall between any
  two. A failing append consumes its sequence number and leaves either nothing
  or a torn record (`WriteErrors`); a failing sync leaves the transaction
  committed in the file, not visible, and reported as an error (`doubt`). An
  open that meets a torn record inside the file recovers what is before it or is
  refused (`OpenRefused`); `scarred` is the history that an open Store has left
  such a record. `acked` is the history of what callers were promised.
* **`TransactionalStore`** is what the engine promises to a caller who never
  sees the log, and **`StoreRefinement`** the mapping under which `StoreEngine`
  implements it.

Around the engine, each with state of its own:

* **`StoreFiles`** has the files of a directory, the names they have, and the
  directories that a loss of power may leave (`disk`). `task` is the operation
  in progress and where it is: opening, building a generation, the two renames
  of an activation with their directory syncs, its rollback and its recovery,
  compaction, snapshot, checkpoint, restore. Each step may fail or be the last.
* **`WriterLock`** has processes that open and close a file by several names.
  The set of names kept in a process and the lock of the operating system are
  separate, as in the code.
* **`NamespaceQuota`** is the walk over the changed keys of a commit in any
  order (the code iterates over a `HashMap`), with sizes, a limit or none, and
  totals that overflow.
* **`Bindings`** has the objects that Python or C code holds, used and dropped
  in any order, and the slot that a Python transaction takes the Store from. A
  commit hands its operations to the engine one by one (`NextOperation`), each of
  which may be refused, and may end with the process; `filed` is what the next
  open finds.
* **`Migrations`** and **`Backups`** are `migrate_collection` and
  `create_backup_manifest`, step by step, with other threads that write, migrate
  or make backups too, interruptions, and stores that are opened again.
* **`Calendar`** is the day arithmetic of `cron.rs`: dates, field matching, and
  the search for the next matching day. The reference it is compared with
  counts days one at a time.

The primitives:

* **`DurableRecords`** is the engine as the primitives use it: a transaction
  succeeds, or stays in doubt until a restart. Failures before the commit record
  change nothing that recovery reads and are left out. `medium` is the list of
  maps that a recovery may find, from the synced log to the whole log. It stands
  for Strict and Data durability. That it abstracts `StoreEngine` is argued from
  `StoreRefinement`, not proved.
* **`Queue`** is `queue.rs` on top of it, one action per operation. `receipts`
  are the claims that workers remember and may use at any later time; times are
  arguments of the caller and need not advance, so a lease may expire at any
  moment.
* **`Jobs`** is the life of a durable job. A job has two records, itself and its
  history; a heartbeat writes the first only. `call` is an operation between two
  of its transactions: a claim first buries the jobs past their deadline, one
  transaction each, and `release_expired_jobs` is such a loop too. While `call`
  is set nothing else runs, but a transaction may fail or the process die.
* **`JobSources`** composes `Jobs` with one-shot and interval schedules, cron
  schedules and triggers. A schedule's tick is one transaction per run, a cron
  tick two (`CronSubmitStep`, `CronAdvanceStep`). The times a cron expression
  matches are the constant `CronTimes`.
* **`Transactions`** extends `DurableRecords` by a caller's open Transaction
  (`stage`), whose operations read what earlier ones staged (`View`), and by
  maintenance that makes one transaction per record (`call`). `told` is the
  history of what was reported to callers, `doubted` that of keys in doubt.
  Properties quantify over `Copy`: memory and every map a recovery may find.
* **`Streams`**, **`ConsumerGroups`** and **`Feeds`** are composed by
  **`Messaging`**; **`Workflows`**, **`Collections`**, **`Objects`**,
  **`KeyValues`** and **`StagedWork`** by **`Documents`**. In both, operations
  of different primitives meet in one Transaction. `Feeds` also numbers the
  transactions and may replace the store by a compact copy or a generation, as
  far as readers with a cursor notice it. `StagedWork` has the second
  implementations of push, submit and fire, which work inside a Transaction,
  beside the first. `KeyValues` keeps for each key what calls may have left there
  (`held`), so that any other value would be noticed.

Modules with `MC` in front only add what TLC needs. Modules ending in `Proofs`
or `Theorems` hold theorems. A definition named for a bug, such as `PushWritesMessageOnly`, is
a wrong version of the definition after it: replacing the right one by it makes
TLC report a violation of the property it is paired with in `PROJECT.json`.

## Runs

Counters are small stand-ins for `u64::MAX` and the like, so exhaustion of
identifiers, offsets, generations and sequence numbers is reached and checked
too. In `host`, `job_cases`, `messaging` and `documents` a behaviour explores
one case, chosen at the start (`focus`), with operations and bounds of its own:
cases that need many steps are explored where little else happens. The bounds
are in the `MC` modules.

| run | question | bounds |
|---|---|---|
| `engine_crash` | Does the engine keep acknowledged transactions, hold no record of another transaction in one, describe each in the change feed, and implement the abstract store? | one key and value, three transactions of two operations, six records in the file (the quota), seven sequence numbers, clean write errors, sync errors, quotas |
| `engine_torn_write` | What can a half-written record do: does the map stay right and the order of records sound, and is nothing but such a record a reason to refuse a file? | one operation per transaction, seven records |
| `host` | Each part around the engine by itself. | three files, two acknowledged commits and three faults; scanned files of up to four records; two processes, two names and two handles each; three keys of two namespaces, totals up to three; two transaction objects with two operations; three rows in batches of two, two migrations, at the same time only without dry runs and with one write; two backup makers; every day from 1968 to 2104 and three expressions |
| `queue` | Are generations fencing tokens, settlements final, messages kept and delivered unmixed? | one message with three attempts, two workers, two commits in doubt, two times; or two messages with two priorities, one attempt each and one commit in doubt |
| `job_cases` | Does a generation fence off earlier holders, are attempts bounded and finished jobs final, when can two active jobs share a key, does the history tell the state? Does a run of a schedule create one job at most, does a cron schedule lose no run, is every reported fire counted? | one job with five history entries (three after a commit in doubt, unless it has one attempt); two jobs with six together and nothing in doubt; or sources of one kind with two jobs |
| `messaging` | Streams, subscriptions, groups, outbox, rpc, change feed and their readers. | one stream with three offsets, two consumers, three generations, three transactions, two operations in a Transaction, one commit in doubt at a time |
| `documents` | Workflows, collections, objects, application keys, staged messages, jobs and triggers. | two workflows with four to five transitions, two indexes of which one is unique, two objects and names, two keys with counters from -1 to 2 and deltas of -1 and 2, two jobs, two operations in a Transaction, one commit in doubt at a time |

Six records are enough for a transaction that fails or is rolled back, a
restart, and a later transaction that commits after it with its change records;
identifiers reused after a crash, torn tails below new records and commits in
doubt below acknowledged ones all occur. `queue` reaches a claim in doubt, a
restart that reveals it and two further claims of the message. Five history
entries let a job be claimed twice, die and be revived. Three faults let an
activation, its rollback and the recovery after it fail in one behaviour. The
years include 2100, which has no leap day. `engine_torn_write` identifies states
that differ in the history `acked` only, which none of its properties reads.
Deadlock is checked except in `host`, whose parts end: a finished scan, the last
day, a store whose faults are spent.

### What is checked

| property | it says |
|---|---|
| `TypeOK`, `OwnRecordsOnly`, `AckedIsDurable`, `FeedIsComplete` | the engine's types and widths; a committed transaction consists of its own records although identifiers come again; what was acknowledged survives; the feed has each change |
| `ImplementsTransactionalStore` | every step of the engine is one of the abstract store or changes nothing that a caller can see |
| `RecoveryAccepts`, `VisibleIsCommitted` | the records that a scan reaches are in order and leave room for the next, and a file is refused only for a torn record that a failed write left below others; readers see exactly the committed transactions not in doubt |
| `ScanIsRight` | the loop of `recover` computes its definition, and fails only for a reason that the file gives |
| `NothingIsLost`, `NoFileIsReplaced`, `ReportedCopiesHold` | whatever directory a loss of power leaves, it or its recovery serves all acknowledged commits; no name is taken from a file for another; a reported copy stays complete under its name, but for what a loss of power does to a directory that nobody synced |
| `ActivationSettles` | (liveness) a store whose active file is missing gets it back with all that was acknowledged |
| `WritersAreExclusive` | one writer for each file whatever names it has, and one holder for each kept name |
| `VerdictIsRight` | the namespace quota accepts what ends within the limit only, and when it can reject such a commit |
| `PythonTransactionsHold`, `CommitsAreWhole` | the slot tells where the Store is, reads through a transaction see its writes; what readers see, and what the next open finds, changes by whole transactions, whichever operation is refused and wherever the process ends |
| `MigratedInFull`, `ManifestTellsBackup` | the schema version is raised after all rows, through interruptions and a second migration; a manifest is never accepted for an incomplete backup |
| `RunsFollowTheCalendar` | dates and weekdays are right, and the bounded search finds the next run |
| `GenerationsAreUnique`, `SettledIsFinal`, `PushedIsKept`, `DeliveredAsPushed` | fencing, finality and conservation of queue messages |
| `SettledByHolder`, `JobsEndForGood`, `OneActivePerKey`, `HistoryExplainsState` | the same for jobs, bounded attempts, idempotency keys, and a history that leads to the state |
| `SourcesKeepCount` | one job for each run, no cron run lost, fires counted |
| `StreamsKeepEntries`, `SubscribersMissNothing` | entries reported stay at their offsets and leave no holes; cursors fall only by a reset and pass only entries delivered |
| `LeasesAreFenced`, `GroupSkipsNothing` | deliveries of a group have increasing generations and only the latest holder settles; the cursor passes only delivered entries |
| `RequestsAreAnsweredOnce`, `EventsReachReaders`, `ChangesAreKept` | a request is open or answered, once; events and changes stay until removed on request, and paging readers miss none |
| `WorkflowsAreSound` | finished is final, the history keeps its entries and tells the status, a wait is answered once |
| `CollectionIsSound` | exact and range queries find exactly the records that have the value, unique indexes are unique, schema versions form a chain |
| `ReferencesAreSound` | references resolve, metadata has its object, garbage collection spares what is linked |
| `ValuesAreSound` | timed values keep their expiry and are purged only when they are over; every value, in memory and in what a recovery may find, is one that a put, a swap or an exact sum has left |
| `StagedWorkIsSound` | push, submit and fire inside a Transaction agree with those outside it on identifiers, keys and counts |

Properties with several parts are conjunctions of named ones, each with a
comment of its own at its definition. "Kept" always means in memory and in every
map that a recovery may find.

Fairness is assumed in one place. `FileFairness` says that operations on files
run to their end, which is what a function does once it is called, and that the
caller of an interrupted activation calls `recover_generation_activation` sooner
or later, as `activation.rs` asks. No other liveness is claimed: no code in the
core retries or waits, so nothing happens unless a caller asks for it.

### Where a document says otherwise

Five runs end in a violation, each of a statement in the repository:

* `torn_write_loses_commits`: `Store::append` leaves a half-written record when
  `write_all` fails and the Store goes on after it. Transactions acknowledged
  afterwards are behind an incomplete record, and the next open truncates them
  or fails on a magic number or checksum, against invariant 1 of `docs/INVARIANTS.md`. The
  same loss follows when a file with a torn tail is opened with
  `repair_torn_tail` off, which is why the proof assumes it on.
* `reopen_shows_unsynced`: `open_with_options` shows transactions whose commit
  record no sync has covered, against `docs/SPEC.md` on visibility. The trace is
  a process killed between the write of the record and its sync; a sync that
  fails before a restart leads to the same.
* `stale_ack_after_retry`: `retry_job` starts generations again at zero, so a
  worker left over from a job's first life can settle it in its second, against
  the stale ACK rejection that `docs/BINDING_CONTRACT.md` asks for. Without
  `retry_job` the fencing holds (`SettledByHolder`).
* `cron_tick_duplicates`: a cron tick that stopped after `submit_job` and is
  repeated when the job is no longer active creates a second job, against the
  comment at the head of `cron_scheduler.rs`.
* `stale_generation_returns`: when the directory sync after the first rename of
  an activation fails, the rename is undone without another sync. The store goes
  on; a loss of power may bring the renamed layout back, and recovery completes
  it with the generation, which lacks the commits made since, against the heads
  of `activation.rs` ("explicitly synchronized after each rename") and of its
  function ("rejected as stale").

Properties have exceptions where the code does what no document denies:

* `retry_job` and `tick_schedules` do not look for another active job with the
  key; a submission or tick in doubt is invisible until the Store is reopened, so repeating it may
  leave two jobs; a heartbeat after a commit in doubt may leave a history ahead
  of the job; a one-shot schedule that is turned on again fires for its old time.
* A commit in doubt may leave an entry at an offset that the next append takes.
* A page of a feed may end inside a transaction, and a cursor that is a
  transaction identifier then passes the rest of it.
* A compact copy starts with low transaction identifiers, so they come again.
* A name given to the active file and not synced may be lost with the power
  (`loose`), and `Store::open` between the renames of an activation creates an
  empty store, which `activation.rs` asks callers not to do (`stray`).
* A record or a reference in doubt is invisible to the upsert or the garbage
  collection that follows, so a restart may reveal an index entry or a reference
  that has lost what it points to.
* The namespace quota compares running totals: a commit that shrinks one key and
  grows another may be rejected in one order of the `HashMap` only.
* A migration works on its scan: keys written by other threads meanwhile are
  not claimed to be migrated. Two backups to one destination at a time may mix.

`PROJECT.json` notes each of these at the hazard that it belongs to.

## Proofs

All theorems hold for every value of the constants that the modules' named
assumptions allow.

* **`LogRecoveryProofs`** has lemmas about scanning and replaying a log. The
  central one, `ReplayApply`, says that replaying a log extended by a committed
  transaction is applying that transaction's operations to the replay of the log.
* **`StoreEngineProofs`** proves `TypeCorrect` and `RecoveryAlwaysAccepts` in
  every configuration, torn writes included. Neither is inductive: the invariant
  (`Inv`) adds that sequence numbers increase and transaction identifiers never
  fall along the whole file, torn records skipped (`WellOrdered`), that the
  counters in memory are ahead of every record, and that the open transaction has
  the highest identifier and no commit record before its sync. A second one
  (`Scars`) says that unless `scarred` the file is torn at its end at most, and
  not at all under an open Store. With tail repair and clean write errors no file
  is ever scarred, so every file can be opened (`FilesStayReadable`). Under the
  same two assumptions, without which acknowledged transactions are lost as
  described above, it proves `AcknowledgedStaysDurable` and
  `VisibleStaysCommitted`, for every durability mode, Relaxed included, which the
  runs do not explore. The invariant (`SafeInv`) adds that only a closed file can
  end in a torn record, that the records of the open transaction are the end of
  the log, that transactions in doubt are older than it, and that acknowledged
  ones lie within the synced part.
* **`HostProofs`** proves three properties of `host`. `WritersStayExclusive`: the
  invariant ties the phases of the handles to the names kept by a process and to
  the holders of the lock. `ManifestsTellBackups`: a digest that a thread carries
  is one of a complete copy, unless backups overlapped. `RecoverIsRight`: after
  each iteration the loop of `recover` has what the definition gives for the
  records read so far, so no induction over data is needed.
* **`QueueProofs`** proves the type invariant of the queue and its four
  properties. A restart replaces the records in memory by some that only the
  medium had, so the invariant (`IInv`) states of every map that a recovery may
  find what it states of memory: attempts are at least every generation handed
  out, settled messages are dead or absent, acknowledged messages present, and
  all identifiers handed out are below the next one. A push in doubt moves the
  next identifier of the newest map ahead by at most one, which is why reusing
  that identifier is harmless.
* **`MessagingProofs`** first shows that every step of `Messaging` has one of a
  few forms (`StepOf`) and writes records of known kinds, so that an invariant
  about one primitive need not know the others. `GroupLeasesAreFenced` rests on
  `GroupInv`: in every map a recovery may find the generation of a group is at
  least that of every delivery reported, and a Transaction stages nothing of a
  group. For `StreamsAreKept`, a commit in doubt leaves the medium ahead of
  memory, and the next append, which counts from memory, writes over what it
  left. `StreamInv` says why this is harmless: writes to a stream begin at the
  next offset in memory, which is beyond every reported entry, and the newest map
  is never behind memory.
* **`DeliveryProofs`** proves `SubscribersAreServed` and `GroupsAreServed` on this
  base. Its invariants say of every map that the entries present at an offset
  were reported or are in doubt (`EntryInv`), and that all entries below a cursor
  were polled by its subscription (`SubscriberInv`) or delivered to its group
  (`ServedInv`), resets aside.
* **`JobProofs`** shows that the steps of workers, the reaper, recoveries,
  submissions and ticks keep the invariants of jobs (`JobInv`) and of their
  sources (`SourceInv`), and **`JobTheorems`** the same of the operations on
  sources and of triggers; it proves the five properties of `job_cases`:
  `OnlyHoldersSettle`, `FinishedJobsStay`, `HistoriesExplain`, `KeysAreExclusive`
  and `SourcesCount`. As for the queue, the invariants speak of every map that a
  recovery may find; jobs whose commits were never in doubt are the same in all
  of them, and a call between two of its transactions remembers what it found.

Only model-checked: the refinement (it speaks of folds over histories),
`OwnRecordsOnly` and `FeedIsComplete`; of `host` the files, the namespace quota,
the bindings, migrations and the calendar; of `messaging` the properties of
requests, events and changes; all of `documents`; and liveness, which the prover
does not reach.

## Assumptions

* A loss of power keeps the synced records and a prefix of the others; files
  have no holes. A sync that succeeds covers data of an earlier failed one.
  Changes of a directory reach the disk in their order.
* A torn record below others makes recovery stop there or fail on a checksum or
  magic number, and is never taken for a whole record.
* Under Relaxed durability the truncation of a torn tail is not reordered with
  later writes.
* The engine model lets a namespace quota reject any commit; which ones it
  rejects is the matter of `NamespaceQuota`.
* All files of an activation are in one directory.
* A caller whose operation fails inside a Transaction drops it, as the bindings
  do. After a commit in doubt a migration opens the store again.
* Random identifiers and nonces are unused ones; digests identify content; the
  transformer of a migration leaves a row that it has transformed as it is.
* Time arguments, payloads and names are opaque; only their order or identity
  matters to the code modelled.

## Not modelled

* The reports of `operations.rs`, statistics and listings: they read only.
* The plain types and builders of collection models, which have no state.
* The command line and the Python wrappers of the primitives: conversion of
  arguments and results around one call of the core. Of the bindings what has
  state is modelled, the slot, the handles and the staged transactions.
* Object transfer in Python, a generator that reads chunks.
* Codecs, hashing, checksums and chunked reads: what they compute for every
  input is a matter of bytes, where small instances show little.
* Minutes and hours of cron expressions, which match like days but without the
  irregular lengths that make days worth checking.
* A proof that `StoreEngine` implements `DurableRecords` one transaction at a
  time; it would be the next to add.
