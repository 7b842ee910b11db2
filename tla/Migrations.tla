----------------------------- MODULE Migrations ------------------------------
(***************************************************************************)
(* migrate_collection of python/voodoo_store/migrations.py: it scans a     *)
(* collection, transforms the records in batches of one transaction each,  *)
(* and advances the schema version last. Other threads use the collection  *)
(* between any two of its calls to the store, and may migrate it, too. A   *)
(* call may raise, and the process may end, after any of them; the caller  *)
(* then starts again. The transformer is idempotent, as the module asks.   *)
(***************************************************************************)
EXTENDS Naturals, Sequences, SequencesExt

CONSTANTS
  PrimaryKey,   \* naturals; a scan goes through them in order
  Datum,        \* what an application stores
  NoRow,
  Migrator,     \* threads that call migrate_collection
  NoMigration,
  BatchSize,
  MaxWrites     \* writes of the application

VARIABLES
  rows,       \* the collection: datum and format of each record
  schema,     \* its version, 1 before the migration and 2 after
  migration,  \* each running call: records left of its scan, and pending ones
  latest,     \* history: what the application last stored under a key
  crossed,    \* history: keys written while a migration was running
  writes      \* history: how many writes there were

migrationVars == <<rows, schema, migration, latest, crossed, writes>>

Row(d, format) == [datum |-> d, format |-> format]

InitMigrations ==
  /\ rows \in [PrimaryKey -> {Row(d, 1) : d \in Datum} \cup {NoRow}]
  /\ schema = 1
  /\ migration = [m \in Migrator |-> NoMigration]
  /\ latest = [k \in PrimaryKey |-> IF rows[k] = NoRow THEN NoRow ELSE rows[k].datum]
  /\ crossed = {}
  /\ writes = 0

(* Another thread stores or deletes a record, in the format of the schema. *)
ApplicationWrites(k, d) ==
  /\ writes < MaxWrites
  /\ rows' = [rows EXCEPT ![k] = IF d = NoRow THEN NoRow ELSE Row(d, schema)]
  /\ latest' = [latest EXCEPT ![k] = d]
  /\ crossed' = IF \A m \in Migrator : migration[m] = NoMigration
                THEN crossed ELSE crossed \cup {k}
  /\ writes' = writes + 1
  /\ UNCHANGED <<schema, migration>>

Scanned ==
  LET stored == {k \in PrimaryKey : rows[k] # NoRow} IN
  [i \in DOMAIN SetToSortSeq(stored, <) |->
     LET k == SetToSortSeq(stored, <)[i] IN [key |-> k, row |-> rows[k]]]

(* The version is the expected one, or MigrationConflict.                  *)
StartMigration(m, dry_run) ==
  /\ migration[m] = NoMigration /\ schema = 1
  /\ migration' = [migration EXCEPT ![m] = [rest |-> Scanned, pending |-> <<>>, dry |-> dry_run]]
  /\ UNCHANGED <<rows, schema, latest, crossed, writes>>

Running(m) == migration[m] # NoMigration

(* The next record of the scan goes through the transformer.               *)
TransformNext(m) ==
  /\ Running(m)
  /\ migration[m].rest # <<>> /\ Len(migration[m].pending) < BatchSize
  /\ LET record == Head(migration[m].rest) IN
     migration' = [migration EXCEPT ![m].rest = Tail(@),
       ![m].pending = Append(@, [record EXCEPT !.row = Row(record.row.datum, 2)])]
  /\ UNCHANGED <<rows, schema, latest, crossed, writes>>

Upserted(m) ==
  [k \in PrimaryKey |->
     LET mine == SelectSeq(migration[m].pending, LAMBDA record : record.key = k) IN
     IF migration[m].dry \/ mine = <<>> THEN rows[k] ELSE Last(mine).row]

FullBatchesOnly(m) == Len(migration[m].pending) = BatchSize

(* A full batch is committed, and what is left at the end.                 *)
BatchIsDue(m) ==
  \/ Len(migration[m].pending) = BatchSize
  \/ migration[m].rest = <<>> /\ migration[m].pending # <<>>

CommitBatch(m) ==
  /\ Running(m) /\ BatchIsDue(m)
  /\ rows' = Upserted(m)
  /\ migration' = [migration EXCEPT ![m].pending = <<>>]
  /\ UNCHANGED <<schema, latest, crossed, writes>>

AllCommitted(m) == Running(m) /\ migration[m].rest = <<>> /\ ~BatchIsDue(m)

(* migrate_collection_schema changes the version if it is still the        *)
(* expected one. A dry run ends without it.                                *)
AdvanceSchema(m) ==
  /\ AllCommitted(m)
  /\ migration[m].dry \/ schema = 1
  /\ schema' = IF migration[m].dry THEN schema ELSE 2
  /\ migration' = [migration EXCEPT ![m] = NoMigration]
  /\ UNCHANGED <<rows, latest, crossed, writes>>

(* MigrationConflict: another call has changed the version. The batches    *)
(* stay.                                                                   *)
FindConflict(m) ==
  /\ AllCommitted(m) /\ ~migration[m].dry /\ schema # 1
  /\ migration' = [migration EXCEPT ![m] = NoMigration]
  /\ UNCHANGED <<rows, schema, latest, crossed, writes>>

(* The transformer or a call to the store raises.                          *)
Interrupt(m) ==
  /\ Running(m)
  /\ migration' = [migration EXCEPT ![m] = NoMigration]
  /\ UNCHANGED <<rows, schema, latest, crossed, writes>>

(* The process ends, or the sync of a write fails and the application      *)
(* opens the store again: every call ends, and the write that was in       *)
(* progress shows or not (a commit in doubt).                              *)
Restart ==
  /\ migration' = [m \in Migrator |-> NoMigration]
  /\ \/ UNCHANGED <<rows, schema>>
     \/ \E m \in Migrator :
          \/ Running(m) /\ BatchIsDue(m) /\ rows' = Upserted(m) /\ UNCHANGED schema
          \/ AllCommitted(m) /\ ~migration[m].dry /\ schema' = 2 /\ UNCHANGED rows
  /\ UNCHANGED <<latest, crossed, writes>>

MigrateSteps ==
  \/ \E k \in PrimaryKey, d \in Datum \cup {NoRow} : ApplicationWrites(k, d)
  \/ Restart
  \/ \E m \in Migrator :
       \/ \E dry_run \in BOOLEAN : StartMigration(m, dry_run)
       \/ TransformNext(m) \/ CommitBatch(m) \/ AdvanceSchema(m) \/ FindConflict(m) \/ Interrupt(m)

-----------------------------------------------------------------------------
(* Properties.                                                             *)

(* Once the schema has the next version, every record is in its format and *)
(* has the datum last stored, however often the migration was interrupted  *)
(* and started again between its batches, and also if two threads migrate  *)
(* at a time and one of them, with batches still to commit, is overtaken   *)
(* by the other. The exception is a key that another thread wrote while a  *)
(* migration was running: the migration works on its scan, so it may put   *)
(* an old datum or a deleted record back, and overlooks a new one.         *)
(* (migrate_collection, "the schema version advances only after every      *)
(* batch succeeds")                                                        *)
MigratedInFull ==
  schema = 2 => \A k \in PrimaryKey \ crossed :
    rows[k] = IF latest[k] = NoRow THEN NoRow ELSE Row(latest[k], 2)

=============================================================================
