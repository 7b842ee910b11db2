----------------------------- MODULE Collections -----------------------------
(***************************************************************************)
(* One collection (collection.rs, query.rs): its definition and the        *)
(* migrations of its schema, its indexes, its records and the index        *)
(* entries that point to them. A record is represented by the index values *)
(* that were given with it; its content is opaque.                         *)
(***************************************************************************)
EXTENDS Transactions

CONSTANTS
  PrimaryKey,
  Index,
  IndexVal,     \* the values of an index, as numbers in their byte order
  MaxVersion,   \* bound: schema versions
  MaxPairs,     \* bound: index values given with a record
  NoBound,      \* QueryBound::Unbounded
  NoLimit

ASSUME CollectionAssumption ==
  PrimaryKey \subseteq Nat /\ IndexVal \subseteq Nat /\ MaxVersion \in Nat /\ MaxPairs \in Nat

Version == 1 .. MaxVersion

MetaKey == <<"collection", 0, 0>>
MigrationKey(from, to) == <<"migration", from, to>>
IndexMetaKey(x) == <<"index", x, 0>>
CollectionRecordKey(p) == <<"record", p, 0>>
EntryKeyOf(pair, p) == <<"entry", pair, p>>

Pair == Index \X IndexVal

CollectionKeys ==
  {MetaKey} \cup {MigrationKey(f, t) : f, t \in Version} \cup {IndexMetaKey(x) : x \in Index}
    \cup {CollectionRecordKey(p) : p \in PrimaryKey}
    \cup {EntryKeyOf(pair, p) : pair \in Pair, p \in PrimaryKey}

HasIndex(m, x) == m[IndexMetaKey(x)] # NoRecord

(* index_value_prefix scanned: who has the value in the index.             *)
Owners(m, pair) == {p \in PrimaryKey : m[EntryKeyOf(pair, p)] # NoRecord}

RecordOf(m, p) == IF m[CollectionRecordKey(p)] = NoRecord THEN {} ELSE m[CollectionRecordKey(p)]

Migrated(from, to) == <<"migrated", [from |-> from, to |-> to]>>

-----------------------------------------------------------------------------
CreateCollection == mem[MetaKey] = NoRecord /\ Alone(Put(MetaKey, 1), {})

MayMigrate(expected, next) == mem[MetaKey] = expected /\ next > expected

MigrateCollectionSchema(expected, next) ==
  /\ MayMigrate(expected, next)
  /\ Alone(And(Put(MetaKey, next), Put(MigrationKey(expected, next), "migration")),
           {Migrated(expected, next)})

DefineIndex(x, unique) ==
  /\ mem[MetaKey] # NoRecord
  /\ ~HasIndex(mem, x)
  /\ Alone(Put(IndexMetaKey(x), IF unique THEN "unique" ELSE "plain"), {})

(* The indexes exist, and no other record has a value of a unique one.     *)
UniqueFor(p, pairs) ==
  \A pair \in pairs :
    View[IndexMetaKey(pair[1])] = "unique" => Owners(View, pair) \subseteq {p}

MayUpsert(p, pairs) ==
  /\ View[MetaKey] # NoRecord
  /\ \A pair \in pairs : HasIndex(View, pair[1])
  /\ UniqueFor(p, pairs)

EntriesOf(p, pairs, record) == [k \in {EntryKeyOf(pair, p) : pair \in pairs} |-> record]

UpsertKeepsEntries(p, pairs) ==
  And(Put(CollectionRecordKey(p), pairs), EntriesOf(p, pairs, p))

(* The entries of the record as it was are removed, then the record and    *)
(* its entries are written.                                                *)
UpsertWrites(p, pairs) ==
  And(EntriesOf(p, RecordOf(View, p), NoRecord),
      And(Put(CollectionRecordKey(p), pairs), EntriesOf(p, pairs, p)))

DeleteWrites(p) ==
  And(Delete(CollectionRecordKey(p)), EntriesOf(p, RecordOf(View, p), NoRecord))

UpsertRecord(p, pairs) == MayUpsert(p, pairs) /\ Alone(UpsertWrites(p, pairs), {})

TxUpsertRecord(p, pairs) == MayUpsert(p, pairs) /\ Staged(UpsertWrites(p, pairs), {})

(* Nothing is written when the record is absent.                           *)
DeleteRecord(p) == mem[CollectionRecordKey(p)] # NoRecord /\ Alone(DeleteWrites(p), {})

TxDeleteRecord(p) == View[CollectionRecordKey(p)] # NoRecord /\ Staged(DeleteWrites(p), {})

-----------------------------------------------------------------------------
(* query_index_exact: the owners that have a record.                       *)
QueryIndexExact(m, pair) ==
  {p \in Owners(m, pair) : m[CollectionRecordKey(p)] # NoRecord}

BoundIncluded(v) == [value |-> v, included |-> TRUE]
BoundExcluded(v) == [value |-> v, included |-> FALSE]

WithinBounds(v, start, end) ==
  /\ start = NoBound \/ v > start.value \/ (v = start.value /\ start.included)
  /\ end = NoBound \/ v < end.value \/ (v = end.value /\ end.included)

EntryBefore(a, b) == a[1] < b[1] \/ (a[1] = b[1] /\ a[2] < b[2])

(* query_index_range: the entries of the index within the bounds, sorted   *)
(* by value and primary key, in ascending or descending order, cut after   *)
(* limit of them.                                                          *)
QueryIndexRange(m, x, start, end, descending, limit) ==
  LET found == {e \in IndexVal \X PrimaryKey : /\ m[EntryKeyOf(<<x, e[1]>>, e[2])] # NoRecord
                                               /\ WithinBounds(e[1], start, end)}
      place(e) == 1 + Cardinality({f \in found : IF descending THEN EntryBefore(e, f)
                                                 ELSE EntryBefore(f, e)})
      size == IF limit = NoLimit \/ limit > Cardinality(found) THEN Cardinality(found) ELSE limit
  IN  [n \in 1 .. size |-> CHOOSE e \in found : place(e) = n]

(* DanglingIndexEntry: the query fails when an entry has no record.        *)
RangeQueryFails(m, x) ==
  \E v \in IndexVal, p \in PrimaryKey :
    m[EntryKeyOf(<<x, v>>, p)] # NoRecord /\ m[CollectionRecordKey(p)] = NoRecord

MigrationSteps == \E expected, next \in Version : MigrateCollectionSchema(expected, next)

IndexSteps == \E x \in Index, unique \in BOOLEAN : DefineIndex(x, unique)

IndexValues == {pairs \in SUBSET Pair : Cardinality(pairs) <= MaxPairs}

RecordSteps ==
  \E p \in PrimaryKey :
    \/ DeleteRecord(p) \/ TxDeleteRecord(p)
    \/ \E pairs \in IndexValues : UpsertRecord(p, pairs) \/ TxUpsertRecord(p, pairs)

-----------------------------------------------------------------------------
(* An exact query returns the records that have the value, in memory and   *)
(* in everything a recovery may find. An entry that an upsert in doubt     *)
(* wrote may stay when the next upsert of the record, which does not see   *)
(* it, succeeds.                                                           *)
QueriesFindRecords ==
  \A i \in Copy, pair \in Pair :
    LET found == QueryIndexExact(Map(i), pair)
    IN  \A p \in PrimaryKey : EntryKeyOf(pair, p) \notin doubted =>
          (p \in found <=> pair \in RecordOf(Map(i), p))

(* Bounds of range queries, with the values that are within them.          *)
Ranges ==
  {[start |-> NoBound, end |-> NoBound, values |-> IndexVal],
   [start |-> BoundExcluded(1), end |-> NoBound, values |-> IndexVal \ {1}],
   [start |-> BoundIncluded(1), end |-> BoundExcluded(2), values |-> {1}],
   [start |-> BoundIncluded(2), end |-> BoundIncluded(2), values |-> {2}]}

(* A range query returns each record once for each of its values in the    *)
(* bounds, in the order asked for, the first ones if there is a limit, and *)
(* does not meet an entry without a record.                                *)
RangeQueriesAreComplete ==
  doubted = {} /\ Idle =>
    \A x \in {y \in Index : HasIndex(mem, y)}, r \in Ranges,
       descending \in BOOLEAN, limit \in {1, NoLimit} :
      LET result == QueryIndexRange(mem, x, r.start, r.end, descending, limit)
          all == {e \in r.values \X PrimaryKey : <<x, e[1]>> \in RecordOf(mem, e[2])}
          given == {result[n] : n \in DOMAIN result}
      IN  /\ ~RangeQueryFails(mem, x)
          /\ given \subseteq all
          /\ Len(result) = Cardinality(given)
          /\ given = all \/ Len(result) = limit
          /\ \A e \in given, f \in all \ given : EntryBefore(e, f) # descending
          /\ \A a, b \in DOMAIN result :
               a < b => EntryBefore(result[a], result[b]) # descending

(* "Unique checks see committed state plus prior staged writes": no two    *)
(* records have the same value in a unique index, unless one of them was   *)
(* written by a commit in doubt, which the check did not see.              *)
UniqueIsUnique ==
  \A i \in Copy, pair \in Pair :
    Map(i)[IndexMetaKey(pair[1])] = "unique" =>
      \A p, q \in Owners(Map(i), pair) :
        {EntryKeyOf(pair, p), EntryKeyOf(pair, q)} \cap doubted = {} => p = q

(* Reported migrations form a chain that ends at or before the version of  *)
(* the collection: each version is left once.                              *)
MigrationsFormChain ==
  \A f \in told : f[1] = "migrated" =>
    \A i \in Copy :
      /\ Map(i)[MigrationKey(f[2].from, f[2].to)] # NoRecord
      /\ f[2].to <= Map(i)[MetaKey]
      /\ \A g \in told : g[1] = "migrated" /\ g # f =>
           g[2].to <= f[2].from \/ f[2].to <= g[2].from

(* Records, index entries, and versions of a collection belong together    *)
(* after any crash, and queries return what they must.                     *)
CollectionIsSound ==
  /\ QueriesFindRecords
  /\ RangeQueriesAreComplete
  /\ UniqueIsUnique
  /\ MigrationsFormChain

=============================================================================
