------------------------------ MODULE KeyValues ------------------------------
(***************************************************************************)
(* The application's own keys: put and delete, expiry (ttl.rs), and the    *)
(* atomic operations (atomic.rs). The expiry of a key is a record of its   *)
(* own; put and delete leave it alone. A value is a counter, the eight     *)
(* bytes of an i64, or it is not: Timed if put_with_ttl wrote it, Plain if *)
(* another operation did. Every operation may meet any of them.            *)
(***************************************************************************)
EXTENDS Transactions

CONSTANTS
  UserKey,             \* application keys
  MaxExpiry,           \* bound: times
  MinCount, MaxCount,  \* bounds: i64::MIN and i64::MAX
  Delta                \* what a counter is incremented by, of either sign

ASSUME KeyValueAssumption ==
  /\ UserKey \subseteq Nat /\ MaxExpiry \in Nat
  /\ MinCount \in Int /\ MaxCount \in Nat /\ MinCount <= 0 /\ Delta \subseteq Int

VARIABLE held  \* history: for each key the values it may have, by what callers were told

ValueKey(k) == <<"value", k, 0>>
TtlKey(k) == <<"ttl", k, 0>>

UserKeys == {ValueKey(k) : k \in UserKey} \cup {TtlKey(k) : k \in UserKey}

Plain == <<"plain", 0>>
Timed == <<"timed", 0>>
Encoded(n) == <<"count", n>>

EightBytes == {Encoded(n) : n \in MinCount .. MaxCount}

Cleared(k) == <<"cleared", [key |-> k]>>

InitUser == held = [k \in UserKey |-> {NoRecord}]

(* An operation that succeeds leaves one of the given values under each of *)
(* the keys. One that fails at its sync is in doubt (medium then has a map *)
(* more), so what the key had before stays possible.                       *)
Leaves(values) ==
  held' = [k \in UserKey |->
             IF k \notin DOMAIN values THEN held[k]
             ELSE IF Len(medium') = 1 THEN values[k] ELSE held[k] \cup values[k]]

Leave(k, values) == Leaves([l \in {k} |-> values])

-----------------------------------------------------------------------------
PutUser(k, v) == Alone(Put(ValueKey(k), v), {}) /\ Leave(k, {v})

DeleteUser(k) == Alone(Delete(ValueKey(k)), {}) /\ Leave(k, {NoRecord})

TxPutUser(k) == Staged(Put(ValueKey(k), Plain), {}) /\ UNCHANGED held

TxDeleteUser(k) == Staged(Delete(ValueKey(k)), {}) /\ UNCHANGED held

(* The Transaction that staged them commits.                               *)
CommitUser ==
  /\ Commit
  /\ Leaves([k \in {l \in UserKey : ValueKey(l) \in DOMAIN stage.writes} |->
               {stage.writes[ValueKey(k)]}])

PutWithTtl(k, expires) ==
  /\ Alone(And(Put(ValueKey(k), Timed), Put(TtlKey(k), expires)), {})
  /\ Leave(k, {Timed})

ClearTtl(k) ==
  /\ mem[TtlKey(k)] # NoRecord
  /\ AloneAsking(Delete(TtlKey(k)), {}, {Cleared(k)})
  /\ UNCHANGED held

Expires(m, k, now) == m[TtlKey(k)] # NoRecord /\ now >= m[TtlKey(k)]

(* The values that exist and the expiry records go in one transaction.     *)
PurgeWrites(expired) ==
  [key \in {TtlKey(k) : k \in expired}
             \cup {ValueKey(k) : k \in {e \in expired : mem[ValueKey(e)] # NoRecord}} |-> NoRecord]

(* get_at                                                                  *)
LiveAt(m, k, now) == m[ValueKey(k)] # NoRecord /\ ~Expires(m, k, now)

(* Up to limit keys, in their order; none with a limit of zero. A caller   *)
(* counts on the value of a key that get_at still returns.                 *)
PurgeExpired(now, limit) ==
  LET due == {k \in UserKey : Expires(mem, k, now)}
      expired == {k \in due : Cardinality({l \in due : l < k}) < limit}
  IN  /\ expired # {}
      /\ Alone(PurgeWrites(expired), {})
      /\ Leaves([k \in {e \in expired : mem[ValueKey(e)] # NoRecord} |->
                   {r \in {NoRecord} : ~LiveAt(mem, k, now)}])

(* CasOutcome::Mismatch changes nothing.                                   *)
CompareAndSwap(k, expected, replacement) ==
  /\ mem[ValueKey(k)] = expected
  /\ Alone(Put(ValueKey(k), replacement), {})
  /\ Leave(k, {r \in {replacement} : expected \in held[k]})

(* A missing key starts at zero; InvalidCounter if it is something else.   *)
IsCounter(v) == v \in EightBytes \cup {NoRecord}

CountOf(v) == IF v = NoRecord THEN 0 ELSE v[2]

SaturatingAdd(n, delta) ==
  {IF n + delta > MaxCount THEN MaxCount ELSE IF n + delta < MinCount THEN MinCount ELSE n + delta}

(* No result if the sum is out of range: Overflow.                         *)
CheckedAdd(n, delta) == {n + delta} \cap MinCount .. MaxCount

(* The caller counts on the sum: delta more than what the key had.         *)
IncrementI64(k, delta) ==
  LET current == mem[ValueKey(k)] IN
  /\ IsCounter(current)
  /\ \E next \in CheckedAdd(CountOf(current), delta) :
       /\ Alone(Put(ValueKey(k), Encoded(next)), {})
       /\ Leave(k, {Encoded(next)} \cap
                   {Encoded(CountOf(v) + delta) : v \in {w \in held[k] : IsCounter(w)}})

UserSteps ==
  \/ \E k \in UserKey :
       \/ DeleteUser(k) \/ ClearTtl(k)
       \/ \E v \in {Plain, Encoded(MaxCount)} : PutUser(k, v)
       \/ \E expires \in 0 .. MaxExpiry : PutWithTtl(k, expires)
       \/ \E expected \in EightBytes \cup {Plain, Timed, NoRecord}, replacement \in {NoRecord, Plain} :
            CompareAndSwap(k, expected, replacement)
       \/ \E delta \in Delta : IncrementI64(k, delta)
  \/ \E now \in 0 .. MaxExpiry, limit \in 0 .. 2 : PurgeExpired(now, limit)

TxUserSteps == \E k \in UserKey : TxPutUser(k) \/ TxDeleteUser(k)

-----------------------------------------------------------------------------
(* A value that was stored with an expiry has one as long as clear_ttl was *)
(* not asked to remove it, in memory and in everything a recovery may      *)
(* find; once its time has come it is no longer read. The purge of a key   *)
(* whose value it does not see, because a put_with_ttl is in doubt,        *)
(* removes the expiry alone.                                               *)
TimedValuesExpire ==
  \A i \in Copy, k \in UserKey : Map(i)[ValueKey(k)] = Timed =>
    \/ Map(i)[TtlKey(k)] # NoRecord /\ ~LiveAt(Map(i), k, MaxExpiry)
    \/ Cleared(k) \in told
    \/ ValueKey(k) \in doubted

(* A key has the value that the calls so far account for, in memory and in *)
(* everything a recovery may find: what the last successful write gave it, *)
(* or a write since then whose sync failed. So a sum that increment_i64    *)
(* reported is its delta more than a value the key could have had, no      *)
(* increment is lost or counted twice unless it was in doubt, a refused    *)
(* one (Overflow, InvalidCounter) changes nothing, compare_and_swap        *)
(* replaces only what it was told to expect, and purge_expired leaves the  *)
(* values alone that get_at still returns. (atomic.rs, ttl.rs)             *)
ValuesAreAccountedFor ==
  \A i \in Copy, k \in UserKey : Map(i)[ValueKey(k)] \in held[k]

(* Values with an expiry keep it, and every value is accounted for.        *)
ValuesAreSound == TimedValuesExpire /\ ValuesAreAccountedFor

=============================================================================
