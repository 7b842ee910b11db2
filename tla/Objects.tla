------------------------------- MODULE Objects -------------------------------
(***************************************************************************)
(* Content-addressed objects (objects.rs): the object, its metadata and    *)
(* references to it by name are separate records. An object is named by    *)
(* the hash of its content, so that it is its own identifier here; of its  *)
(* metadata only expires_at_unix is read by the code.                      *)
(***************************************************************************)
EXTENDS Transactions

CONSTANTS
  Object,        \* contents, numbered in the order of their hashes
  RefName,       \* names of references, namespace included
  NoExpiry,      \* metadata without expires_at_unix
  MaxRetention   \* bound: times at which objects expire

ASSUME ObjectAssumption == Object \subseteq Nat /\ MaxRetention \in Nat

ObjectKey(o) == <<"object", o, 0>>
MetadataKey(o) == <<"metadata", o, 0>>
RefKey(name) == <<"ref", name, 0>>

ObjectKeys ==
  {ObjectKey(o) : o \in Object} \cup {MetadataKey(o) : o \in Object}
    \cup {RefKey(name) : name \in RefName}

Linked(name, o) == <<"linked", [name |-> name, object |-> o]>>
Unlinked(name) == <<"unlinked", [name |-> name]>>

-----------------------------------------------------------------------------
Content(o) == "content"

HasObject(m, o) == m[ObjectKey(o)] # NoRecord

(* An object that is there already is left as it is, and so is its         *)
(* metadata.                                                               *)
PutObject(o) == ~HasObject(mem, o) /\ Alone(Put(ObjectKey(o), Content(o)), {})

(* The object and its metadata are written by two transactions.            *)
PutObjectWithMetadata(o, expiry) ==
  /\ ~HasObject(mem, o)
  /\ StartCallWith(Put(ObjectKey(o), Content(o)),
                   [op |-> "metadata", object |-> o, expiry |-> expiry])

PutMetadataStep ==
  /\ call # NoCall
  /\ call.op = "metadata"
  /\ CallStep(Put(MetadataKey(call.object), call.expiry), {}, NoCall)

LinkObject(name, o) ==
  /\ HasObject(mem, o)
  /\ AloneAsking(Put(RefKey(name), o), {Linked(name, o)}, {})

UnlinkObject(name) ==
  /\ mem[RefKey(name)] # NoRecord
  /\ AloneAsking(Delete(RefKey(name)), {}, {Unlinked(name)})

TxPutObject(o) == ~HasObject(View, o) /\ Staged(Put(ObjectKey(o), Content(o)), {})

TxLinkObject(name, o) ==
  /\ HasObject(View, o)
  /\ Staged(Put(RefKey(name), o), {Linked(name, o)})

TxUnlinkObject(name) ==
  /\ View[RefKey(name)] # NoRecord
  /\ Staged(Delete(RefKey(name)), {Unlinked(name)})

-----------------------------------------------------------------------------
Referenced(m) == {m[RefKey(name)] : name \in RefName} \ {NoRecord}

(* Objects go with their metadata.                                         *)
Remove(objects) ==
  [k \in {ObjectKey(o) : o \in objects} \cup {MetadataKey(o) : o \in objects} |-> NoRecord]

FirstOf(objects, limit) ==
  {o \in objects : Cardinality({p \in objects : p < o}) < limit}

OrphansOfFirstRef ==
  {o \in Object : HasObject(mem, o) /\ mem[RefKey(CHOOSE name \in RefName : TRUE)] # o}

Orphans == {o \in Object : HasObject(mem, o) /\ o \notin Referenced(mem)}

(* With a limit of zero the collection only reports.                       *)
GcOrphanObjects(limit) ==
  /\ FirstOf(Orphans, limit) # {}
  /\ Alone(Remove(FirstOf(Orphans, limit)), {})

ExpiredObjects(now) ==
  {o \in Object : /\ HasObject(mem, o)
                  /\ mem[MetadataKey(o)] \notin {NoRecord, NoExpiry}
                  /\ mem[MetadataKey(o)] <= now}

(* With a limit of zero the purge has no limit.                            *)
PurgeExpiredObjects(now, limit) ==
  LET due == ExpiredObjects(now) \ Referenced(mem)
      gone == IF limit = 0 THEN due ELSE FirstOf(due, limit)
  IN  /\ gone # {}
      /\ Alone(Remove(gone), {})

ObjectSteps ==
  \/ PutMetadataStep
  \/ \E o \in Object :
       \/ PutObject(o)
       \/ \E expiry \in 0 .. MaxRetention \cup {NoExpiry} : PutObjectWithMetadata(o, expiry)
       \/ \E name \in RefName : LinkObject(name, o)
  \/ \E name \in RefName : UnlinkObject(name)
  \/ \E limit \in 0 .. 2 :
       \/ GcOrphanObjects(limit)
       \/ \E now \in 0 .. MaxRetention : PurgeExpiredObjects(now, limit)

TxObjectSteps ==
  \/ \E o \in Object : TxPutObject(o) \/ \E name \in RefName : TxLinkObject(name, o)
  \/ \E name \in RefName : TxUnlinkObject(name)

-----------------------------------------------------------------------------
(* A reference leads to an object, in memory and in everything a recovery  *)
(* may find: "cleanup cannot invalidate a live reference". It can when the *)
(* commit that made the reference, or the one that removed the object,     *)
(* stayed in doubt, because the operations after it do not see it.         *)
RefsResolve ==
  \A i \in Copy, name \in RefName :
    LET o == Map(i)[RefKey(name)]
    IN  o # NoRecord => \/ HasObject(Map(i), o)
                        \/ {RefKey(name), ObjectKey(o)} \cap doubted # {}

(* Metadata never outlives its object: an object that is stored again      *)
(* after it was removed does not get the expiry of its former life.        *)
MetadataHasObject ==
  \A i \in Copy, o \in Object :
    Map(i)[MetadataKey(o)] # NoRecord => HasObject(Map(i), o)

(* A reported reference stays, and with it its object, until it was asked  *)
(* to be removed or given to another object; no collection or purge, with  *)
(* whatever limit, takes the object of a reference whose commit succeeded. *)
LinkedIsKept ==
  \A f \in told :
    /\ f[1] = "linked"
    /\ Unlinked(f[2].name) \notin told
    /\ {RefKey(f[2].name), ObjectKey(f[2].object)} \cap doubted = {}
    /\ \A g \in told : g[1] = "linked" /\ g[2].name = f[2].name => g = f
    => \A i \in Copy : /\ Map(i)[RefKey(f[2].name)] = f[2].object
                       /\ HasObject(Map(i), f[2].object)

(* Objects, metadata and references belong together, whatever garbage      *)
(* collection or expiry removed and wherever it stopped.                   *)
ReferencesAreSound == RefsResolve /\ MetadataHasObject /\ LinkedIsKept

=============================================================================
