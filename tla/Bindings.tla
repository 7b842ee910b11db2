------------------------------ MODULE Bindings -------------------------------
(***************************************************************************)
(* How the Python and C bindings share one Store between the objects they  *)
(* hand out (voodoo-store-python/src/lib.rs, voodoo-store-ffi/src/lib.rs). *)
(* In both a transaction is a list of operations that reaches the engine   *)
(* at commit, one by one, in a Transaction of the engine. A Python         *)
(* transaction takes the Store out of the slot that all objects of the     *)
(* store share, until it is finished or dropped; C transactions only point *)
(* at the handle, so several may be filled at a time. Objects may be used  *)
(* and dropped in any order. A commit is one call, so no other call runs   *)
(* between its steps, but the process may end there.                       *)
(***************************************************************************)
EXTENDS Naturals, Sequences, SequencesExt

CONSTANTS
  UserKey, Reserved,  \* keys, and one under the engine's own prefix
  UserValue, NoUserValue,
  Object,             \* transaction objects
  NoObject,
  MaxOperations       \* in one transaction

VARIABLES
  binding,  \* "python" or "c"
  slot,     \* StoreSlot: "Open", "InTransaction" or "Closed"; C: "Open" or "Closed"
  objects,  \* for each transaction object its operations, whether it is
            \* finished and whether it has the Store; NoObject after its drop
  engine,   \* the Transaction of the engine while an object is committed: what of
            \* its list has been handed over, and what was appended; or NoObject
  table,    \* the committed values in memory
  filed     \* the values that opening the file finds

bindingVars == <<binding, slot, objects, engine, table, filed>>

StagedPut(k, v) == [key |-> k, value |-> v]
StagedDelete(k) == [key |-> k, value |-> NoUserValue]
StagedOperation == [key : UserKey \cup {Reserved}, value : UserValue \cup {NoUserValue}]

(* The engine refuses a reserved key (ensure_user_key).                    *)
Applied(map, operation) ==
  IF operation.key = Reserved THEN map ELSE [map EXCEPT ![operation.key] = operation.value]

(* What a transaction of the engine leaves.                                *)
Replayed(map, operations) == FoldLeft(Applied, map, operations)

InitBindings ==
  /\ binding \in {"python", "c"}
  /\ slot = "Open"
  /\ objects = [o \in Object |-> NoObject]
  /\ engine = NoObject
  /\ table = [k \in UserKey |-> NoUserValue]
  /\ filed = table

Live(o) == objects[o] # NoObject /\ ~objects[o].finished

(* No commit is running.                                                   *)
Quiet == engine = NoObject

(* The engine's commit: it succeeds, or its commit record is written but   *)
(* not synced, so that it shows when the file is opened again.             *)
EngineCommits(operations) ==
  /\ filed' = Replayed(filed, operations)
  /\ table' \in {Replayed(table, operations), table}

-----------------------------------------------------------------------------
(* Calls on the store itself.                                              *)

(* PyStore::put, delete and vds_put, vds_delete. with_store_mut refuses    *)
(* while a transaction has the Store, and after close.                     *)
PutDirectly(operation) ==
  /\ Quiet
  /\ slot = "Open"
  /\ operation.key # Reserved
  /\ EngineCommits(<<operation>>)
  /\ UNCHANGED <<binding, slot, objects, engine>>

(* PyStore::close; vds_close, which a caller may not use while a           *)
(* transaction points at the handle.                                       *)
CloseBinding ==
  /\ Quiet
  /\ slot = "Open"
  /\ binding = "c" => \A o \in Object : ~Live(o)
  /\ slot' = "Closed"
  /\ UNCHANGED <<binding, objects, engine, table, filed>>

(* PyStore::open, vds_open                                                 *)
ReopenBinding ==
  /\ slot = "Closed"
  /\ slot' = "Open"
  /\ table' = filed
  /\ UNCHANGED <<binding, objects, engine, filed>>

ProcessEnds ==
  /\ slot' = "Closed"
  /\ objects' = [o \in Object |-> NoObject]
  /\ engine' = NoObject
  /\ UNCHANGED <<binding, table, filed>>

-----------------------------------------------------------------------------
(* Transaction objects.                                                    *)

(* PyStore::transaction, vds_tx_begin                                      *)
NewTransaction(o) ==
  /\ Quiet
  /\ objects[o] = NoObject
  /\ slot = "Open"
  /\ slot' = IF binding = "python" THEN "InTransaction" ELSE slot
  /\ objects' = [objects EXCEPT ![o] =
       [operations |-> <<>>, finished |-> FALSE, store |-> binding = "python"]]
  /\ UNCHANGED <<binding, engine, table, filed>>

(* put, delete and stage_operation; vds_tx_put, vds_tx_delete              *)
Stage(o, operation) ==
  /\ Quiet
  /\ Live(o)
  /\ Len(objects[o].operations) < MaxOperations
  /\ objects' = [objects EXCEPT ![o].operations = Append(@, operation)]
  /\ UNCHANGED <<binding, slot, engine, table, filed>>

(* PyTransaction::get: lookup_pending from the newest operation, then the  *)
(* Store.                                                                  *)
TransactionGet(o, k) ==
  LET ops == objects[o].operations
      i == SelectLastInSeq(ops, LAMBDA operation : operation.key = k)
  IN  IF i = 0 THEN table[k] ELSE ops[i].value

KeepStoreOnError(o) == UNCHANGED slot

(* restore_store                                                           *)
RestoreStore(o) == slot' = IF objects[o].store THEN "Open" ELSE slot

Finished(o) ==
  IF binding = "python"
    THEN [objects EXCEPT ![o] = [operations |-> <<>>, finished |-> TRUE, store |-> FALSE]]
    ELSE [objects EXCEPT ![o] = NoObject]

Ends(o) == objects' = Finished(o) /\ RestoreStore(o) /\ engine' = NoObject

(* commit_operations, and __exit__ without an exception; vds_tx_commit.    *)
(* The engine may fail to begin.                                           *)
BeginCommit(o) ==
  /\ Quiet
  /\ Live(o)
  /\ \/ /\ engine' = [of |-> o, next |-> 1, appended |-> <<>>]
        /\ UNCHANGED <<objects, slot>>
     \/ Ends(o)
  /\ UNCHANGED <<binding, table, filed>>

HandOverWhatIsAccepted(operation) ==
  /\ engine' = [engine EXCEPT !.next = @ + 1,
       !.appended = IF operation.key = Reserved THEN @ ELSE Append(@, operation)]
  /\ UNCHANGED <<objects, slot>>

(* An operation is appended, or refused: then the commit returns its error *)
(* and the Transaction of the engine is dropped with what it has. The rest *)
(* is not tried.                                                           *)
HandOver(operation) ==
  \/ /\ operation.key # Reserved
     /\ engine' = [engine EXCEPT !.next = @ + 1, !.appended = Append(@, operation)]
     /\ UNCHANGED <<objects, slot>>
  \/ Ends(engine.of)

NextOperation ==
  /\ ~Quiet
  /\ LET operations == objects[engine.of].operations
     IN  engine.next <= Len(operations) /\ HandOver(operations[engine.next])
  /\ UNCHANGED <<binding, table, filed>>

(* The commit of the engine, which may also fail before its record.        *)
CommitObject ==
  /\ ~Quiet
  /\ engine.next > Len(objects[engine.of].operations)
  /\ EngineCommits(engine.appended) \/ UNCHANGED <<table, filed>>
  /\ Ends(engine.of)
  /\ UNCHANGED binding

(* rollback, and __exit__ with an exception; vds_tx_rollback               *)
RollbackObject(o) ==
  /\ Quiet
  /\ Live(o)
  /\ Ends(o)
  /\ UNCHANGED <<binding, table, filed>>

(* Drop for PyTransaction, when the last reference goes                    *)
DropObject(o) ==
  /\ Quiet
  /\ binding = "python" /\ objects[o] # NoObject
  /\ slot' = IF objects[o].store /\ slot = "InTransaction" THEN "Open" ELSE slot
  /\ objects' = [objects EXCEPT ![o] = NoObject]
  /\ UNCHANGED <<binding, engine, table, filed>>

BindingSteps ==
  \/ \E operation \in StagedOperation : PutDirectly(operation)
  \/ CloseBinding \/ ReopenBinding \/ ProcessEnds
  \/ NextOperation \/ CommitObject
  \/ \E o \in Object :
       \/ NewTransaction(o) \/ BeginCommit(o) \/ RollbackObject(o) \/ DropObject(o)
       \/ \E operation \in StagedOperation : Stage(o, operation)

-----------------------------------------------------------------------------
(* Properties.                                                             *)

(* A Python store is busy exactly as long as one live transaction has its  *)
(* Store: no way out of a transaction, an error of commit or a forgotten   *)
(* object included, leaves a store that nobody can use, or one that two    *)
(* can. (StoreSlot, restore_store, Drop for PyTransaction)                 *)
SlotTellsWhereTheStoreIs ==
  LET borrowers == {o \in Object : Live(o) /\ objects[o].store} IN
  IF slot = "InTransaction" THEN \E o \in Object : borrowers = {o} ELSE borrowers = {}

Acceptable(operations) == \A i \in DOMAIN operations : operations[i].key # Reserved

(* What a Python transaction reads is what its commit would leave,         *)
(* whatever it has put and deleted in which order. (lookup_pending)        *)
TransactionReadsItsWrites ==
  \A o \in Object, k \in UserKey :
    binding = "python" /\ Live(o) /\ Acceptable(objects[o].operations) =>
      TransactionGet(o, k) = Replayed(table, objects[o].operations)[k]

(* By one call, or by the whole list of the object that is committed.      *)
ChangesAsAWhole(before, after) ==
  \/ after = before
  \/ Quiet /\ \E operation \in StagedOperation :
       operation.key # Reserved /\ after = Applied(before, operation)
  \/ ~Quiet /\ LET operations == objects[engine.of].operations
                IN  Acceptable(operations) /\ after = Replayed(before, operations)

(* A transaction object takes effect as a whole or not at all, on top of   *)
(* what others committed meanwhile: a list with an operation that the      *)
(* engine refuses leaves nothing, also if operations before it had been    *)
(* appended already, and so does a process that ends half way. What memory *)
(* shows is in the file; what only the file has, because its sync failed,  *)
(* shows as a whole when the store is opened again. (commit_operations,    *)
(* vds_tx_commit)                                                          *)
CommitsAreWhole ==
  [][/\ ChangesAsAWhole(filed, filed')
     /\ \/ ChangesAsAWhole(table, table')
        \/ slot = "Closed" /\ table' = filed
     /\ \A k \in UserKey : table'[k] # table[k] => filed'[k] = table'[k]]_bindingVars

(* A Python transaction has the Store to itself and reads its own writes.  *)
PythonTransactionsHold == SlotTellsWhereTheStoreIs /\ TransactionReadsItsWrites

=============================================================================
