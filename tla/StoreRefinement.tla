--------------------------- MODULE StoreRefinement ---------------------------
(***************************************************************************)
(* The storage engine implements TransactionalStore: the history is the    *)
(* list of committed transactions of the log, in the order of their commit *)
(* records, and everything else the engine does is invisible.              *)
(***************************************************************************)
EXTENDS StoreEngine, SequencesExt

CONSTANT Closed

(* The operations that l holds for transaction t, in order.                *)
OperationsOf(l, t) ==
  LET records == SelectSeq(l, LAMBDA r : IsOp(r) /\ r.tx_id = t)
  IN  [i \in DOMAIN records |->
         [kind |-> records[i].kind, key |-> records[i].key, value |-> records[i].value]]

Commits(l) == SelectSeq(l, LAMBDA r : r.kind = "Commit")

Abstract == INSTANCE TransactionalStore WITH
  Apply <- ApplyOperations,
  Durable <- Syncs,
  history <- [i \in DOMAIN Commits(log) |-> OperationsOf(log, Commits(log)[i].tx_id)],
  safe <- Len(Commits(SubSeq(log, 1, synced))),
  view <- IF open THEN state ELSE Closed,
  waiting <- tx.phase = "sync"

(* Every behaviour of the engine, with its rollbacks, rejected writes,     *)
(* failed syncs, kills, power losses and repairs of a torn tail, is one    *)
(* that the abstract transactional store allows.                           *)
ImplementsTransactionalStore == Abstract!Spec

=============================================================================
