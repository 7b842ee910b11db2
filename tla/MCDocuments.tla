----------------------------- MODULE MCDocuments -----------------------------
(***************************************************************************)
(* The cases that TLC explores, each with some of the operations and       *)
(* bounds of its own: one workflow; two workflows with timers; the schema  *)
(* of a collection; its records; objects; application keys; messages; jobs *)
(* with an application key in the same Transaction; and triggers.          *)
(***************************************************************************)
EXTENDS Documents

VARIABLE focus

DocumentKeys == WorkflowKeys \cup CollectionKeys \cup ObjectKeys \cup UserKeys \cup WorkKeys

LeastCount == -1

Deltas == {-1, 2}

Cases == {"workflow", "timers", "schema", "records", "objects", "keys", "messages", "jobs", "triggers"}

MCInit == Init /\ focus \in Cases

In(cases, steps) == focus \in cases /\ steps /\ UNCHANGED focus

MCNext ==
  \/ In(Cases, CommitUser \/ Elsewhere(Reopen \/ Rollback \/ CallFails \/ FlushStore))
  \/ In(Cases \ {"timers", "schema"}, Elsewhere(Begin))
  \/ In({"workflow", "timers"}, Elsewhere(WorkflowSteps \/ TxWorkflowSteps))
  \/ In({"schema", "records"}, Elsewhere(CreateCollection \/ IndexSteps))
  \/ In({"schema"}, Elsewhere(MigrationSteps))
  \/ In({"records"}, Elsewhere(RecordSteps))
  \/ In({"objects"}, Elsewhere(ObjectSteps \/ TxObjectSteps))
  \/ In({"keys"}, UserSteps \/ TxUserSteps)
  \/ In({"messages"}, Elsewhere(PushSteps))
  \/ In({"jobs"}, TxUserSteps \/ Elsewhere(WorkSteps))
  \/ In({"triggers"}, Elsewhere(TriggerSteps \/ \E id \in WorkId : CancelWork(id)))

MCSpec == MCInit /\ [][MCNext]_<<vars, focus>>

Count(kind) == Cardinality({f \in told : f[1] = kind})

Occurs(key) == View[key] # NoRecord \/ \E i \in Copy : Map(i)[key] # NoRecord

Kinds(m) == {m[HistoryKey(1, n)].kind : n \in HistoryOf(m, 1)}

(* One workflow; timers, one kind of end and a fifth transition only with  *)
(* nothing in doubt.                                                       *)
WorkflowBounds ==
  /\ ~Occurs(InstanceKey(2))
  /\ Cardinality(doubted) <= 3
  /\ doubted # {} =>
       /\ ~Occurs(HistoryKey(1, 4))
       /\ (Kinds(View) \cup Kinds(Newest)) \cap {"WaitingTimer", "TimerFired", "Failed", "Cancelled"} = {}

(* The first index is unique and the second is not; records have at most   *)
(* three values together.                                                  *)
RecordBounds ==
  /\ {MetaKey, IndexMetaKey(1), IndexMetaKey(2)} \cap doubted = {}
  /\ mem[IndexMetaKey(1)] # "plain" /\ mem[IndexMetaKey(2)] # "unique"
  /\ mem[IndexMetaKey(2)] # NoRecord => mem[IndexMetaKey(1)] # NoRecord
  /\ Occurs(CollectionRecordKey(1)) \/ Occurs(CollectionRecordKey(2)) =>
       mem[IndexMetaKey(2)] # NoRecord
  /\ Occurs(CollectionRecordKey(2)) => Occurs(CollectionRecordKey(1))
  /\ doubted # {} => stage = NoTx /\ Cardinality(doubted) <= 2
  /\ Cardinality({k \in RecordKey : k[1] = "entry" /\ Occurs(k)})
       <= IF doubted = {} /\ stage = NoTx THEN 3 ELSE 2

ObjectBounds ==
  /\ Count("linked") <= 2 /\ Count("unlinked") <= 1 /\ Cardinality(doubted) <= 2
  /\ Occurs(ObjectKey(2)) => /\ ~Occurs(MetadataKey(2))
                             /\ doubted = {}
  /\ doubted # {} => stage = NoTx /\ Count("linked") <= 1

(* The second key only with nothing in doubt, and a key that is a counter  *)
(* with something in doubt has no expiry.                                  *)
KeyBounds ==
  /\ Occurs(ValueKey(2)) \/ Occurs(TtlKey(2)) =>
       /\ doubted = {} /\ stage = NoTx
       /\ mem[ValueKey(2)] \in {NoRecord, Plain, Timed, Encoded(MaxCount)}
  /\ doubted # {} =>
       /\ stage = NoTx
       /\ Cardinality(held[1]) <= 2
       /\ (\E i \in Copy : Map(i)[ValueKey(1)] \notin {NoRecord, Plain, Timed}) => ~Occurs(TtlKey(1))

(* An application key only with nothing in doubt; the first job has the    *)
(* lower identifier.                                                       *)
JobBounds ==
  /\ Occurs(WorkJobKey(2)) => Occurs(WorkJobKey(1))
  /\ Cardinality(doubted) <= 3
  /\ ~Occurs(TtlKey(1)) /\ ~Occurs(ValueKey(2))
  /\ doubted # {} => ~Occurs(ValueKey(1))

Bounds ==
  CASE focus = "workflow" -> WorkflowBounds
    [] focus = "timers" -> /\ doubted = {}
                           /\ ~\E id \in WorkflowId : Occurs(HistoryKey(id, 3))
    [] focus = "schema" -> Cardinality(doubted) <= 2
    [] focus = "records" -> RecordBounds
    [] focus = "objects" -> ObjectBounds
    [] focus = "keys" -> KeyBounds
    [] focus = "messages" -> TRUE
    [] focus = "jobs" -> JobBounds
    [] focus = "triggers" -> JobBounds

=============================================================================
