----------------------------- MODULE StagedWork ------------------------------
(***************************************************************************)
(* Work that a caller creates inside its own Transaction: a queue message  *)
(* (push_queue of transaction_domains.rs), a durable job (enqueue_job of   *)
(* transactional.rs) and the fire of a trigger (triggers.rs), beside the   *)
(* operations on the Store that write the same records: push of a Queue,   *)
(* submit_job and cancel_job. Each of the two ways has code of its own to  *)
(* choose identifiers and to search for a job of an idempotency key. What  *)
(* becomes of a message or a job is the matter of Queue and Jobs.          *)
(***************************************************************************)
EXTENDS Transactions

CONSTANTS
  Message,     \* payloads of queue messages
  MaxMessage,  \* u64::MAX for message identifiers
  WorkId,      \* identifiers of jobs
  WorkKey,     \* idempotency keys
  NoKey,       \* JobSpec.idempotency_key = None
  Trigger,
  MaxFires     \* u64::MAX for a trigger's fire_count

ASSUME StagedWorkAssumption == MaxMessage \in Nat \ {0} /\ MaxFires \in Nat

QueueNextKey == <<"queue next", 0, 0>>
MessageKey(id) == <<"message", id, 0>>
WorkJobKey(id) == <<"job", id, 0>>
WorkHistoryKey(id) == <<"job history", id, 0>>
TriggerKey(t) == <<"trigger", t, 0>>

WorkKeys ==
  {QueueNextKey} \cup {MessageKey(id) : id \in 1 .. MaxMessage}
    \cup {WorkJobKey(id) : id \in WorkId} \cup {WorkHistoryKey(id) : id \in WorkId}
    \cup {TriggerKey(t) : t \in Trigger}

Pushed(id, p) == <<"pushed", [id |-> id, payload |-> p]>>
Enqueued(id, key) == <<"enqueued", [id |-> id, key |-> key]>>
Fired(t, n, id) == <<"fired", [trigger |-> t, count |-> n, job |-> id]>>

-----------------------------------------------------------------------------
NextMessageId(m) == IF m[QueueNextKey] = NoRecord THEN 1 ELSE m[QueueNextKey]

(* The identifier after this one and the message, in one transaction.      *)
PushWrites(id, p) == And(Put(QueueNextKey, id + 1), Put(MessageKey(id), p))

(* push_with_options of a Queue.                                           *)
QueuePush(p) ==
  LET id == NextMessageId(mem)
  IN  /\ id < MaxMessage
      /\ Alone(PushWrites(id, p), {Pushed(id, p)})

(* push_queue: the identifier is the next one of the Transaction's view.   *)
TxPushQueue(p) ==
  LET id == NextMessageId(View)
  IN  /\ id < MaxMessage
      /\ Staged(PushWrites(id, p), {Pushed(id, p)})

-----------------------------------------------------------------------------
ActiveIn(m, id) == m[WorkJobKey(id)] # NoRecord /\ m[WorkJobKey(id)].state = "Ready"

ActiveWith(m, key) ==
  {id \in WorkId : key # NoKey /\ ActiveIn(m, id) /\ m[WorkJobKey(id)].key = key}

(* A job and the first entry of its history.                               *)
NewJob(id, key) ==
  And(Put(WorkJobKey(id), [state |-> "Ready", key |-> key]),
      Put(WorkHistoryKey(id), <<"Submitted">>))

(* Identifiers are random and taken to be unused.                          *)
FreshId(id) ==
  View[WorkJobKey(id)] = NoRecord /\ \A i \in Copy : Map(i)[WorkJobKey(id)] = NoRecord

(* submit_job; with an active job of the key it reports that one, and      *)
(* neither writes nor syncs.                                               *)
SubmitWork(key) ==
  \/ \E id \in ActiveWith(mem, key) : Reads({Enqueued(id, key)})
  \/ \E id \in WorkId :
       /\ ActiveWith(mem, key) = {}
       /\ FreshId(id)
       /\ Alone(NewJob(id, key), {Enqueued(id, key)})

EnqueueAmongCommitted(key) ==
  IF ActiveWith(mem, key) # {}
  THEN {[id |-> id, writes |-> Nothing] : id \in ActiveWith(mem, key)}
  ELSE {[id |-> id, writes |-> NewJob(id, key)] : id \in {i \in WorkId : FreshId(i)}}

(* enqueue_job_tx: the job of the key that is active in the Transaction's  *)
(* view, or a new one.                                                     *)
EnqueueJobTx(key) ==
  IF ActiveWith(View, key) # {}
  THEN {[id |-> id, writes |-> Nothing] : id \in ActiveWith(View, key)}
  ELSE {[id |-> id, writes |-> NewJob(id, key)] : id \in {i \in WorkId : FreshId(i)}}

TxEnqueueJob(key) ==
  \E job \in EnqueueJobTx(key) : Staged(job.writes, {Enqueued(job.id, key)})

(* The entry after the last one of the job's history.                      *)
CancelWork(id) ==
  /\ ActiveIn(mem, id)
  /\ Alone(And(Put(WorkJobKey(id), [mem[WorkJobKey(id)] EXCEPT !.state = "Cancelled"]),
               Put(WorkHistoryKey(id), Append(mem[WorkHistoryKey(id)], "Cancelled"))), {})

-----------------------------------------------------------------------------
CreateWorkTrigger(t, key) ==
  /\ \A i \in Copy : Map(i)[TriggerKey(t)] = NoRecord
  /\ Alone(Put(TriggerKey(t), [key |-> key, enabled |-> TRUE, fire_count |-> 0]), {})

SetTriggerEnabled(t, enabled) ==
  /\ mem[TriggerKey(t)] # NoRecord
  /\ Alone(Put(TriggerKey(t), [mem[TriggerKey(t)] EXCEPT !.enabled = enabled]), {})

CountedFire(t) == [View[TriggerKey(t)] EXCEPT !.fire_count = @ + 1]

MayFire(t) ==
  /\ View[TriggerKey(t)] # NoRecord
  /\ View[TriggerKey(t)].enabled
  /\ View[TriggerKey(t)].fire_count < MaxFires

(* fire_trigger of a Transaction.                                          *)
TxFireTrigger(t) ==
  /\ MayFire(t)
  /\ \E job \in EnqueueJobTx(View[TriggerKey(t)].key) :
       Staged(And(job.writes, Put(TriggerKey(t), CountedFire(t))),
              {Fired(t, CountedFire(t).fire_count, job.id)})

(* fire_trigger of the Store: the same in a Transaction of its own.        *)
StoreFireTrigger(t) ==
  /\ MayFire(t)
  /\ \E job \in EnqueueJobTx(View[TriggerKey(t)].key) :
       Alone(And(job.writes, Put(TriggerKey(t), CountedFire(t))),
             {Fired(t, CountedFire(t).fire_count, job.id)})

PushSteps == \E p \in Message : QueuePush(p) \/ TxPushQueue(p)

WorkSteps ==
  \/ \E key \in WorkKey \cup {NoKey} : SubmitWork(key) \/ TxEnqueueJob(key)
  \/ \E id \in WorkId : CancelWork(id)

TriggerSteps ==
  \E t \in Trigger :
    \/ \E key \in WorkKey \cup {NoKey} : CreateWorkTrigger(t, key)
    \/ \E enabled \in BOOLEAN : SetTriggerEnabled(t, enabled)
    \/ TxFireTrigger(t) \/ StoreFireTrigger(t)

-----------------------------------------------------------------------------
(* An identifier that push or push_queue returned, the latter once its     *)
(* Transaction committed, belongs to its message: in memory and in         *)
(* everything a recovery may find the message is there and the next        *)
(* identifier is beyond it, however the two ways of pushing alternate.     *)
PushesKeepTheirIds ==
  \A f \in told : f[1] = "pushed" =>
    \A i \in Copy : /\ Map(i)[MessageKey(f[2].id)] = f[2].payload
                    /\ NextMessageId(Map(i)) > f[2].id

(* A job that submit_job, or enqueue_job in a Transaction that committed,  *)
(* reported is there with its history after any crash. The exception is a  *)
(* job whose own commit was in doubt: once the Store was reopened          *)
(* submit_job reports it, and a loss of power may still take it away.      *)
EnqueuedIsKept ==
  \A f \in told : f[1] = "enqueued" =>
    \/ WorkJobKey(f[2].id) \in doubted
    \/ \A i \in Copy : /\ Map(i)[WorkJobKey(f[2].id)] # NoRecord
                       /\ Map(i)[WorkHistoryKey(f[2].id)] # NoRecord
                       /\ Map(i)[WorkHistoryKey(f[2].id)][1] = "Submitted"

(* Two active jobs never share an idempotency key, in memory or in what a  *)
(* recovery may find, though enqueue_job, fire_trigger and submit_job      *)
(* search for the key each in its own view, unless a commit that wrote one *)
(* of the jobs was in doubt.                                               *)
KeysHaveOneActiveJob ==
  \A i \in Copy, key \in WorkKey :
    LET active == ActiveWith(Map(i), key)
    IN  \A a, b \in active :
          a = b \/ {WorkJobKey(a), WorkJobKey(b)} \cap doubted # {}

(* Every fire that was reported has a count of its own, which fire_count   *)
(* has reached in memory and in everything a recovery may find; two fires  *)
(* with the same count would be one lost increment.                        *)
FiresHaveTheirCount ==
  \A f \in told : f[1] = "fired" =>
    /\ \A i \in Copy : /\ Map(i)[TriggerKey(f[2].trigger)] # NoRecord
                       /\ Map(i)[TriggerKey(f[2].trigger)].fire_count >= f[2].count
    /\ \A g \in told : /\ g[1] = "fired"
                       /\ g[2].trigger = f[2].trigger
                       /\ g[2].count = f[2].count
                       => g = f

(* Messages, jobs and fires that were reported are there after any crash,  *)
(* each once, though some were staged in a Transaction beside others.      *)
StagedWorkIsSound ==
  /\ PushesKeepTheirIds
  /\ EnqueuedIsKept
  /\ KeysHaveOneActiveJob
  /\ FiresHaveTheirCount

=============================================================================
