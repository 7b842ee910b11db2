-------------------------------- MODULE Jobs ---------------------------------
(***************************************************************************)
(* Durable jobs (jobs.rs). A job has two records, the job itself and its   *)
(* history, written together by every operation except heartbeat_job. A    *)
(* claim leases the best job that is due and returns its attempt number,   *)
(* the lease generation; the worker shows it to complete, fail or release  *)
(* the job. Two operations make several transactions, one for each job     *)
(* they find: a claim, for the jobs past their deadline, and               *)
(* release_expired_jobs. The Store is borrowed mutably for the whole       *)
(* operation, so no other runs in between; but any of the transactions may *)
(* fail, which ends the operation, and so may the process.                 *)
(***************************************************************************)
EXTENDS DurableRecords, FiniteSets

CONSTANTS
  Worker,
  NoWorker,    \* no claim has returned the job
  JobId,       \* a set of integers, ordered as the bytes of the identifiers
  JobSpec,     \* what callers submit: a set of records, see SpecAssumption
  Handler,
  NoKey,       \* JobSpec.idempotency_key = None
  NoDeadline,  \* JobSpec.deadline_ms = None
  JitterSeed,  \* for each identifier, the sum of its bytes modulo 2^8
  MaxTime,     \* i64::MAX for times in milliseconds
  MaxHistory,  \* u64::MAX for history sequence numbers
  NoCall       \* no operation is between two of its transactions

Time == 0 .. MaxTime

(* What validate_job_spec lets through.                                    *)
ASSUME SpecAssumption ==
  \A spec \in JobSpec :
    spec \in [handler : Handler, idempotency_key : {spec.idempotency_key},
              max_attempts : Nat \ {0}, retry_backoff_ms : Nat, priority : Int,
              deadline_ms : Time \cup {NoDeadline}]

ASSUME JobAssumption ==
  /\ JobId \subseteq Int
  /\ JitterSeed \in [JobId -> 0 .. 255]
  /\ MaxTime \in Nat
  /\ MaxHistory \in Nat
  /\ {"job", "history"} \X JobId \subseteq RecordKey

VARIABLES
  call,      \* the operation between two of its transactions, or NoCall
  receipts,  \* claims that returned a job
  holder,    \* history: the worker that the last such claim of a job served
  settled,   \* history: complete, fail and release calls that succeeded
  ended,     \* history: jobs whose complete or cancel call succeeded
  retried,   \* history: jobs that retry_job tried to revive
  doubted    \* history: jobs with a commit that was in doubt

history == <<receipts, holder, settled, ended, retried, doubted>>
vars == <<mem, medium, call, history>>

Init ==
  /\ InitRecords
  /\ call = NoCall
  /\ receipts = {}
  /\ holder = [id \in JobId |-> NoWorker]
  /\ settled = {}
  /\ ended = {}
  /\ retried = {}
  /\ doubted = {}

-----------------------------------------------------------------------------
Job(id) == mem[<<"job", id>>]
History(id) == mem[<<"history", id>>]
Present == {id \in JobId : Job(id) # NoRecord}

Active(job) == job.state \in {"Ready", "Leased"}

PersistJob(id, job) == [k \in {<<"job", id>>} |-> job]

PersistFirstEntryOnly(id, job, kind) ==
  [k \in {<<"job", id>>, <<"history", id>>} |-> IF k[1] = "job" THEN job ELSE <<kind>>]

(* The job and the next entry of its history, in one transaction.          *)
PersistJobWithHistory(id, job, kind) ==
  [k \in {<<"job", id>>, <<"history", id>>} |->
     IF k[1] = "job" THEN job
     ELSE Append(IF History(id) = NoRecord THEN << >> ELSE History(id), kind)]

(* Otherwise next_history_sequence is HistoryExhausted.                    *)
HistoryLeft(id) == History(id) = NoRecord \/ Len(History(id)) <= MaxHistory

(* A transaction for job id, which succeeds or is in doubt; in doubt, the  *)
(* operation returns its error.                                            *)
Commit(id, writes, success) ==
  \/ CommitOk(writes) /\ success /\ UNCHANGED doubted
  \/ /\ CommitInDoubt(writes)
     /\ doubted' = doubted \cup {id}
     /\ call' = NoCall
     /\ UNCHANGED <<receipts, holder, settled, ended>>

(* What a transaction that changes no history variable leaves alone.       *)
Quiet == UNCHANGED <<receipts, holder, settled, ended>>

BuildJob(spec, at) ==
  [state |-> "Ready", spec |-> spec, available_at_ms |-> at, attempts |-> 0,
   lease_until_ms |-> 0, lease_generation |-> 0]

FindReadyByIdempotency(key) ==
  {id \in Present : Job(id).state = "Ready" /\ Job(id).spec.idempotency_key = key}

FindActiveJobByIdempotency(key) ==
  {id \in Present : Active(Job(id)) /\ Job(id).spec.idempotency_key = key}

(* The identifier is random and taken to be unused. With an active job of  *)
(* the same idempotency key, submit_job returns that one and writes        *)
(* nothing.                                                                *)
SubmitJob(spec, at) ==
  \E id \in JobId :
    /\ call = NoCall
    /\ \A m \in {mem} \cup {medium[i] : i \in DOMAIN medium} : m[<<"job", id>>] = NoRecord
    /\ spec.idempotency_key # NoKey =>
         FindActiveJobByIdempotency(spec.idempotency_key) = {}
    /\ Commit(id, PersistJobWithHistory(id, BuildJob(spec, at), "Submitted"),
              Quiet /\ UNCHANGED call)
    /\ UNCHANGED retried

-----------------------------------------------------------------------------
(* claim_job_for_handlers: the scan, and the jobs it finds.                *)

ReclaimableByTime(job, now) == job.state = "Ready" \/ job.lease_until_ms <= now

Reclaimable(job, now) ==
  \/ job.state = "Ready"
  \/ job.state = "Leased" /\ job.lease_until_ms <= now

PastDeadline(job, now) ==
  job.spec.deadline_ms # NoDeadline /\ job.spec.deadline_ms <= now

Due(job, now) == job.state = "Ready" => job.available_at_ms <= now

Scanned(now, handlers) ==
  {id \in Present : /\ handlers = {} \/ Job(id).spec.handler \in handlers
                    /\ Reclaimable(Job(id), now)}

Expired(now, handlers) == {id \in Scanned(now, handlers) : PastDeadline(Job(id), now)}

Candidates(now, handlers) ==
  {id \in Scanned(now, handlers) \ Expired(now, handlers) : Due(Job(id), now)}

(* The scan is in the order of the identifiers and replaces its candidate  *)
(* by a strictly better one only.                                          *)
Better(a, b) ==
  LET x == Job(a)
      y == Job(b)
  IN  \/ x.spec.priority > y.spec.priority
      \/ /\ x.spec.priority = y.spec.priority
         /\ \/ x.available_at_ms < y.available_at_ms
            \/ x.available_at_ms = y.available_at_ms /\ a < b

Best(ids) == {id \in ids : \A other \in ids \ {id} : Better(id, other)}

(* A claim that finds nothing, or whose lease would end after the last     *)
(* time, writes nothing.                                                   *)
ClaimJob(worker, now, lease, handlers) ==
  LET expired == Expired(now, handlers)
      best == Best(Candidates(now, handlers))
  IN  /\ call = NoCall
      /\ now + lease <= MaxTime
      /\ expired \cup best # {}
      /\ call' = [op |-> "claim", ids |-> expired, best |-> best,
                  worker |-> worker, now |-> now, until |-> now + lease]
      /\ UNCHANGED <<mem, medium, history>>

Dead(job) == [job EXCEPT !.state = "Dead", !.lease_until_ms = 0]

FirstOf(ids) == {id \in ids : \A other \in ids : id <= other}

(* One transaction of the loop over the jobs past their deadline.          *)
ExpireStep ==
  \E id \in FirstOf(call.ids) :
    LET rest == call.ids \ {id}
    IN  /\ HistoryLeft(id)
        /\ Commit(id, PersistJobWithHistory(id, Dead(Job(id)), "Dead"),
                  /\ call' = IF rest \cup call.best = {} THEN NoCall
                             ELSE [call EXCEPT !.ids = rest]
                  /\ Quiet)
        /\ UNCHANGED retried

(* The candidate, claimed: it dies instead when its attempts are used up.  *)
Claimed(job, until) ==
  IF job.attempts + 1 > job.spec.max_attempts
  THEN Dead([job EXCEPT !.attempts = @ + 1])
  ELSE [job EXCEPT !.state = "Leased", !.attempts = @ + 1, !.lease_until_ms = until,
                   !.lease_generation = job.attempts + 1]

ClaimStep ==
  \E id \in call.best :
    LET job == Claimed(Job(id), call.until)
        leased == job.state = "Leased"
    IN  /\ call.ids = {}
        /\ HistoryLeft(id)
        /\ Commit(id, PersistJobWithHistory(id, job, IF leased THEN "Claimed" ELSE "Dead"),
                  /\ receipts' = IF leased
                        THEN receipts \cup {[worker |-> call.worker, id |-> id,
                                             generation |-> job.lease_generation]}
                        ELSE receipts
                  /\ holder' = IF leased THEN [holder EXCEPT ![id] = call.worker] ELSE holder
                  /\ call' = NoCall
                  /\ UNCHANGED <<settled, ended>>)
        /\ UNCHANGED retried

-----------------------------------------------------------------------------
(* Operations on a claimed job.                                            *)

ValidateStateOnly(r) == r.id \in Present /\ Job(r.id).state = "Leased"

(* validate_job_lease, and the same test in heartbeat_job and release_job. *)
ValidateJobLease(r) ==
  /\ r.id \in Present
  /\ Job(r.id).state = "Leased"
  /\ Job(r.id).lease_generation = r.generation

HeartbeatJob(r, until) ==
  /\ call = NoCall
  /\ ValidateJobLease(r)
  /\ Commit(r.id, PersistJob(r.id, [Job(r.id) EXCEPT !.lease_until_ms = until]),
            Quiet /\ UNCHANGED call)
  /\ UNCHANGED retried

(* Complete, fail and release write the job and end the lease of r.        *)
Settle(r, job, kind, nowEnded) ==
  /\ call = NoCall
  /\ ValidateJobLease(r)
  /\ HistoryLeft(r.id)
  /\ Commit(r.id, PersistJobWithHistory(r.id, job, kind),
            /\ settled' = settled \cup {[id |-> r.id, by |-> r.worker, holder |-> holder[r.id]]}
            /\ ended' = ended \cup nowEnded
            /\ UNCHANGED <<call, receipts, holder>>)
  /\ UNCHANGED retried

CompleteJob(r) ==
  Settle(r, [Job(r.id) EXCEPT !.state = "Completed", !.lease_until_ms = 0],
         "Completed", {r.id})

(* The exponent is linear in the attempts; the jitter is 91 to 110 percent *)
(* and fixed by the identifier and the attempt, in 8-bit arithmetic.       *)
RetryDelayMs(id, job) ==
  LET base == job.spec.retry_backoff_ms * (IF job.attempts > 1 THEN job.attempts ELSE 1)
      seed == (JitterSeed[id] + job.attempts) % 256
  IN  (base * (91 + (seed % 20))) \div 100

Ready(job, at) == [job EXCEPT !.state = "Ready", !.available_at_ms = at, !.lease_until_ms = 0]

FailJob(r, now) ==
  LET job == Job(r.id)
      at == now + RetryDelayMs(r.id, job)
  IN  \/ /\ ValidateJobLease(r)
         /\ job.attempts >= job.spec.max_attempts
         /\ Settle(r, Dead(job), "Dead", {})
      \/ /\ ValidateJobLease(r)
         /\ job.attempts < job.spec.max_attempts
         /\ at <= MaxTime
         /\ Settle(r, Ready(job, at), "RetryScheduled", {})

ReleaseJob(r, now) == Settle(r, Ready(Job(r.id), now), "RetryScheduled", {})

-----------------------------------------------------------------------------
(* Operations on any job.                                                  *)

ReleaseExpiredJobs(now) ==
  LET expired == {id \in Present : Job(id).state = "Leased" /\ Job(id).lease_until_ms <= now}
  IN  /\ call = NoCall
      /\ expired # {}
      /\ call' = [op |-> "release", ids |-> expired, now |-> now]
      /\ UNCHANGED <<mem, medium, history>>

(* One transaction of the loop over the leases that ran out.               *)
ReleaseStep ==
  \E id \in FirstOf(call.ids) :
    LET job == Job(id)
        exhausted == job.attempts >= job.spec.max_attempts
        rest == call.ids \ {id}
    IN  /\ HistoryLeft(id)
        /\ Commit(id, PersistJobWithHistory(id,
                        IF exhausted THEN Dead(job) ELSE Ready(job, call.now),
                        IF exhausted THEN "Dead" ELSE "RetryScheduled"),
                  /\ call' = IF rest = {} THEN NoCall ELSE [call EXCEPT !.ids = rest]
                  /\ Quiet)
        /\ UNCHANGED retried

(* A new life for a dead job: its attempts and generations start again.    *)
RetryJob(id, now) ==
  /\ call = NoCall
  /\ id \in Present
  /\ Job(id).state = "Dead"
  /\ HistoryLeft(id)
  /\ Commit(id, PersistJobWithHistory(id,
                  [Ready(Job(id), now) EXCEPT !.attempts = 0, !.lease_generation = 0],
                  "RetryScheduled"),
            Quiet /\ UNCHANGED call)
  /\ retried' = retried \cup {id}

CancelJob(id) ==
  /\ call = NoCall
  /\ id \in Present
  /\ Active(Job(id))
  /\ HistoryLeft(id)
  /\ Commit(id, PersistJobWithHistory(id,
                  [Job(id) EXCEPT !.state = "Cancelled", !.lease_until_ms = 0], "Cancelled"),
            /\ ended' = ended \cup {id}
            /\ UNCHANGED <<call, receipts, holder, settled>>)
  /\ UNCHANGED retried

(* A commit of a call fails before its commit record is written, or a      *)
(* history is exhausted: the call returns its error.                       *)
CallFails ==
  /\ call # NoCall
  /\ call' = NoCall
  /\ UNCHANGED <<mem, medium, history>>

CallSteps ==
  \/ call # NoCall /\ call.op = "claim" /\ (ExpireStep \/ ClaimStep)
  \/ call # NoCall /\ call.op = "release" /\ ReleaseStep
  \/ CallFails

SubmitSteps(specs, times) == \E spec \in specs, at \in times : SubmitJob(spec, at)

WorkSteps(times) ==
  \/ \E worker \in Worker, now \in times, lease \in times, handlers \in SUBSET Handler :
       ClaimJob(worker, now, lease, handlers)
  \/ \E r \in receipts : CompleteJob(r)
  \/ \E r \in receipts, t \in times : HeartbeatJob(r, t) \/ FailJob(r, t) \/ ReleaseJob(r, t)
  \/ \E now \in times : ReleaseExpiredJobs(now)
  \/ \E id \in JobId, now \in times : RetryJob(id, now)
  \/ \E id \in JobId : CancelJob(id)

StoreSteps ==
  \/ call = NoCall /\ Flush /\ UNCHANGED <<call, history>>
  \/ (Restart \/ PowerLoss) /\ call' = NoCall /\ UNCHANGED history

Next == SubmitSteps(JobSpec, Time) \/ WorkSteps(Time) \/ CallSteps \/ StoreSteps

Spec == Init /\ [][Next]_vars

-----------------------------------------------------------------------------
(* Properties.                                                             *)

StoredJob(job) ==
  /\ DOMAIN job = {"state", "spec", "available_at_ms", "attempts", "lease_until_ms",
                   "lease_generation"}
  /\ job.state \in {"Ready", "Leased", "Completed", "Dead", "Cancelled"}
  /\ \E spec \in JobSpec : job.spec = [spec EXCEPT !.idempotency_key = job.spec.idempotency_key]
  /\ job.available_at_ms \in Time
  /\ job.attempts \in 0 .. job.spec.max_attempts + 1
  /\ job.lease_until_ms \in Time
  /\ job.lease_generation \in 0 .. job.spec.max_attempts

Kind == {"Submitted", "Claimed", "Completed", "RetryScheduled", "Dead", "Cancelled"}

RecordsOK(m) ==
  \A id \in JobId :
    \/ m[<<"job", id>>] = NoRecord /\ m[<<"history", id>>] = NoRecord
    \/ /\ StoredJob(m[<<"job", id>>])
       /\ \A i \in DOMAIN m[<<"history", id>>] : m[<<"history", id>>][i] \in Kind
       /\ Len(m[<<"history", id>>]) \in 1 .. MaxHistory + 1

(* In memory and wherever a recovery may start from, a job has a history   *)
(* if and only if it exists, its attempts never pass max_attempts by more  *)
(* than the one that kills it, and no lease generation passes it at all.   *)
TypeOK ==
  /\ RecordsOK(mem)
  /\ medium # << >> /\ \A i \in DOMAIN medium : RecordsOK(medium[i])
  /\ call # NoCall /\ call.op \in {"claim", "release"} => call.ids \subseteq Present
  /\ receipts \subseteq [worker: Worker, id: JobId, generation: Nat]
  /\ holder \in [JobId -> Worker \cup {NoWorker}]
  /\ ended \cup retried \cup doubted \subseteq JobId

(* complete_job, fail_job and release_job succeed only for the worker that *)
(* the last claim of the job served, as long as retry_job has not given    *)
(* the job a second life: the generation fences every earlier holder,      *)
(* whatever was in doubt, lost or restarted in between.                    *)
SettledByHolder ==
  \A s \in settled : s.by = s.holder \/ s.id \in retried

(* The same without the exception: a stale acknowledgement is rejected.    *)
StaleAckRejected == \A s \in settled : s.by = s.holder

(* A job whose complete_job or cancel_job returned success stays so: no    *)
(* claim, reaper, retry or recovery brings it back.                        *)
EndedIsFinal ==
  \A id \in ended : id \in Present /\ Job(id).state \in {"Completed", "Cancelled"}

(* No job is handed out more often than its max_attempts allow, through    *)
(* failures, releases, lost leases and recoveries, between two revivals.   *)
AttemptsAreBounded ==
  \A r \in receipts : r.id \in Present /\ r.generation <= Job(r.id).spec.max_attempts

Claims(entries) == Cardinality({i \in DOMAIN entries : entries[i] = "Claimed"})

Explains(entries, job) ==
  LET last == entries[Len(entries)]
  IN  CASE job.state = "Ready" -> last \in {"Submitted", "RetryScheduled"}
        [] job.state = "Leased" -> last = "Claimed"
        [] OTHER -> last = job.state

(* The history tells the state: its last entry is the one for the job's    *)
(* state, and until a revival its claims count up to the lease generation. *)
(* A heartbeat after a commit in doubt may leave them apart.               *)
HistoryExplainsState ==
  \A id \in Present \ doubted :
    /\ Explains(History(id), Job(id))
    /\ id \notin retried => Claims(History(id)) = Job(id).lease_generation

(* Jobs keep their types, are handed out as often as allowed at most, and  *)
(* once finished stay so.                                                  *)
JobsEndForGood == TypeOK /\ AttemptsAreBounded /\ EndedIsFinal

=============================================================================
