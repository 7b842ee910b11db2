----------------------------- MODULE JobSources ------------------------------
(***************************************************************************)
(* What creates durable jobs besides submit_job: one-shot and interval     *)
(* schedules (jobs.rs), cron schedules (cron_scheduler.rs) and triggers    *)
(* (triggers.rs), composed with the life of the jobs. A schedule's tick    *)
(* writes the job and moves the schedule on in one transaction; a cron     *)
(* tick makes two, and counts on the idempotency key of the occurrence if  *)
(* it must repeat the first; a trigger writes its job and its counter in   *)
(* one.                                                                    *)
(***************************************************************************)
EXTENDS Jobs

CONSTANTS
  ScheduleId, CronId, TriggerId,  \* sets of integers
  Every,      \* every_ms of the interval schedules
  CronTimes,  \* the times a cron expression matches
  MaxFires,   \* u64::MAX for a trigger's fire_count
  NoOrigin    \* a job that no schedule created

ASSUME SourceAssumption ==
  /\ Every \in Nat \ {0}
  /\ CronTimes \subseteq Time
  /\ MaxFires \in Nat
  /\ {"schedule"} \X ScheduleId \subseteq RecordKey
  /\ {"cron"} \X CronId \subseteq RecordKey
  /\ {"trigger"} \X TriggerId \subseteq RecordKey

(* What jobs and sources look like in the Store. A schedule extends a key  *)
(* with the time of the run, a cron schedule makes one of its identifier   *)
(* and the time.                                                           *)
GivenKey == {spec.idempotency_key : spec \in JobSpec}
IdempotencyKey == GivenKey \cup (GivenKey \X Time) \cup (CronId \X Time)

StoredSpec == {[spec EXCEPT !.idempotency_key = k] : spec \in JobSpec, k \in IdempotencyKey}

JobRecord ==
  [state : {"Ready", "Leased", "Completed", "Dead", "Cancelled"}, spec : StoredSpec,
   available_at_ms : Time, attempts : Nat, lease_until_ms : Time, lease_generation : Nat]

ScheduleRecord ==
  [job : JobSpec, mode : {"Once", "Interval"}, next_run_ms : Time, enabled : BOOLEAN]
CronRecord == [job : JobSpec, next_run_ms : CronTimes, enabled : BOOLEAN]
TriggerRecord ==
  [job : JobSpec, available_at_ms : Time, enabled : BOOLEAN, fire_count : Nat]

ASSUME AbsenceAssumption ==
  /\ NoRecord \notin JobRecord
  /\ NoRecord \notin Seq(Kind)
  /\ NoRecord \notin ScheduleRecord
  /\ NoRecord \notin CronRecord
  /\ NoRecord \notin TriggerRecord
  /\ NoOrigin \notin (({"schedule"} \X ScheduleId) \cup ({"cron"} \X CronId)) \X Time

(* Callers do not give a job or a schedule the key of a cron run, which    *)
(* has a random identifier in it.                                          *)
ASSUME KeyAssumption == GivenKey \cap (CronId \cup (CronId \X Time)) = {}

VARIABLES
  origin,     \* history: for each job, the schedule and time it was created for
  firstRun,   \* history: for each cron schedule, the next_run_ms it was created with
  reenabled,  \* history: schedules that set_schedule_enabled turned on
  fires       \* history: fire_trigger calls that returned a job, per trigger

sourceHistory == <<origin, firstRun, reenabled, fires>>
allVars == <<vars, sourceHistory>>

InitSources ==
  /\ Init
  /\ origin = [id \in JobId |-> NoOrigin]
  /\ firstRun = [id \in CronId |-> 0]
  /\ reenabled = {}
  /\ fires = [id \in TriggerId |-> 0]

-----------------------------------------------------------------------------
Put(key, record) == [k \in {key} |-> record]

Both(v, w) == [k \in DOMAIN v \cup DOMAIN w |-> IF k \in DOMAIN v THEN v[k] ELSE w[k]]

(* A transaction that writes no job.                                       *)
CommitSource(writes, success) ==
  \/ CommitOk(writes) /\ success
  \/ CommitInDoubt(writes) /\ call' = NoCall

Unused(key) ==
  \A m \in {mem} \cup {medium[i] : i \in DOMAIN medium} : m[key] = NoRecord

(* create_schedule, create_cron_schedule and create_trigger, each under a  *)
(* random identifier.                                                      *)
Create(key, record) ==
  /\ call = NoCall
  /\ Unused(key)
  /\ CommitSource(Put(key, record), UNCHANGED call)
  /\ UNCHANGED <<history, origin, reenabled, fires>>

NextAfter(t) ==
  CHOOSE n \in CronTimes : n > t /\ \A m \in CronTimes : m > t => n <= m

CreateSchedule(id, spec, mode, first) ==
  /\ Create(<<"schedule", id>>,
            [job |-> spec, mode |-> mode, next_run_ms |-> first, enabled |-> TRUE])
  /\ UNCHANGED firstRun

CreateCronSchedule(id, spec, after) ==
  /\ \E t \in CronTimes : t > after
  /\ Create(<<"cron", id>>,
            [job |-> spec, next_run_ms |-> NextAfter(after), enabled |-> TRUE])
  /\ firstRun' = [firstRun EXCEPT ![id] = NextAfter(after)]

CreateTrigger(id, spec, at) ==
  /\ Create(<<"trigger", id>>,
            [job |-> spec, available_at_ms |-> at, enabled |-> TRUE, fire_count |-> 0])
  /\ UNCHANGED firstRun

(* set_schedule_enabled, set_cron_schedule_enabled, set_trigger_enabled.   *)
SetEnabled(key, enabled) ==
  /\ call = NoCall
  /\ mem[key] # NoRecord
  /\ CommitSource(Put(key, [mem[key] EXCEPT !.enabled = enabled]), UNCHANGED call)
  /\ reenabled' = IF enabled THEN reenabled \cup {key} ELSE reenabled
  /\ UNCHANGED <<history, origin, firstRun, fires>>

-----------------------------------------------------------------------------
(* Ticks. The loop runs over the schedules found at the start, until limit *)
(* of them have fired.                                                     *)

DueSources(kind, ids, now) ==
  {id \in ids : /\ mem[<<kind, id>>] # NoRecord
                /\ mem[<<kind, id>>].enabled
                /\ mem[<<kind, id>>].next_run_ms <= now}

Tick(op, kind, ids, now, limit) ==
  /\ call = NoCall
  /\ limit > 0
  /\ DueSources(kind, ids, now) # {}
  /\ call' = [op |-> op, ids |-> DueSources(kind, ids, now), left |-> limit, now |-> now]
  /\ UNCHANGED <<mem, medium, history, sourceHistory>>

TickSchedules(now, limit) == Tick("tick", "schedule", ScheduleId, now, limit)

TickCronSchedules(now, limit) == Tick("cron", "cron", CronId, now, limit)

(* The loop goes on with the other schedules, or ends.                     *)
Fired(id) ==
  call' = IF call.left = 1 \/ call.ids = {id} THEN NoCall
          ELSE [op |-> IF call.op = "tick" THEN "tick" ELSE "cron", ids |-> call.ids \ {id}, left |-> call.left - 1,
                now |-> call.now]

(* A one-shot schedule is disabled; an interval schedule moves to its next *)
(* run after now, and passes over the runs it missed.                      *)
Advanced(schedule, now) ==
  IF schedule.mode = "Once" THEN [schedule EXCEPT !.enabled = FALSE]
  ELSE LET missed == (now - schedule.next_run_ms) \div Every
       IN  [schedule EXCEPT !.next_run_ms = @ + (missed + 1) * Every]

(* The key of a schedule's job is extended with the time of the run.       *)
OccurrenceSpec(spec, at) ==
  IF spec.idempotency_key = NoKey THEN spec
  ELSE [spec EXCEPT !.idempotency_key = <<@, at>>]

FireWritesJobOnly(key, schedule, jobWrites) == jobWrites

(* The job, its history and the schedule, in one transaction.              *)
FireWrites(key, schedule, jobWrites) == Both(Put(key, schedule), jobWrites)

TickStep ==
  \E sid \in FirstOf(call.ids), id \in JobId :
    LET key == <<"schedule", sid>>
        schedule == mem[key]
        at == schedule.next_run_ms
        job == BuildJob(OccurrenceSpec(schedule.job, at), at)
        next == Advanced(schedule, call.now)
    IN  /\ Unused(<<"job", id>>)
        /\ next.next_run_ms <= MaxTime
        /\ Commit(id, FireWrites(key, next, PersistJobWithHistory(id, job, "Submitted")),
                  Fired(sid) /\ Quiet)
        /\ origin' = [origin EXCEPT ![id] = <<key, at>>]
        /\ UNCHANGED <<retried, firstRun, reenabled, fires>>

Earliest(ids) ==
  {id \in ids : \A other \in ids :
                  mem[<<"cron", id>>].next_run_ms <= mem[<<"cron", other>>].next_run_ms}

(* occurrence_key: the schedule's identifier and the time of the run.      *)
OccurrenceKey(cid, at) == <<cid, at>>

(* The first transaction of a cron fire, submit_job; it writes nothing     *)
(* when the job of the occurrence is active. The second follows in any     *)
(* case.                                                                   *)
CronSubmitStep ==
  \E cid \in Earliest(call.ids) :
    LET key == <<"cron", cid>>
        at == mem[key].next_run_ms
        spec == [mem[key].job EXCEPT !.idempotency_key = OccurrenceKey(cid, at)]
        second == [op |-> "cron_advance", ids |-> call.ids, left |-> call.left,
                   now |-> call.now, cid |-> cid]
    IN  /\ \/ /\ FindActiveJobByIdempotency(spec.idempotency_key) # {}
              /\ call' = second
              /\ UNCHANGED <<mem, medium, history, origin>>
           \/ /\ FindActiveJobByIdempotency(spec.idempotency_key) = {}
              /\ \E id \in JobId :
                   /\ Unused(<<"job", id>>)
                   /\ Commit(id, PersistJobWithHistory(id, BuildJob(spec, at), "Submitted"),
                             call' = second /\ Quiet)
                   /\ origin' = [origin EXCEPT ![id] = <<key, at>>]
              /\ UNCHANGED retried
        /\ UNCHANGED <<firstRun, reenabled, fires>>

(* The next run after the one that fired, not after now: missed runs are   *)
(* caught up with, one in each tick.                                       *)
CronAdvanced(cron) == [cron EXCEPT !.next_run_ms = NextAfter(@)]

(* The second transaction. It is not reached when the expression matches   *)
(* no later time.                                                          *)
CronAdvanceStep ==
  LET cid == call.cid
      key == <<"cron", cid>>
  IN  /\ \E t \in CronTimes : t > mem[key].next_run_ms
      /\ CommitSource(Put(key, CronAdvanced(mem[key])),
                      Fired(cid))
      /\ UNCHANGED <<history, sourceHistory>>

-----------------------------------------------------------------------------
Counted(trigger) == [trigger EXCEPT !.fire_count = @ + 1]

(* The job, if one is created, and the counter, in one transaction: with   *)
(* an active job of its idempotency key a trigger counts a fire and        *)
(* creates none.                                                           *)
FireTrigger(tid) ==
  LET key == <<"trigger", tid>>
      spec == mem[key].job
      counter == Put(key, Counted(mem[key]))
      active == IF spec.idempotency_key = NoKey THEN {}
                ELSE FindActiveJobByIdempotency(spec.idempotency_key)
      returned == fires' = [fires EXCEPT ![tid] = @ + 1]
  IN  /\ call = NoCall
      /\ mem[key] # NoRecord
      /\ mem[key].enabled
      /\ mem[key].fire_count < MaxFires
      /\ \/ /\ active # {}
            /\ \/ CommitOk(counter) /\ returned
               \/ CommitInDoubt(counter) /\ UNCHANGED fires
            /\ UNCHANGED <<call, history>>
         \/ /\ active = {}
            /\ \E id \in JobId :
                 /\ Unused(<<"job", id>>)
                 /\ Commit(id, Both(counter, PersistJobWithHistory(id, BuildJob(spec, mem[key].available_at_ms),
                                                 "Submitted")),
                           Quiet /\ UNCHANGED call)
                 /\ IF id \in doubted' THEN UNCHANGED fires ELSE returned
            /\ UNCHANGED retried
      /\ UNCHANGED <<origin, firstRun, reenabled>>

-----------------------------------------------------------------------------
SourceKeys ==
  ({"schedule"} \X ScheduleId) \cup ({"cron"} \X CronId) \cup ({"trigger"} \X TriggerId)

SourceSteps ==
  \/ call # NoCall /\ call.op = "tick" /\ TickStep
  \/ call # NoCall /\ call.op = "cron" /\ CronSubmitStep
  \/ call # NoCall /\ call.op = "cron_advance" /\ CronAdvanceStep

CreateSteps(specs) ==
  \/ \E id \in ScheduleId, spec \in specs, mode \in {"Once", "Interval"}, first \in Time :
       CreateSchedule(id, spec, mode, first)
  \/ \E id \in CronId, spec \in specs, after \in Time : CreateCronSchedule(id, spec, after)
  \/ \E id \in TriggerId, spec \in specs, at \in Time : CreateTrigger(id, spec, at)

FireSteps ==
  \/ SourceSteps
  \/ \E key \in SourceKeys, enabled \in BOOLEAN : SetEnabled(key, enabled)
  \/ \E now \in Time, limit \in 1 .. 2 : TickSchedules(now, limit) \/ TickCronSchedules(now, limit)
  \/ \E id \in TriggerId : FireTrigger(id)

NextSources == (Next /\ UNCHANGED sourceHistory) \/ CreateSteps(JobSpec) \/ FireSteps

SpecSources == InitSources /\ [][NextSources]_allVars

-----------------------------------------------------------------------------
(* Properties.                                                             *)

SameOrigin(a, b) == a # b /\ origin[a] # NoOrigin /\ origin[a] = origin[b]

(* tick_schedules created the job; it looks for no other with its key.     *)
Ticked(id) == origin[id] # NoOrigin /\ origin[id][1][1] = "schedule"

(* Two active jobs share an idempotency key only if one was revived by     *)
(* retry_job or created by tick_schedules, which look for no other; or had *)
(* a commit in doubt, which the search for an active job cannot see until  *)
(* the Store is reopened. (find_active_job_by_idempotency, for submit_job, *)
(* cron schedules and triggers)                                            *)
OneActivePerKey ==
  \A a, b \in Present :
    /\ a # b /\ Active(Job(a)) /\ Active(Job(b))
    /\ Job(a).spec.idempotency_key = Job(b).spec.idempotency_key
    /\ Job(a).spec.idempotency_key # NoKey
    => {a, b} \cap (retried \cup doubted) # {} \/ Ticked(a) \/ Ticked(b)

(* A run of a one-shot or interval schedule creates one job at most,       *)
(* through crashes and repeated ticks, unless the schedule was turned on   *)
(* again (a one-shot schedule keeps its time) or the commit of one of the  *)
(* two jobs was in doubt.                                                  *)
OneJobPerRun ==
  \A a, b \in Present :
    SameOrigin(a, b) /\ origin[a][1][1] = "schedule"
    => origin[a][1] \in reenabled \/ {a, b} \cap doubted # {}

(* A cron schedule loses no run: when its next_run_ms has passed a time    *)
(* that the expression matches, that time has its job, whatever failed or  *)
(* crashed between the two transactions of a tick.                         *)
NoRunIsLost ==
  \A cid \in CronId : mem[<<"cron", cid>>] # NoRecord =>
    \A t \in CronTimes : firstRun[cid] <= t /\ t < mem[<<"cron", cid>>].next_run_ms =>
      \E id \in Present : origin[id] = <<<<"cron", cid>>, t>>

(* A repeated cron tick reuses the job that the earlier one created        *)
(* instead of duplicating the work.                                        *)
CronTickIsIdempotent ==
  \A a, b \in Present : SameOrigin(a, b) => origin[a][1][1] # "cron"

(* fire_count misses no fire that fire_trigger reported.                   *)
FiresAreCounted ==
  \A tid \in TriggerId :
    fires[tid] > 0 => mem[<<"trigger", tid>>] # NoRecord
                      /\ fires[tid] <= mem[<<"trigger", tid>>].fire_count

(* What creates jobs keeps count of them: a run of a schedule makes one    *)
(* job, a cron run is not lost, and a fire of a trigger is counted,        *)
(* wherever a tick or a fire stops.                                        *)
SourcesKeepCount == OneJobPerRun /\ NoRunIsLost /\ FiresAreCounted

=============================================================================
