----------------------------- MODULE JobTheorems -----------------------------
(***************************************************************************)
(* Theorems about durable jobs together with the schedules, cron schedules *)
(* and triggers that create them, for any number of each, of workers and   *)
(* of commits in doubt.                                                    *)
(*                                                                         *)
(* Module JobProofs shows that the steps of jobs and the ticks keep JobInv *)
(* and SourceInv. The operations on a source and the fire of a trigger     *)
(* follow here. All of them presume what two operators of the model        *)
(* compute: that Claims counts the entries "Claimed" one by one, and that  *)
(* NextAfter is the next run. That is shown then, and with it that the     *)
(* invariants hold initially, and always.                                  *)
(***************************************************************************)
EXTENDS JobProofs, FiniteSetTheorems

-----------------------------------------------------------------------------
(* Sources: steps that write a source and no job.                          *)

(* What a source may be replaced by: a schedule is no earlier and turned   *)
(* on only if it is among O, a cron schedule has a job for each run that   *)
(* is over, a trigger counts the fires reported.                           *)
Supersedes(key, record, first, fired, O) ==
  /\ key[1] = "schedule" =>
       /\ record \in ScheduleRecord
       /\ \/ mem[key] = NoRecord \/ key \in O
          \/ /\ record.enabled => mem[key].enabled
             /\ mem[key].next_run_ms <= record.next_run_ms
  /\ key[1] = "cron" =>
       /\ record \in CronRecord
       /\ \A t \in CronTimes : first[key[2]] <= t /\ t < record.next_run_ms =>
            \E x \in JobId : mem[JobKey(x)] # NoRecord /\ origin[x] = <<key, t>>
  /\ key[1] = "trigger" =>
       /\ record \in TriggerRecord
       /\ fired[key[2]] > 0 => fired[key[2]] <= record.fire_count

OthersKeep(key, first, fired) ==
  /\ \A cid \in CronId : key # <<"cron", cid>> => first[cid] = firstRun[cid]
  /\ \A tid \in TriggerId : key # <<"trigger", tid>> => fired[tid] = fires[tid]

LEMMA SourceWritten ==
  ASSUME JobCore, NEW key \in SourceKeys, NEW record, NEW m \in {mem, Newest}, NEW n,
         n = Written(m, Put(key, record))
  PROVE  /\ m \in Maps /\ n[key] = record
         /\ \A k \in SourceKeys \ {key} : n[k] = m[k]
         /\ \A x \in JobId : /\ n[JobKey(x)] = m[JobKey(x)]
                             /\ n[HistoryKey(x)] = m[HistoryKey(x)]
                             /\ mem[JobKey(x)] # NoRecord => n[JobKey(x)] # NoRecord
         /\ \A x \in JobId \ doubted : n[JobKey(x)] = mem[JobKey(x)]
<1>. DEFINE w == Put(key, record)
<1>1. DOMAIN w = {key} /\ w[key] = record
  BY Zenon DEF Put
<1>. HIDE DEF w
<1>2. m \in Maps
  BY NewestIsAMap, Zenon DEF JobCore
<1>3. n[key] = record /\ \A k \in SourceKeys \ {key} : n[k] = m[k]
  BY <1>1, SourceKeysAreKeys, Zenon DEF Written, w
<1>4. WritesNoJob(w)
  BY <1>1, SourceKeysAreKeys, Zenon DEF WritesNoJob
<1>5. \A x \in JobId : n[JobKey(x)] = m[JobKey(x)] /\ n[HistoryKey(x)] = m[HistoryKey(x)]
  BY <1>4, WrittenNoJob, Zenon DEF w
<1>. QED
  BY <1>2, <1>3, <1>5, Zenon DEF JobCore, Undoubted

LEMMA SupersedingMap ==
  ASSUME JobCore, SourceCore, NEW key \in SourceKeys, NEW record, NEW m \in {mem, Newest}, NEW n,
         n = Written(m, Put(key, record)), NEW first, NEW fired, NEW O, reenabled \subseteq O,
         Supersedes(key, record, first, fired, O), OthersKeep(key, first, fired)
  PROVE  MapSourced(n, origin, first, fired, doubted, O)
<1>1. /\ m \in Maps /\ n[key] = record
      /\ \A k \in SourceKeys \ {key} : n[k] = m[k]
      /\ \A x \in JobId : /\ n[JobKey(x)] = m[JobKey(x)]
                          /\ mem[JobKey(x)] # NoRecord => n[JobKey(x)] # NoRecord
      /\ \A x \in JobId \ doubted : n[JobKey(x)] = mem[JobKey(x)]
  BY SourceWritten
<1>2. /\ MapSourced(m, origin, firstRun, fires, doubted, reenabled)
      /\ MapSourced(mem, origin, firstRun, fires, doubted, reenabled)
  BY <1>1, Zenon DEF SourceCore, Maps
<1>3. /\ \A sid \in ScheduleId : key = <<"schedule", sid>> => key[1] = "schedule"
      /\ \A cid \in CronId : key = <<"cron", cid>> => key[1] = "cron" /\ key[2] = cid
      /\ \A tid \in TriggerId : key = <<"trigger", tid>> => key[1] = "trigger" /\ key[2] = tid
  OBVIOUS
<1>4. SourcesFit(n)
  <2>1. /\ \A sid \in ScheduleId : \/ n[<<"schedule", sid>>] = m[<<"schedule", sid>>]
                                   \/ n[<<"schedule", sid>>] \in ScheduleRecord
        /\ \A cid \in CronId : \/ n[<<"cron", cid>>] = m[<<"cron", cid>>]
                               \/ n[<<"cron", cid>>] \in CronRecord
        /\ \A tid \in TriggerId : \/ n[<<"trigger", tid>>] = m[<<"trigger", tid>>]
                                  \/ n[<<"trigger", tid>>] \in TriggerRecord
    BY <1>1, <1>3, SourceKeysOf, Zenon DEF Supersedes
  <2>. QED
    BY <1>2, <2>1, SourcesStayFit, Zenon DEF MapSourced
<1>5. FiresFit(n, fired)
  <2>1. ASSUME NEW tid \in TriggerId
        PROVE  \/ n[<<"trigger", tid>>] = m[<<"trigger", tid>>] /\ fired[tid] = fires[tid]
               \/ fired[tid] > 0 =>
                    /\ n[<<"trigger", tid>>] # NoRecord
                    /\ fired[tid] <= n[<<"trigger", tid>>].fire_count
    <3>1. CASE key = <<"trigger", tid>>
      BY <1>1, <1>3, <3>1, AbsenceAssumption, Zenon DEF Supersedes
    <3>2. CASE key # <<"trigger", tid>>
      BY <1>1, <3>2, SourceKeysOf, Zenon DEF OthersKeep
    <3>. QED
      BY <3>1, <3>2, Zenon
  <2>. QED
    BY <1>2, <2>1, FiresStayFit, SMTT(30) DEF MapSourced
<1>6. RunsFit(n, origin, first)
  <2>1. ASSUME NEW cid \in CronId, n[<<"cron", cid>>] # NoRecord
        PROVE  \/ first[cid] = firstRun[cid] /\ n[<<"cron", cid>>] = m[<<"cron", cid>>]
               \/ \A t \in CronTimes : first[cid] <= t /\ t < n[<<"cron", cid>>].next_run_ms =>
                    \E x \in JobId : n[JobKey(x)] # NoRecord /\ origin[x] = <<<<"cron", cid>>, t>>
    <3>1. CASE key = <<"cron", cid>>
      BY <1>1, <1>3, <3>1, Zenon DEF Supersedes
    <3>2. CASE key # <<"cron", cid>>
      BY <1>1, <3>2, SourceKeysOf, Zenon DEF OthersKeep
    <3>. QED
      BY <3>1, <3>2, Zenon
  <2>2. RunsFit(m, origin, firstRun)
    BY <1>2, Zenon DEF MapSourced
  <2>. QED
    BY <1>1, <2>1, <2>2, SMTT(30) DEF RunsFit
<1>7. KeysFit(n, origin)
  BY <1>1, <1>2 DEF MapSourced, KeysFit
<1>8. Passed(n, origin, doubted, O)
  <2>1. JobsKept(n, m, mem, origin, origin, doubted)
    BY <1>1, Zenon DEF JobsKept
  <2>2. SchedulesKept(n, m, mem, O)
    <3>. SUFFICES ASSUME NEW sid \in ScheduleId, <<"schedule", sid>> \notin O,
                         key = <<"schedule", sid>>, mem[key] # NoRecord
                  PROVE  /\ record \in ScheduleRecord /\ mem[key] \in ScheduleRecord
                         /\ record.enabled => mem[key].enabled
                         /\ mem[key].next_run_ms <= record.next_run_ms
      BY <1>1, SourceKeysOf, Zenon DEF SchedulesKept
    <3>1. mem[key] \in ScheduleRecord
      BY <1>2, Zenon DEF MapSourced, SourcesFit
    <3>. QED
      BY <1>3, <3>1, Zenon DEF Supersedes
  <2>. QED
    BY <1>2, <2>1, <2>2, PassedStays, Zenon DEF MapSourced
<1>. QED
  BY <1>4, <1>5, <1>6, <1>7, <1>8, Zenon DEF MapSourced

LEMMA SourceCommitKeeps ==
  ASSUME JobCore, SourceCore, SettledByHolder, NEW key \in SourceKeys, NEW record, NEW w,
         w = Put(key, record),
         UNCHANGED <<receipts, holder, settled, ended, retried, doubted, origin>>,
         reenabled \subseteq reenabled', SourcesToldOK',
         Supersedes(key, record, firstRun', fires', reenabled'), OthersKeep(key, firstRun', fires'),
         \/ CommitOk(w)
         \/ CommitInDoubt(w) /\ fires' = fires /\ (firstRun' = firstRun \/ Unused(key))
  PROVE  JobCore' /\ SourceCore' /\ SettledByHolder'
<1>1. ASSUME NEW m \in {mem, Newest}
      PROVE  /\ MapSourced(Written(m, w), origin, firstRun', fires', doubted, reenabled')
             /\ m \in Maps
             /\ \A x \in JobId : /\ Written(m, w)[JobKey(x)] = m[JobKey(x)]
                                 /\ Written(m, w)[HistoryKey(x)] = m[HistoryKey(x)]
  BY SupersedingMap, SourceWritten
<1>2. ASSUME CommitInDoubt(w), fires' = fires, firstRun' = firstRun \/ Unused(key), NEW m \in Maps
      PROVE  MapSourced(m, origin, firstRun', fires', doubted, reenabled')
  <2>1. MapSourced(m, origin, firstRun, fires, doubted, reenabled)
    BY Zenon DEF SourceCore
  <2>2. \A cid \in CronId : m[<<"cron", cid>>] # NoRecord => firstRun'[cid] = firstRun[cid]
    BY <1>2, Zenon DEF OthersKeep, Unused, Maps
  <2>3. RunsFit(m, origin, firstRun')
    BY <2>1, <2>2, Zenon DEF MapSourced, RunsFit
  <2>4. Passed(m, origin, doubted, reenabled')
    BY <2>1, Zenon DEF MapSourced, Passed
  <2>. QED
    BY <1>2, <2>1, <2>3, <2>4, Zenon DEF MapSourced
<1>3. /\ MediumOK' /\ MediumOK
      /\ \/ mem' = mem \/ mem' = Written(mem, w)
      /\ \/ CommitOk(w) /\ Maps' = {Written(mem, w), Written(Newest, w)}
         \/ /\ CommitInDoubt(w) /\ fires' = fires /\ (firstRun' = firstRun \/ Unused(key))
            /\ Maps' = Maps \cup {Written(Newest, w)}
      /\ Newest' = Written(Newest, w)
  BY MapsAfterOk, MapsAfterDoubt, Zenon DEF JobCore
<1>4. \A n \in Maps' : MapSourced(n, origin', firstRun', fires', doubted', reenabled')
  BY <1>1, <1>2, <1>3, Zenon
<1>5. \A x \in JobId : mem'[JobKey(x)] = mem[JobKey(x)]
  BY <1>1, <1>3, Zenon
<1>6. JobCore'
  <2>1. ASSUME NEW n \in Maps'
        PROVE  \E m \in Maps : \A x \in JobId :
                 n[JobKey(x)] = m[JobKey(x)] /\ n[HistoryKey(x)] = m[HistoryKey(x)]
    BY <1>1, <1>3
  <2>2. \A x \in JobId : Newest'[JobKey(x)] = Newest[JobKey(x)]
    BY <1>1, <1>3, Zenon
  <2>3. \A x \in JobId : mem'[JobKey(x)] # NoRecord => Newest'[JobKey(x)] # NoRecord
    BY <1>5, <2>2, Zenon DEF JobCore, Undoubted
  <2>. QED
    BY <1>3, <2>1, <2>3, MapsFit, Zenon
<1>7. Present' = Present /\ \A x \in Present : x \in JobId /\ Job(x)' = Job(x)
  BY <1>5, Zenon DEF Present, Job, JobKey
<1>8. Sourced' /\ OneJobPerRun' /\ OneActivePerKey'
  <2>1. Sourced'
    BY <1>5, Zenon DEF SourceCore, Sourced
  <2>2. OneJobPerRun'
    BY <1>7, Zenon DEF SourceCore, OneJobPerRun, SameOrigin
  <2>3. OneActivePerKey'
    BY <1>7 DEF SourceCore, OneActivePerKey, Ticked
  <2>. QED
    BY <2>1, <2>2, <2>3, Zenon
<1>9. SettledByHolder'
  BY Zenon DEF SettledByHolder
<1>. QED
  BY <1>4, <1>6, <1>8, <1>9, Zenon DEF SourceCore

LEMMA CommitSourceKeeps ==
  ASSUME JobInv, SourceInv, NEW key \in SourceKeys, NEW record,
         call = NoCall, CommitSource(Put(key, record), UNCHANGED call),
         UNCHANGED <<history, origin, fires>>, reenabled \subseteq reenabled', SourcesToldOK',
         firstRun' = firstRun \/ Unused(key),
         Supersedes(key, record, firstRun', fires', reenabled'), OthersKeep(key, firstRun', fires')
  PROVE  JobInv' /\ SourceInv'
<1>. DEFINE w == Put(key, record)
<1>. HIDE DEF w
<1>1. /\ JobCore /\ SourceCore /\ SettledByHolder /\ call' = NoCall
      /\ UNCHANGED <<receipts, holder, settled, ended, retried, doubted, origin, fires>>
      /\ CommitOk(w) \/ CommitInDoubt(w)
  BY Zenon DEF JobInv, SourceInv, history, CommitSource, w
<1>2. w = Put(key, record)
  BY Zenon DEF w
<1>3. JobCore' /\ SourceCore' /\ SettledByHolder'
  BY <1>1, <1>2, SourceCommitKeeps, Zenon
<1>. QED
  BY <1>1, <1>3, Zenon DEF JobInv, SourceInv, JobCallOK, SourceCallOK

(* The next run is the first time after t that the expression matches.     *)
LEMMA NextAfterIsNext ==
  ASSUME JobCore, NEW t, \E n \in CronTimes : n > t
  PROVE  /\ NextAfter(t) \in CronTimes /\ NextAfter(t) > t
         /\ \A m \in CronTimes : m > t => NextAfter(t) <= m
BY Zenon DEF JobCore, RunsHaveNext

LEMMA CreateKeeps ==
  ASSUME JobInv, SourceInv, NEW key \in SourceKeys, NEW record, Create(key, record),
         SourcesToldOK', Supersedes(key, record, firstRun', fires', reenabled'),
         OthersKeep(key, firstRun', fires')
  PROVE  JobInv' /\ SourceInv'
<1>1. /\ call = NoCall /\ Unused(key) /\ CommitSource(Put(key, record), UNCHANGED call)
      /\ UNCHANGED <<history, origin, reenabled, fires>>
  BY Zenon DEF Create
<1>. QED
  BY <1>1, CommitSourceKeeps, Zenon

LEMMA CreateScheduleKeeps ==
  ASSUME JobInv, SourceInv, NEW id \in ScheduleId, NEW spec \in JobSpec,
         NEW mode \in {"Once", "Interval"}, NEW first \in Time,
         CreateSchedule(id, spec, mode, first)
  PROVE  JobInv' /\ SourceInv'
<1>. DEFINE key == <<"schedule", id>>
            record == [job |-> spec, mode |-> mode, next_run_ms |-> first, enabled |-> TRUE]
<1>1. /\ Create(key, record) /\ UNCHANGED firstRun
      /\ Unused(key) /\ UNCHANGED <<origin, reenabled, fires>>
  BY Zenon DEF CreateSchedule, Create
<1>2. SourcesToldOK'
  BY <1>1, Zenon DEF SourceInv, SourceCore, SourcesToldOK
<1>3. record \in ScheduleRecord
  BY Zenon DEF ScheduleRecord
<1>. HIDE DEF record
<1>4. mem[key] = NoRecord
  BY <1>1, Zenon DEF Unused
<1>5. Supersedes(key, record, firstRun', fires', reenabled')
  BY <1>3, <1>4, Zenon DEF Supersedes
<1>6. OthersKeep(key, firstRun', fires')
  BY <1>1, Zenon DEF OthersKeep
<1>7. key \in SourceKeys
  BY SourceKeysOf, Zenon
<1>. QED
  BY <1>1, <1>2, <1>5, <1>6, <1>7, CreateKeeps, SMTT(30)

LEMMA CreateCronKeeps ==
  ASSUME JobInv, SourceInv, NEW id \in CronId, NEW spec \in JobSpec, NEW after \in Time,
         CreateCronSchedule(id, spec, after)
  PROVE  JobInv' /\ SourceInv'
<1>. DEFINE key == <<"cron", id>>
            next == NextAfter(after)
            record == [job |-> spec, next_run_ms |-> next, enabled |-> TRUE]
<1>1. /\ Create(key, record) /\ firstRun' = [firstRun EXCEPT ![id] = next]
      /\ next \in CronTimes /\ UNCHANGED <<origin, reenabled, fires>>
  BY NextAfterIsNext, Zenon DEF JobInv, CreateCronSchedule, Create
<1>. HIDE DEF next
<1>2. next \in Nat
  BY <1>1, TimeIsNat, SourceAssumption, Zenon
<1>3. SourcesToldOK' /\ firstRun'[id] = next
      /\ \A cid \in CronId \ {id} : firstRun'[cid] = firstRun[cid]
  BY <1>1, <1>2, Zenon DEF SourceInv, SourceCore, SourcesToldOK
<1>4. record \in CronRecord /\ record.next_run_ms = next
  BY <1>1, Zenon DEF CronRecord
<1>. HIDE DEF record
<1>5. \A t \in CronTimes : ~(firstRun'[id] <= t /\ t < record.next_run_ms)
  BY <1>2, <1>3, <1>4, TimeIsNat, SourceAssumption, SMTT(30)
<1>6. Supersedes(key, record, firstRun', fires', reenabled')
  BY <1>4, <1>5, Zenon DEF Supersedes
<1>7. OthersKeep(key, firstRun', fires')
  BY <1>1, <1>3, Zenon DEF OthersKeep
<1>8. key \in SourceKeys
  BY SourceKeysOf, Zenon
<1>. QED
  BY <1>1, <1>3, <1>6, <1>7, <1>8, CreateKeeps, Zenon

LEMMA CreateTriggerKeeps ==
  ASSUME JobInv, SourceInv, NEW id \in TriggerId, NEW spec \in JobSpec, NEW at \in Time,
         CreateTrigger(id, spec, at)
  PROVE  JobInv' /\ SourceInv'
<1>. DEFINE key == <<"trigger", id>>
            record == [job |-> spec, available_at_ms |-> at, enabled |-> TRUE, fire_count |-> 0]
<1>1. /\ Create(key, record) /\ UNCHANGED firstRun
      /\ Unused(key) /\ UNCHANGED <<origin, reenabled, fires>>
  BY Zenon DEF CreateTrigger, Create
<1>2. SourcesToldOK'
  BY <1>1, Zenon DEF SourceInv, SourceCore, SourcesToldOK
<1>3. record \in TriggerRecord
  BY Zenon DEF TriggerRecord
<1>. HIDE DEF record
<1>4. ~(fires'[id] > 0)
  <2>1. mem[key] = NoRecord /\ mem \in Maps
    BY <1>1, Zenon DEF Unused, Maps
  <2>2. FiresFit(mem, fires)
    BY <2>1, Zenon DEF SourceInv, SourceCore, MapSourced
  <2>. QED
    BY <1>1, <2>1, <2>2, Zenon DEF FiresFit
<1>5. Supersedes(key, record, firstRun', fires', reenabled')
  BY <1>3, <1>4, Zenon DEF Supersedes
<1>6. OthersKeep(key, firstRun', fires')
  BY <1>1, Zenon DEF OthersKeep
<1>7. key \in SourceKeys
  BY SourceKeysOf, Zenon
<1>. QED
  BY <1>1, <1>2, <1>5, <1>6, <1>7, CreateKeeps, SMTT(30)

LEMMA SetEnabledKeeps ==
  ASSUME JobInv, SourceInv, NEW key \in SourceKeys, NEW enabled \in BOOLEAN, SetEnabled(key, enabled)
  PROVE  JobInv' /\ SourceInv'
<1>. DEFINE record == [mem[key] EXCEPT !.enabled = enabled]
<1>1. /\ call = NoCall /\ mem[key] # NoRecord /\ CommitSource(Put(key, record), UNCHANGED call)
      /\ reenabled' = IF enabled THEN reenabled \cup {key} ELSE reenabled
      /\ UNCHANGED <<history, origin, firstRun, fires>>
  BY Zenon DEF SetEnabled
<1>2. MapSourced(mem, origin, firstRun, fires, doubted, reenabled)
  BY Zenon DEF SourceInv, SourceCore, Maps
<1>3. SourcesToldOK' /\ reenabled \subseteq reenabled'
  BY <1>1, Zenon DEF SourceInv, SourceCore, SourcesToldOK
<1>4. Supersedes(key, record, firstRun', fires', reenabled')
  <2>1. ASSUME NEW sid \in ScheduleId, key = <<"schedule", sid>>
        PROVE  Supersedes(key, record, firstRun', fires', reenabled')
    <3>1. mem[key] \in ScheduleRecord
      BY <1>1, <1>2, <2>1, Zenon DEF MapSourced, SourcesFit
    <3>2. /\ record \in ScheduleRecord /\ record.enabled = enabled
          /\ record.next_run_ms = mem[key].next_run_ms /\ mem[key].next_run_ms \in Nat
      BY <3>1, TimeIsNat, Zenon DEF ScheduleRecord
    <3>3. enabled => key \in reenabled'
      BY <1>1, Zenon
    <3>4. key[1] = "schedule"
      BY <2>1, Zenon
    <3>. HIDE DEF record
    <3>. QED
      BY <3>2, <3>3, <3>4 DEF Supersedes
  <2>2. ASSUME NEW cid \in CronId, key = <<"cron", cid>>
        PROVE  Supersedes(key, record, firstRun', fires', reenabled')
    <3>1. mem[key] \in CronRecord
      BY <1>1, <1>2, <2>2, Zenon DEF MapSourced, SourcesFit
    <3>2. /\ record \in CronRecord /\ record.next_run_ms = mem[key].next_run_ms
      BY <3>1, Zenon DEF CronRecord
    <3>3. key[1] = "cron" /\ key[2] = cid
      BY <2>2, Zenon
    <3>. HIDE DEF record
    <3>4. \A t \in CronTimes : firstRun[cid] <= t /\ t < record.next_run_ms =>
            \E x \in JobId : mem[JobKey(x)] # NoRecord /\ origin[x] = <<key, t>>
      BY <1>1, <1>2, <2>2, <3>2, Zenon DEF MapSourced, RunsFit
    <3>. QED
      BY <1>1, <3>2, <3>3, <3>4, Zenon DEF Supersedes
  <2>3. ASSUME NEW tid \in TriggerId, key = <<"trigger", tid>>
        PROVE  Supersedes(key, record, firstRun', fires', reenabled')
    <3>1. mem[key] \in TriggerRecord
      BY <1>1, <1>2, <2>3, Zenon DEF MapSourced, SourcesFit
    <3>2. /\ record \in TriggerRecord /\ record.fire_count = mem[key].fire_count
      BY <3>1, Zenon DEF TriggerRecord
    <3>3. key[1] = "trigger" /\ key[2] = tid
      BY <2>3, Zenon
    <3>. HIDE DEF record
    <3>4. fires[tid] > 0 => fires[tid] <= record.fire_count
      BY <1>2, <2>3, <3>2, Zenon DEF MapSourced, FiresFit
    <3>. QED
      BY <1>1, <3>2, <3>3, <3>4, Zenon DEF Supersedes
  <2>. QED
    BY <2>1, <2>2, <2>3, SMTT(30) DEF SourceKeys
<1>5. OthersKeep(key, firstRun', fires')
  BY <1>1, Zenon DEF OthersKeep
<1>. HIDE DEF record
<1>. QED
  BY <1>1, <1>3, <1>4, <1>5, CommitSourceKeeps, Zenon

LEMMA CronAdvanceKeeps ==
  ASSUME JobInv, SourceInv, call # NoCall, call.op = "cron_advance", CronAdvanceStep
  PROVE  JobInv' /\ SourceInv'
<1>0. PICK cid : cid = call.cid
  BY Zenon
<1>. DEFINE key == <<"cron", cid>>
            at == mem[key].next_run_ms
            record == CronAdvanced(mem[key])
            w == Put(key, record)
<1>1. /\ JobCore /\ SourceCore /\ SettledByHolder /\ call \in AdvanceCall
      /\ \A c \in call.ids \cup {cid} : mem[<<"cron", c>>] # NoRecord
      /\ \E id \in JobId : mem[JobKey(id)] # NoRecord /\ origin[id] = <<key, at>>
  BY <1>0, Zenon DEF JobInv, SourceInv, SourceCallOK
<1>2. /\ \E t \in CronTimes : t > at
      /\ (CommitOk(w) /\ Fired(cid)) \/ (CommitInDoubt(w) /\ call' = NoCall)
      /\ UNCHANGED <<receipts, holder, settled, ended, retried, doubted>>
      /\ UNCHANGED <<origin, firstRun, reenabled, fires>>
  BY <1>0, Zenon DEF CronAdvanceStep, CommitSource, history, sourceHistory
<1>3. /\ cid \in CronId /\ call.ids \subseteq CronId /\ call.left \in Nat \ {0} /\ call.now \in Time
      /\ key \in SourceKeys
  BY <1>0, <1>1, SourceKeysOf, Zenon DEF AdvanceCall
<1>4. MapSourced(mem, origin, firstRun, fires, doubted, reenabled)
  BY <1>1, Zenon DEF SourceCore, Maps
<1>5. mem[key] \in CronRecord
  BY <1>1, <1>3, <1>4, Zenon DEF MapSourced, SourcesFit
<1>6. at \in CronTimes /\ at \in Nat
  BY <1>5, TimeIsNat, SourceAssumption, Zenon DEF CronRecord
<1>7. /\ NextAfter(at) \in CronTimes /\ NextAfter(at) \in Nat
      /\ \A m \in CronTimes : m > at => NextAfter(at) <= m
  BY <1>1, <1>2, NextAfterIsNext, TimeIsNat, SourceAssumption, Zenon
<1>8. record \in CronRecord /\ record.next_run_ms = NextAfter(at)
  BY <1>5, <1>7, Zenon DEF CronAdvanced, CronRecord
<1>. HIDE DEF record
<1>9. ASSUME NEW t \in CronTimes, firstRun[cid] <= t, t < record.next_run_ms
      PROVE  \E x \in JobId : mem[JobKey(x)] # NoRecord /\ origin[x] = <<key, t>>
  <2>1. t \in Nat
    BY TimeIsNat, SourceAssumption, Zenon
  <2>2. t < at \/ t = at
    <3>. HIDE DEF at
    <3>. QED
      BY <1>6, <1>7, <1>8, <1>9, <2>1, SMTT(30)
  <2>3. CASE t < at
    BY <1>1, <1>3, <1>4, <1>9, <2>3, Zenon DEF MapSourced, RunsFit
  <2>4. CASE t = at
    BY <1>1, <2>4, Zenon
  <2>. QED
    BY <2>2, <2>3, <2>4, Zenon
<1>10. Supersedes(key, record, firstRun', fires', reenabled')
  BY <1>2, <1>8, <1>9, Zenon DEF Supersedes
<1>11. OthersKeep(key, firstRun', fires')
  BY <1>2, Zenon DEF OthersKeep
<1>12. SourcesToldOK'
  BY <1>1, <1>2, Zenon DEF SourceCore, SourcesToldOK
<1>13. w = Put(key, record)
  BY Zenon
<1>. HIDE DEF w
<1>14. JobCore' /\ SourceCore' /\ SettledByHolder'
  BY <1>1, <1>2, <1>3, <1>10, <1>11, <1>12, <1>13, SourceCommitKeeps, SMTT(30)
<1>15. JobCallOK' /\ SourceCallOK'
  <2>1. CASE call' = NoCall
    BY <2>1, Zenon DEF JobCallOK, SourceCallOK
  <2>2. CASE CommitOk(w) /\ Fired(cid) /\ call' # NoCall
    <3>1. /\ call' = [op |-> "cron", ids |-> call.ids \ {cid}, left |-> call.left - 1,
                      now |-> call.now]
          /\ call.left # 1
      BY <2>2, Zenon DEF Fired
    <3>2. call' \in CronCall /\ call'.op = "cron" /\ call'.ids = call.ids \ {cid}
      BY <1>3, <3>1 DEF CronCall
    <3>3. mem' = Written(mem, w)
      BY <2>2, MapsAfterOk, Zenon
    <3>4. \A k \in SourceKeys \ {key} : mem'[k] = mem[k]
      BY <1>1, <1>3, <1>13, <3>3, SourceWritten, SMTT(30)
    <3>5. \A c \in call'.ids : mem'[<<"cron", c>>] # NoRecord
      BY <1>1, <1>3, <3>2, <3>4, SourceKeysOf, Zenon
    <3>. QED
      BY <3>2, <3>5, Zenon DEF JobCallOK, SourceCallOK
  <2>. QED
    BY <1>2, <2>1, <2>2, Zenon
<1>. QED
  BY <1>14, <1>15, Zenon DEF JobInv, SourceInv

-----------------------------------------------------------------------------
(* Sources: a trigger fires.                                               *)

LEMMA CountedTrigger ==
  ASSUME SourceCore, NEW tid \in TriggerId, mem[<<"trigger", tid>>] # NoRecord,
         fires' = fires \/ fires' = [fires EXCEPT ![tid] = @ + 1]
  PROVE  LET counted == Counted(mem[<<"trigger", tid>>])
         IN  /\ mem[<<"trigger", tid>>] \in TriggerRecord
             /\ counted \in TriggerRecord /\ fires' \in [TriggerId -> Nat]
             /\ fires'[tid] <= counted.fire_count
             /\ \A x \in TriggerId \ {tid} : fires'[x] = fires[x]
<1>. DEFINE key == <<"trigger", tid>>
            counted == Counted(mem[key])
            n == mem[key].fire_count
<1>1. SourcesFit(mem) /\ FiresFit(mem, fires) /\ fires \in [TriggerId -> Nat]
  BY Zenon DEF SourceCore, MapSourced, Maps, SourcesToldOK
<1>2. mem[key] \in TriggerRecord
  BY <1>1, Zenon DEF SourcesFit
<1>3. n \in Nat
  BY <1>2, Zenon DEF TriggerRecord
<1>4. counted \in TriggerRecord /\ counted.fire_count = n + 1
  BY <1>2, <1>3 DEF Counted, TriggerRecord
<1>5. fires[tid] \in Nat /\ (fires[tid] > 0 => fires[tid] <= n)
  BY <1>1, Zenon DEF FiresFit
<1>. HIDE DEF n, counted
<1>6. /\ fires' \in [TriggerId -> Nat] /\ \A x \in TriggerId \ {tid} : fires'[x] = fires[x]
      /\ fires'[tid] = fires[tid] \/ fires'[tid] = fires[tid] + 1
  BY <1>1
<1>7. fires'[tid] <= n + 1
  BY <1>3, <1>5, <1>6, SMTT(30)
<1>. QED
  BY <1>2, <1>4, <1>6, <1>7, Zenon DEF counted

(* The maps that a fire writes, when it creates a job.                     *)
LEMMA FireMap ==
  ASSUME JobCore, SourceCore, NEW id \in JobId, Unused(JobKey(id)), NEW tid \in TriggerId,
         NEW record \in TriggerRecord, NEW job \in JobRecord, NEW w,
         job.spec.idempotency_key \notin CronId \X Time,
         Writes(w, id, job, <<"Submitted">>),
         DOMAIN w = {<<"trigger", tid>>, JobKey(id), HistoryKey(id)}, w[<<"trigger", tid>>] = record,
         fires'[tid] <= record.fire_count, \A x \in TriggerId \ {tid} : fires'[x] = fires[x],
         origin' = origin, doubted \subseteq doubted', NEW m \in {mem, Newest}
  PROVE  MapSourced(Written(m, w), origin', firstRun, fires', doubted', reenabled)
<1>. DEFINE key == <<"trigger", tid>>
            n == Written(m, w)
<1>1. /\ \A sid \in ScheduleId : <<"schedule", sid>> \notin DOMAIN w
      /\ \A cid \in CronId : <<"cron", cid>> \notin DOMAIN w
      /\ \A x \in TriggerId \ {tid} : <<"trigger", x>> \notin DOMAIN w
  BY Zenon DEF JobKey, HistoryKey
<1>2. RunsFit(n, origin', firstRun) /\ KeysFit(n, origin')
  BY <1>1, NewJobMap, Zenon
<1>3. Passed(n, origin', doubted', reenabled)
  BY <1>1, NewJobPassed, Zenon
<1>4. m \in Maps /\ \A k \in SourceKeys \ DOMAIN w : n[k] = m[k]
  BY NewJobWritten
<1>5. n[key] = record
  BY KeysAreKeys, Zenon DEF Written
<1>. HIDE DEF n
<1>6. SourcesFit(m) /\ FiresFit(m, fires)
  BY <1>4, Zenon DEF SourceCore, MapSourced
<1>7. /\ \A sid \in ScheduleId : n[<<"schedule", sid>>] = m[<<"schedule", sid>>]
      /\ \A cid \in CronId : n[<<"cron", cid>>] = m[<<"cron", cid>>]
      /\ \A x \in TriggerId \ {tid} : n[<<"trigger", x>>] = m[<<"trigger", x>>]
  BY <1>1, <1>4, SourceKeysOf, Zenon
<1>8. SourcesFit(n)
  BY <1>5, <1>6, <1>7, Zenon DEF SourcesFit
<1>9. FiresFit(n, fires')
  BY <1>5, <1>6, <1>7, AbsenceAssumption, Zenon DEF FiresFit
<1>. QED
  BY <1>2, <1>3, <1>8, <1>9, Zenon DEF MapSourced, n

LEMMA FireTriggerKeeps ==
  ASSUME JobInv, SourceInv, NEW tid \in TriggerId, FireTrigger(tid)
  PROVE  JobInv' /\ SourceInv'
<1>. DEFINE key == <<"trigger", tid>>
            record == Counted(mem[key])
            spec == mem[key].job
            at == mem[key].available_at_ms
            job == BuildJob(spec, at)
            found == FindActiveJobByIdempotency(spec.idempotency_key)
            none == spec.idempotency_key = NoKey \/ found = {}
            returned == fires' = [fires EXCEPT ![tid] = @ + 1]
            counter == Put(key, record)
<1>0. JobCore /\ SourceCore /\ SettledByHolder /\ key \in SourceKeys
  BY SourceKeysOf, Zenon DEF JobInv, SourceInv
<1>1. /\ call = NoCall /\ mem[key] # NoRecord /\ UNCHANGED <<origin, firstRun, reenabled>>
      /\ \/ /\ (CommitOk(counter) /\ returned) \/ (CommitInDoubt(counter) /\ UNCHANGED fires)
            /\ UNCHANGED <<call, history>>
         \/ /\ none
            /\ \E id \in JobId :
                 /\ Unused(JobKey(id))
                 /\ Commit(id, Both(counter, PersistJobWithHistory(id, job, "Submitted")),
                           Quiet /\ UNCHANGED call)
                 /\ IF id \in doubted' THEN UNCHANGED fires ELSE returned
            /\ UNCHANGED retried
  BY Zenon DEF FireTrigger, JobKey
<1>2. fires' = fires \/ returned
  BY <1>1, Zenon
<1>3. /\ mem[key] \in TriggerRecord
      /\ record \in TriggerRecord /\ fires' \in [TriggerId -> Nat]
      /\ fires'[tid] <= record.fire_count
      /\ \A x \in TriggerId \ {tid} : fires'[x] = fires[x]
  BY <1>0, <1>1, <1>2, CountedTrigger, Zenon
<1>4. spec \in JobSpec /\ at \in Time
  BY <1>3, Zenon DEF TriggerRecord
<1>5. SourcesToldOK'
  BY <1>0, <1>1, <1>3, Zenon DEF SourceCore, SourcesToldOK
<1>. HIDE DEF record, spec, at, found
<1>6. CASE /\ (CommitOk(counter) /\ returned) \/ (CommitInDoubt(counter) /\ UNCHANGED fires)
           /\ UNCHANGED <<call, history>>
  <2>1. Supersedes(key, record, firstRun', fires', reenabled')
    BY <1>3, Zenon DEF Supersedes
  <2>2. OthersKeep(key, firstRun', fires')
    BY <1>1, <1>3, Zenon DEF OthersKeep
  <2>3. /\ UNCHANGED <<receipts, holder, settled, ended, retried, doubted>> /\ call' = NoCall
        /\ CommitOk(counter) \/ (CommitInDoubt(counter) /\ fires' = fires)
    BY <1>1, <1>6, Zenon DEF history
  <2>4. JobCore' /\ SourceCore' /\ SettledByHolder'
    BY <1>0, <1>1, <1>5, <2>1, <2>2, <2>3, SourceCommitKeeps, SMTT(30)
  <2>. QED
    BY <2>3, <2>4, Zenon DEF JobInv, SourceInv, JobCallOK, SourceCallOK
<1>7. ASSUME none, NEW id \in JobId, Unused(JobKey(id)), UNCHANGED retried,
             Commit(id, Both(counter, PersistJobWithHistory(id, job, "Submitted")),
                    Quiet /\ UNCHANGED call),
             IF id \in doubted' THEN UNCHANGED fires ELSE returned
      PROVE  JobInv' /\ SourceInv'
  <2>. DEFINE w == Both(counter, PersistJobWithHistory(id, job, "Submitted"))
  <2>1. /\ UNCHANGED <<receipts, holder, settled, ended, retried>> /\ call' = NoCall
        /\ \/ CommitOk(w) /\ doubted' = doubted
           \/ CommitInDoubt(w) /\ doubted' = doubted \cup {id} /\ fires' = fires
    BY <1>1, <1>7, Zenon DEF Commit, Quiet
  <2>2. spec \in StoredSpec /\ spec.idempotency_key \notin CronId \X Time
    BY <1>4, GivenSpec, Zenon
  <2>3. job \in JobRecord /\ job.spec = spec
    BY <1>4, <2>2, BuiltJob, Zenon
  <2>. HIDE DEF w, job, counter
  <2>4. w = Both(Put(key, record), PersistJobWithHistory(id, job, "Submitted"))
    BY Zenon DEF w, counter
  <2>5. w[key] = record
    BY <2>4, Zenon DEF Both, Put
  <2>6. Writes(w, id, job, <<"Submitted">>)
    BY <1>0, <1>7, <2>4, NewWritesWith, Zenon
  <2>7. DOMAIN w = {key, JobKey(id), HistoryKey(id)}
    BY <1>0, <1>7, <2>4, NewWritesWith, Zenon
  <2>8. JobCore'
    <3>1. Persisted(id, w)
      BY <2>1, Zenon DEF Persisted
    <3>. QED
      BY <1>0, <1>4, <1>7, <2>1, <2>2, <2>6, <3>1, CreateFits, Zenon DEF job
  <2>9. \A m \in {mem, Newest} :
          MapSourced(Written(m, w), origin', firstRun, fires', doubted', reenabled)
    <3>1. job.spec.idempotency_key \notin CronId \X Time
      BY <2>2, <2>3, Zenon
    <3>2. doubted \subseteq doubted'
      BY <2>1, Zenon
    <3>. QED
      BY <1>0, <1>1, <1>3, <1>7, <2>3, <2>5, <2>6, <2>7, <3>1, <3>2, FireMap, Zenon
  <2>10. /\ \A n \in Maps' : MapSourced(n, origin', firstRun', fires', doubted', reenabled')
         /\ \/ /\ doubted' = doubted /\ mem'[JobKey(id)] = job
               /\ \A x \in JobId \ {id} : mem'[JobKey(x)] = mem[JobKey(x)]
            \/ /\ doubted' = doubted \cup {id}
               /\ \A x \in JobId : mem'[JobKey(x)] = mem[JobKey(x)]
    BY <1>0, <1>1, <1>7, <2>1, <2>3, <2>6, <2>9, CreationMaps, Zenon
  <2>11. Sourced' /\ OneJobPerRun' /\ OneActivePerKey'
    <3>1. \/ Active(job) => FindActiveJobByIdempotency(job.spec.idempotency_key) = {}
          \/ job.spec.idempotency_key = NoKey
      BY <1>7, <2>3, Zenon DEF found
    <3>. QED
      BY <1>0, <1>1, <1>7, <2>3, <2>10, <3>1, CreationKeepsJobs, Zenon
  <2>12. SettledByHolder'
    BY <1>0, <2>1, Zenon DEF SettledByHolder
  <2>. QED
    BY <1>5, <2>1, <2>8, <2>10, <2>11, <2>12, SMTT(30)
       DEF JobInv, SourceInv, SourceCore, JobCallOK, SourceCallOK
<1>. QED
  BY <1>1, <1>6, <1>7, Zenon

-----------------------------------------------------------------------------
(* Every step keeps the invariant.                                         *)

LEMMA WorkCalls ==
  ASSUME JobInv, WorkSteps(Time) \/ CallSteps
  PROVE  call' = NoCall \/ call'.op \in {"claim", "release"}
<1>1. CASE WorkSteps(Time)
  <2>1. CASE \E worker \in Worker, now \in Time, lease \in Time, handlers \in SUBSET Handler :
               ClaimJob(worker, now, lease, handlers)
    BY <2>1 DEF ClaimJob
  <2>2. CASE \E now \in Time : ReleaseExpiredJobs(now)
    BY <2>2 DEF ReleaseExpiredJobs
  <2>3. \A r, job, kind, over : Settle(r, job, kind, over) => call' = NoCall
    BY Zenon DEF Settle, Commit
  <2>4. CASE \E r \in receipts : CompleteJob(r)
    BY <2>3, <2>4, Zenon DEF CompleteJob
  <2>5. ASSUME NEW r \in receipts, NEW t \in Time, HeartbeatJob(r, t) \/ FailJob(r, t) \/ ReleaseJob(r, t)
        PROVE  call' = NoCall
    <3>1. CASE HeartbeatJob(r, t)
      BY <3>1, Zenon DEF HeartbeatJob, Commit
    <3>2. CASE FailJob(r, t)
      BY <2>3, <3>2, Zenon DEF FailJob
    <3>3. CASE ReleaseJob(r, t)
      BY <2>3, <3>3, Zenon DEF ReleaseJob
    <3>. QED
      BY <2>5, <3>1, <3>2, <3>3, Zenon
  <2>6. CASE \E id \in JobId, now \in Time : RetryJob(id, now)
    BY <2>6, Zenon DEF RetryJob, Commit
  <2>7. CASE \E id \in JobId : CancelJob(id)
    BY <2>7, Zenon DEF CancelJob, Commit
  <2>. QED
    BY <1>1, <2>1, <2>2, <2>4, <2>5, <2>6, <2>7, SMTT(30) DEF WorkSteps
<1>2. CASE CallSteps
  <2>1. \A rest : call \in ClaimCall \cup ReleaseCall =>
          [call EXCEPT !.ids = rest].op = call.op
    BY Zenon DEF ClaimCall, ReleaseCall
  <2>2. CASE call # NoCall /\ call.op = "claim" /\ (ExpireStep \/ ClaimStep)
    <3>1. call \in ClaimCall
      BY <2>2, Zenon DEF JobInv, JobCallOK
    <3>2. CASE ClaimStep
      BY <3>2, Zenon DEF ClaimStep, Commit
    <3>3. CASE ExpireStep
      BY <2>1, <2>2, <3>1, <3>3, Zenon DEF ExpireStep, Commit
    <3>. QED
      BY <2>2, <3>2, <3>3, Zenon
  <2>3. CASE call # NoCall /\ call.op = "release" /\ ReleaseStep
    <3>1. call \in ReleaseCall
      BY <2>3, Zenon DEF JobInv, JobCallOK
    <3>. QED
      BY <2>1, <2>3, <3>1, Zenon DEF ReleaseStep, Commit
  <2>. QED
    BY <1>2, <2>2, <2>3, Zenon DEF CallSteps, CallFails
<1>. QED
  BY <1>1, <1>2, Zenon

LEMMA TickCallKeeps ==
  ASSUME JobInv, SourceInv, NEW now \in Time, NEW limit \in 1 .. 2,
         TickSchedules(now, limit) \/ TickCronSchedules(now, limit)
  PROVE  JobInv' /\ SourceInv'
<1>1. /\ limit \in Nat \ {0} /\ UNCHANGED <<mem, medium, history, sourceHistory>>
      /\ \/ call' = [op |-> "tick", ids |-> DueSources("schedule", ScheduleId, now),
                     left |-> limit, now |-> now]
         \/ call' = [op |-> "cron", ids |-> DueSources("cron", CronId, now),
                     left |-> limit, now |-> now]
  BY DEF TickSchedules, TickCronSchedules, Tick
<1>2. JobCore' /\ SettledByHolder' /\ SourceCore'
  BY <1>1, SameRecords, RewriteKeepsSources, Zenon DEF JobInv, SourceInv
<1>3. CASE call' = [op |-> "tick", ids |-> DueSources("schedule", ScheduleId, now),
                    left |-> limit, now |-> now]
  <2>1. call' \in TickCall /\ call'.op = "tick" /\ call'.now = now
        /\ call'.ids = DueSources("schedule", ScheduleId, now)
    BY <1>1, <1>3, Zenon DEF TickCall, DueSources
  <2>2. \A sid \in call'.ids : /\ mem'[<<"schedule", sid>>] # NoRecord
                               /\ mem'[<<"schedule", sid>>].enabled
                               /\ mem'[<<"schedule", sid>>].next_run_ms <= call'.now
    BY <1>1, <2>1, Zenon DEF DueSources
  <2>. QED
    BY <1>2, <2>1, <2>2, Zenon DEF JobInv, SourceInv, JobCallOK, SourceCallOK
<1>4. CASE call' = [op |-> "cron", ids |-> DueSources("cron", CronId, now),
                    left |-> limit, now |-> now]
  <2>1. call' \in CronCall /\ call'.op = "cron"
        /\ call'.ids = DueSources("cron", CronId, now)
    BY <1>1, <1>4, Zenon DEF CronCall, DueSources
  <2>2. \A cid \in call'.ids : mem'[<<"cron", cid>>] # NoRecord
    BY <1>1, <2>1, Zenon DEF DueSources
  <2>. QED
    BY <1>2, <2>1, <2>2, Zenon DEF JobInv, SourceInv, JobCallOK, SourceCallOK
<1>. QED
  BY <1>1, <1>3, <1>4, Zenon

-----------------------------------------------------------------------------
(* What the operators compute, by induction.                               *)

(* The least of the later times exists.                                    *)
LEMMA RunsDoHaveNext == RunsHaveNext
<1>. SUFFICES ASSUME NEW t, \E n \in CronTimes : n > t
              PROVE  /\ NextAfter(t) \in CronTimes /\ NextAfter(t) > t
                     /\ \A m \in CronTimes : m > t => NextAfter(t) <= m
  BY Zenon DEF RunsHaveNext
<1>. DEFINE S == {n \in CronTimes : n > t}
            R == OpToRel(<, Nat)
<1>1. S \subseteq Nat /\ S # {}
  BY SourceAssumption, TimeIsNat, Zenon
<1>2. IsWellFoundedOn(R, Nat)
  BY NatLessThanWellFounded, Zenon
<1>3. \A x, y \in Nat : x < y => <<x, y>> \in R
  BY Zenon DEF OpToRel
<1>. HIDE DEF R, S
<1>4. PICK n \in S : \A y \in S : ~(<<y, n>> \in R)
  BY <1>1, <1>2, WFMin, Zenon
<1>5. ASSUME NEW y \in S PROVE n <= y
  <2>1. n \in Nat /\ y \in Nat
    BY <1>1, Zenon
  <2>2. ~(y < n)
    BY <1>3, <1>4, <2>1, Zenon
  <2>. QED
    BY <2>1, <2>2, SMTT(30)
<1>6. n \in CronTimes /\ n > t /\ \A m \in CronTimes : m > t => n <= m
  BY <1>5, Zenon DEF S
<1>. QED
  BY <1>6, Zenon DEF NextAfter

LEMMA OneMoreClaim ==
  ASSUME NEW entries \in Seq(Kind), NEW kind \in Kind
  PROVE  /\ Claims(entries) \in Nat
         /\ Claims(Append(entries, kind)) = Claims(entries) + (IF kind = "Claimed" THEN 1 ELSE 0)
<1>. DEFINE more == Append(entries, kind)
            n == Len(entries)
            old == {i \in DOMAIN entries : entries[i] = "Claimed"}
            new == {i \in DOMAIN more : more[i] = "Claimed"}
<1>1. /\ n \in Nat /\ DOMAIN entries = 1 .. n /\ DOMAIN more = 1 .. n + 1
      /\ \A i \in 1 .. n : more[i] = entries[i]
      /\ more[n + 1] = kind
  OBVIOUS
<1>2. Claims(entries) = Cardinality(old) /\ Claims(Append(entries, kind)) = Cardinality(new)
  BY Zenon DEF Claims
<1>. HIDE DEF more, n
<1>3. old \subseteq 1 .. n /\ n + 1 \notin old
  BY <1>1
<1>4. IsFiniteSet(1 .. n)
  BY <1>1, FS_Interval, SMTT(30)
<1>5. kind = "Claimed" => new = old \cup {n + 1}
  BY <1>1
<1>6. kind # "Claimed" => new = old
  BY <1>1
<1>. HIDE DEF old, new
<1>7. IsFiniteSet(old)
  BY <1>3, <1>4, FS_Subset, Zenon
<1>8. Cardinality(old) \in Nat /\ Cardinality(old \cup {n + 1}) = Cardinality(old) + 1
  BY <1>3, <1>7, FS_CardinalityType, FS_AddElement, Zenon
<1>9. CASE kind = "Claimed"
  BY <1>2, <1>5, <1>8, <1>9, Zenon
<1>10. CASE kind # "Claimed"
  <2>1. Cardinality(old) = Cardinality(old) + 0
    BY <1>8
  <2>. QED
    BY <1>2, <1>6, <1>8, <1>10, <2>1, Zenon
<1>. QED
  BY <1>9, <1>10, Zenon

LEMMA ClaimsDoCount == ClaimsAreCounted
<1>1. DOMAIN << >> = {}
  OBVIOUS
<1>2. {i \in DOMAIN << >> : << >>[i] = "Claimed"} = {}
  BY <1>1, Zenon
<1>3. Claims(<< >>) = 0
  BY <1>2, FS_EmptySet, SMTT(30) DEF Claims
<1>. QED
  BY <1>3, OneMoreClaim, Zenon DEF ClaimsAreCounted

-----------------------------------------------------------------------------
(* The invariant.                                                          *)

LEMMA InitIsInv ==
  ASSUME InitSources
  PROVE  JobInv /\ SourceInv
<1>1. /\ mem = [k \in RecordKey |-> NoRecord] /\ medium = <<mem>> /\ call = NoCall
      /\ receipts = {} /\ holder = [id \in JobId |-> NoWorker] /\ settled = {} /\ ended = {}
      /\ retried = {} /\ doubted = {} /\ origin = [id \in JobId |-> NoOrigin]
      /\ firstRun = [id \in CronId |-> 0] /\ reenabled = {} /\ fires = [id \in TriggerId |-> 0]
  BY Zenon DEF InitSources, Init, InitRecords
<1>2. MediumOK /\ Maps = {mem} /\ Newest = mem
  <2>1. <<mem>> \in Seq({mem}) /\ Len(<<mem>>) = 1 /\ <<mem>>[1] = mem /\ DOMAIN <<mem>> = 1 .. 1
    OBVIOUS
  <2>2. {<<mem>>[i] : i \in DOMAIN <<mem>>} = {mem}
    BY <2>1
  <2>. QED
    BY <1>1, <2>1, <2>2, SMTT(30) DEF MediumOK, Maps, Newest
<1>3. /\ \A x \in JobId : mem[JobKey(x)] = NoRecord /\ mem[HistoryKey(x)] = NoRecord
      /\ \A sid \in ScheduleId : mem[<<"schedule", sid>>] = NoRecord
      /\ \A cid \in CronId : mem[<<"cron", cid>>] = NoRecord
      /\ \A tid \in TriggerId : mem[<<"trigger", tid>>] = NoRecord
  BY <1>1, KeysAreKeys, Zenon
<1>4. JobCore
  BY <1>1, <1>2, <1>3, RunsDoHaveNext, ClaimsDoCount, Zenon
     DEF JobCore, ToldOK, MapFits, Undoubted
<1>5. Present = {}
  BY <1>3, Zenon DEF Present, Job, JobKey
<1>6. SourcesToldOK /\ fires \in [TriggerId -> {0}]
  BY <1>1, Zenon DEF SourcesToldOK, Origin
<1>7. MapSourced(mem, origin, firstRun, fires, doubted, reenabled)
  <2>1. SourcesFit(mem) /\ FiresFit(mem, fires)
    BY <1>3, <1>6, SMTT(30) DEF SourcesFit, FiresFit
  <2>2. RunsFit(mem, origin, firstRun) /\ KeysFit(mem, origin)
    BY <1>3, Zenon DEF RunsFit, KeysFit
  <2>3. Passed(mem, origin, doubted, reenabled)
    BY <1>3, Zenon DEF Passed
  <2>. QED
    BY <2>1, <2>2, <2>3, Zenon DEF MapSourced
<1>8. Sourced /\ OneJobPerRun /\ OneActivePerKey
  BY <1>1, <1>5, Zenon DEF Sourced, OneJobPerRun, OneActivePerKey
<1>9. SettledByHolder /\ JobCallOK /\ SourceCallOK
  BY <1>1, Zenon DEF SettledByHolder, JobCallOK, SourceCallOK
<1>. QED
  BY <1>2, <1>4, <1>6, <1>7, <1>8, <1>9, SMTT(30) DEF JobInv, SourceInv, SourceCore

LEMMA StepKeepsInv ==
  ASSUME JobInv, SourceInv, [NextSources]_allVars
  PROVE  JobInv' /\ SourceInv'
<1>1. CASE Next /\ UNCHANGED sourceHistory
  <2>1. CASE SubmitSteps(JobSpec, Time)
    BY <1>1, <2>1, SubmitKeeps, Zenon DEF SubmitSteps
  <2>2. CASE WorkSteps(Time) \/ CallSteps
    <3>1. JobInv' /\ Rewritten
      BY <2>2, WorkKeeps, Zenon
    <3>2. SourceCore'
      BY <1>1, <3>1, RewriteKeepsSources, Zenon DEF SourceInv
    <3>3. call' = NoCall \/ call'.op \in {"claim", "release"}
      BY <2>2, WorkCalls, Zenon
    <3>4. SourceCallOK'
      BY <3>3, Zenon DEF SourceCallOK
    <3>. QED
      BY <3>1, <3>2, <3>4, Zenon DEF SourceInv
  <2>3. CASE StoreSteps
    <3>1. JobInv' /\ Maps' \subseteq Maps /\ call' = NoCall /\ UNCHANGED <<retried, doubted>>
      BY <2>3, RecoveryKeeps, Zenon
    <3>2. SourceCore'
      BY <1>1, <3>1, RecoveryKeepsSources, Zenon DEF JobInv, SourceInv, sourceHistory
    <3>. QED
      BY <3>1, <3>2, Zenon DEF SourceInv, SourceCallOK
  <2>. QED
    BY <1>1, <2>1, <2>2, <2>3, Zenon DEF Next
<1>2. CASE CreateSteps(JobSpec)
  BY <1>2, CreateScheduleKeeps, CreateCronKeeps, CreateTriggerKeeps, Zenon DEF CreateSteps
<1>3. CASE FireSteps
  <2>1. CASE SourceSteps
    BY <2>1, TickKeeps, CronSubmitKeeps, CronAdvanceKeeps, Zenon DEF SourceSteps
  <2>. QED
    BY <1>3, <2>1, SetEnabledKeeps, TickCallKeeps, FireTriggerKeeps, Zenon DEF FireSteps
<1>4. CASE UNCHANGED allVars
  <2>1. UNCHANGED <<mem, medium, history, sourceHistory, call>>
    BY <1>4, Zenon DEF allVars, vars
  <2>2. JobCore' /\ SettledByHolder' /\ SourceCore'
    BY <2>1, SameRecords, RewriteKeepsSources, Zenon DEF JobInv, SourceInv
  <2>3. JobCallOK' /\ SourceCallOK'
    BY <2>1, Zenon DEF JobInv, SourceInv, JobCallOK, SourceCallOK, sourceHistory
  <2>. QED
    BY <2>2, <2>3, Zenon DEF JobInv, SourceInv
<1>. QED
  BY <1>1, <1>2, <1>3, <1>4, Zenon DEF NextSources

LEMMA InvHolds == SpecSources => [](JobInv /\ SourceInv)
<1>1. InitSources => JobInv /\ SourceInv
  BY InitIsInv, Zenon
<1>2. (JobInv /\ SourceInv) /\ [NextSources]_allVars => (JobInv /\ SourceInv)'
  BY StepKeepsInv, Zenon
<1>. QED
  BY <1>1, <1>2, PTL DEF SpecSources

LEMMA RecordsAreOK ==
  ASSUME JobCore, NEW m \in Maps
  PROVE  RecordsOK(m)
<1>. SUFFICES ASSUME NEW id \in JobId, m[JobKey(id)] # NoRecord
              PROVE  /\ StoredJob(m[JobKey(id)])
                     /\ \A i \in DOMAIN m[HistoryKey(id)] : m[HistoryKey(id)][i] \in Kind
                     /\ Len(m[HistoryKey(id)]) \in 1 .. MaxHistory + 1
  BY AbsentFits, Zenon DEF RecordsOK, JobKey, HistoryKey
<1>. DEFINE job == m[JobKey(id)]
            entries == m[HistoryKey(id)]
<1>1. /\ JobFits(id, job, receipts, holder, ended, retried)
      /\ entries \in Seq(Kind) /\ Len(entries) \in 1 .. MaxHistory + 1
  BY PresentFits, Zenon DEF HistoryFits
<1>2. job \in JobRecord
  BY <1>1, Zenon DEF JobFits
<1>3. DOMAIN job = {"state", "spec", "available_at_ms", "attempts", "lease_until_ms",
                    "lease_generation"}
  BY <1>2, Zenon DEF JobRecord
<1>4. /\ job.state \in {"Ready", "Leased", "Completed", "Dead", "Cancelled"}
      /\ job.spec \in StoredSpec /\ job.spec.max_attempts \in Nat \ {0}
      /\ job.available_at_ms \in Time /\ job.attempts \in Nat
      /\ job.lease_until_ms \in Time /\ job.lease_generation \in Nat
  BY <1>2, JobFields, Zenon
<1>5. /\ job.attempts \in 0 .. job.spec.max_attempts + 1
      /\ job.lease_generation \in 0 .. job.spec.max_attempts
  BY <1>1, <1>4, SMTT(30) DEF JobFits
<1>6. \E spec \in JobSpec : job.spec = [spec EXCEPT !.idempotency_key = job.spec.idempotency_key]
  BY <1>4, SpecFields, Zenon
<1>7. StoredJob(job)
  BY <1>3, <1>4, <1>5, <1>6, Zenon DEF StoredJob
<1>. QED
  BY <1>1, <1>7, SMTT(30)

LEMMA InvIsGood ==
  ASSUME JobInv, SourceInv
  PROVE  /\ SettledByHolder /\ JobsEndForGood /\ HistoryExplainsState
         /\ OneActivePerKey /\ SourcesKeepCount
<1>0. JobCore /\ SourceCore /\ mem \in Maps
  BY Zenon DEF JobInv, SourceInv, Maps
<1>1. SettledByHolder /\ OneActivePerKey /\ OneJobPerRun
  BY Zenon DEF JobInv, SourceInv, SourceCore
<1>2. TypeOK
  <2>1. RecordsOK(mem) /\ \A i \in DOMAIN medium : RecordsOK(medium[i])
    BY <1>0, RecordsAreOK, Zenon DEF Maps
  <2>2. medium # << >>
    BY Zenon DEF JobInv, JobCore, MediumOK
  <2>3. /\ receipts \subseteq [worker : Worker, id : JobId, generation : Nat]
        /\ holder \in [JobId -> Worker \cup {NoWorker}]
        /\ ended \cup retried \cup doubted \subseteq JobId
    BY <1>0, Zenon DEF JobCore, ToldOK
  <2>4. call # NoCall /\ call.op \in {"claim", "release"} => call.ids \subseteq Present
    BY Zenon DEF JobInv, JobCallOK, ClaimCall, ReleaseCall, Present, Job, JobKey
  <2>. QED
    BY <2>1, <2>2, <2>3, <2>4, Zenon DEF TypeOK
<1>3. AttemptsAreBounded
  <2>. SUFFICES ASSUME NEW r \in receipts
                PROVE  r.id \in Present /\ r.generation <= Job(r.id).spec.max_attempts
    BY Zenon DEF AttemptsAreBounded
  <2>1. r.id \in JobId
    BY <1>0, Zenon DEF JobCore, ToldOK
  <2>2. mem[JobKey(r.id)] # NoRecord
    BY <1>0, <2>1, AbsentFits, Zenon
  <2>3. JobFits(r.id, mem[JobKey(r.id)], receipts, holder, ended, retried)
    BY <1>0, <2>1, <2>2, PresentFits, Zenon
  <2>. QED
    BY <2>1, <2>2, <2>3, Zenon DEF JobFits, Present, Job, JobKey
<1>4. EndedIsFinal
  <2>. SUFFICES ASSUME NEW id \in ended
                PROVE  id \in Present /\ Job(id).state \in {"Completed", "Cancelled"}
    BY Zenon DEF EndedIsFinal
  <2>1. id \in JobId
    BY <1>0, Zenon DEF JobCore, ToldOK
  <2>2. mem[JobKey(id)] # NoRecord
    BY <1>0, <2>1, AbsentFits, Zenon
  <2>3. JobFits(id, mem[JobKey(id)], receipts, holder, ended, retried)
    BY <1>0, <2>1, <2>2, PresentFits, Zenon
  <2>. QED
    BY <2>1, <2>2, <2>3, Zenon DEF JobFits, Present, Job, JobKey
<1>5. HistoryExplainsState
  BY <1>0, Zenon DEF JobCore, Undoubted, Tells, HistoryExplainsState, Present, Job, History, JobKey,
              HistoryKey
<1>6. MapSourced(mem, origin, firstRun, fires, doubted, reenabled)
  BY <1>0, Zenon DEF SourceCore
<1>7. NoRunIsLost
  BY <1>6, Zenon DEF MapSourced, RunsFit, NoRunIsLost, Present, Job, JobKey
<1>8. FiresAreCounted
  BY <1>6, Zenon DEF MapSourced, FiresFit, FiresAreCounted
<1>. QED
  BY <1>1, <1>2, <1>3, <1>4, <1>5, <1>7, <1>8, SMTT(30) DEF JobsEndForGood, SourcesKeepCount

-----------------------------------------------------------------------------
(* complete_job, fail_job and release_job succeed only for the worker that *)
(* the last claim of the job served, until retry_job gives the job another *)
(* life: the lease generation fences every earlier holder, through crashes *)
(* and commits in doubt. (jobs.rs, validate_job_lease)                     *)
THEOREM OnlyHoldersSettle == SpecSources => []SettledByHolder
<1>1. JobInv /\ SourceInv => SettledByHolder
  BY InvIsGood, Zenon
<1>. QED
  BY <1>1, InvHolds, PTL

(* Jobs keep their types in memory and wherever a recovery may start, are  *)
(* handed out max_attempts times at most, and stay finished once           *)
(* complete_job or cancel_job has returned success. (jobs.rs)              *)
THEOREM FinishedJobsStay == SpecSources => []JobsEndForGood
<1>1. JobInv /\ SourceInv => JobsEndForGood
  BY InvIsGood, Zenon
<1>. QED
  BY <1>1, InvHolds, PTL

(* The last entry of a job's history is the one for its state, and its     *)
(* claims count up to the lease generation, unless a commit of the job was *)
(* in doubt: the two records are written together. (jobs.rs,               *)
(* persist_job_with_history)                                               *)
THEOREM HistoriesExplain == SpecSources => []HistoryExplainsState
<1>1. JobInv /\ SourceInv => HistoryExplainsState
  BY InvIsGood, Zenon
<1>. QED
  BY <1>1, InvHolds, PTL

(* Two active jobs share an idempotency key only if one was revived, had a *)
(* commit in doubt or was created by tick_schedules. (jobs.rs,             *)
(* find_active_job_by_idempotency)                                         *)
THEOREM KeysAreExclusive == SpecSources => []OneActivePerKey
<1>1. JobInv /\ SourceInv => OneActivePerKey
  BY InvIsGood, SMTT(30)
<1>. QED
  BY <1>1, InvHolds, PTL

(* A run of a schedule makes one job, a cron run is not lost between the   *)
(* two transactions of a tick, and a fire that a trigger reported is       *)
(* counted. (jobs.rs, cron_scheduler.rs, triggers.rs)                      *)
THEOREM SourcesCount == SpecSources => []SourcesKeepCount
<1>1. JobInv /\ SourceInv => SourcesKeepCount
  BY InvIsGood, Zenon
<1>. QED
  BY <1>1, InvHolds, PTL

=============================================================================
