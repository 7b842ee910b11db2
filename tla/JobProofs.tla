------------------------------ MODULE JobProofs ------------------------------
(***************************************************************************)
(* Durable jobs: what the steps of workers, of the reaper, of a recovery,  *)
(* of a submission and of the ticks of schedules keep, for any number of   *)
(* workers, jobs, attempts and commits in doubt. (Module JobTheorems has   *)
(* the other steps and the theorems.)                                      *)
(*                                                                         *)
(* A restart replaces the records in memory by others, so the invariant    *)
(* says of every map that a recovery may bring back what callers were told *)
(* of it, and that jobs whose commits were never in doubt are the same in  *)
(* all of them. Since an operation of several transactions keeps what it   *)
(* found between them, the invariant also says what it found.              *)
(***************************************************************************)
EXTENDS JobSources, TLAPS

Maps == {mem} \cup {medium[i] : i \in DOMAIN medium}

MediumOK == medium \in Seq({medium[i] : i \in DOMAIN medium}) /\ medium # << >>

JobKey(id) == <<"job", id>>
HistoryKey(id) == <<"history", id>>

-----------------------------------------------------------------------------
(* Jobs.                                                                   *)

(* A stored job agrees with what callers were told: R receipts, H the last *)
(* worker served, E jobs that ended, T jobs that were revived.             *)
JobFits(id, job, R, H, E, T) ==
  /\ job \in JobRecord
  /\ job.attempts <= job.spec.max_attempts + 1
  /\ job.lease_generation <= job.spec.max_attempts
  /\ Active(job) => job.attempts <= job.spec.max_attempts
  /\ \A r \in R : r.id = id =>
       /\ r.generation <= job.spec.max_attempts
       /\ id \notin T => /\ r.generation <= job.attempts
                         /\ job.lease_generation = r.generation => r.worker = H[id]
  /\ id \in E => job.state \in {"Completed", "Cancelled"}

HistoryFits(entries) == entries \in Seq(Kind) /\ Len(entries) \in 1 .. MaxHistory + 1

MapFits(m, R, H, E, T) ==
  \A id \in JobId :
    \/ /\ m[JobKey(id)] = NoRecord /\ m[HistoryKey(id)] = NoRecord
       /\ id \notin E /\ \A r \in R : r.id # id
    \/ JobFits(id, m[JobKey(id)], R, H, E, T) /\ HistoryFits(m[HistoryKey(id)])

(* The history of a job tells its state; its claims are counted by the     *)
(* lease generation and, until it is dead, by the attempts.                *)
Tells(id, job, entries, T) ==
  /\ Explains(entries, job)
  /\ id \notin T => /\ Claims(entries) = job.lease_generation
                    /\ job.state # "Dead" => job.attempts = job.lease_generation

(* Jobs whose commits were never in doubt are the same in every map, and   *)
(* the newest map has every job that memory has.                           *)
Undoubted ==
  /\ \A m \in Maps, id \in JobId \ doubted :
       m[JobKey(id)] = mem[JobKey(id)] /\ m[HistoryKey(id)] = mem[HistoryKey(id)]
  /\ \A id \in JobId \ doubted : mem[JobKey(id)] # NoRecord =>
       Tells(id, mem[JobKey(id)], mem[HistoryKey(id)], retried)
  /\ \A id \in JobId : mem[JobKey(id)] # NoRecord => Newest[JobKey(id)] # NoRecord

ToldOK ==
  /\ receipts \subseteq [worker : Worker, id : JobId, generation : Nat]
  /\ holder \in [JobId -> Worker \cup {NoWorker}]
  /\ ended \subseteq JobId /\ retried \subseteq JobId /\ doubted \subseteq JobId

(* What Claims and NextAfter compute, which module JobTheorems shows. They *)
(* are conjuncts of the invariant so that the proofs about steps need no   *)
(* theorems about finite sets.                                             *)
ClaimsAreCounted ==
  /\ Claims(<< >>) = 0
  /\ \A entries \in Seq(Kind), kind \in Kind :
       /\ Claims(entries) \in Nat
       /\ Claims(Append(entries, kind)) = Claims(entries) + (IF kind = "Claimed" THEN 1 ELSE 0)

RunsHaveNext ==
  \A t : (\E n \in CronTimes : n > t) =>
    /\ NextAfter(t) \in CronTimes /\ NextAfter(t) > t
    /\ \A n \in CronTimes : n > t => NextAfter(t) <= n

JobCore ==
  /\ ClaimsAreCounted /\ RunsHaveNext
  /\ MediumOK
  /\ ToldOK
  /\ \A m \in Maps : MapFits(m, receipts, holder, ended, retried)
  /\ Undoubted

(* What a claim and the reaper found is as they found it.                  *)
ClaimCall ==
  [op : {"claim"}, ids : SUBSET JobId, best : SUBSET JobId, worker : Worker, now : Time,
   until : Time]

ReleaseCall == [op : {"release"}, ids : SUBSET JobId, now : Time]

JobCallOK ==
  call # NoCall =>
    /\ call.op = "claim" =>
         /\ call \in ClaimCall
         /\ call.ids \cap call.best = {}
         /\ \A id \in call.ids \cup call.best :
              mem[JobKey(id)] # NoRecord /\ Active(mem[JobKey(id)])
    /\ call.op = "release" =>
         /\ call \in ReleaseCall
         /\ \A id \in call.ids :
              mem[JobKey(id)] # NoRecord /\ mem[JobKey(id)].state = "Leased"

JobInv == JobCore /\ JobCallOK /\ SettledByHolder

-----------------------------------------------------------------------------
(* What commits and recoveries do to the maps.                             *)

LEMMA NewestIsAMap ==
  ASSUME MediumOK
  PROVE  Newest \in Maps /\ mem \in Maps /\ \A i \in 1 .. Len(medium) : medium[i] \in Maps
<1>1. Len(medium) \in Nat \ {0} /\ DOMAIN medium = 1 .. Len(medium)
  BY DEF MediumOK
<1>. QED
  BY <1>1 DEF Newest, Maps

LEMMA OneMap ==
  ASSUME NEW m, medium' = <<m>>
  PROVE  MediumOK' /\ Maps' = {mem', m} /\ Newest' = m
<1>1. <<m>> \in Seq({m}) /\ Len(<<m>>) = 1 /\ <<m>>[1] = m /\ DOMAIN <<m>> = 1 .. 1
  OBVIOUS
<1>2. {<<m>>[i] : i \in DOMAIN <<m>>} = {m}
  BY <1>1
<1>. QED
  BY <1>1, <1>2, Zenon DEF MediumOK, Maps, Newest

LEMMA MapsAfterOk ==
  ASSUME NEW w, CommitOk(w)
  PROVE  /\ MediumOK' /\ mem' = Written(mem, w) /\ Newest' = Written(Newest, w)
         /\ Maps' = {Written(mem, w), Written(Newest, w)}
BY OneMap, Zenon DEF CommitOk

LEMMA MapsAfterDoubt ==
  ASSUME NEW w, MediumOK, CommitInDoubt(w)
  PROVE  /\ MediumOK' /\ mem' = mem /\ Newest' = Written(Newest, w)
         /\ Maps' = Maps \cup {Written(Newest, w)}
<1>. DEFINE q == medium
            m == Written(Newest, w)
            T == {q[i] : i \in DOMAIN q} \cup {m}
            a == Append(q, m)
<1>0. mem' = mem /\ medium' = a
  BY Zenon DEF CommitInDoubt
<1>. HIDE DEF m
<1>1. q \in Seq(T) /\ m \in T
  BY DEF MediumOK
<1>2. /\ a \in Seq(T) /\ Len(a) = Len(q) + 1 /\ DOMAIN a = 1 .. Len(q) + 1
      /\ Len(q) \in Nat /\ DOMAIN q = 1 .. Len(q)
      /\ \A i \in 1 .. Len(q) : a[i] = q[i]
      /\ a[Len(q) + 1] = m
  BY <1>1
<1>. HIDE DEF a
<1>3. {a[i] : i \in DOMAIN a} = T
  <2>1. \A i \in DOMAIN a : a[i] \in T
    BY <1>2
  <2>2. ASSUME NEW x \in T PROVE \E i \in DOMAIN a : a[i] = x
    BY <1>2
  <2>. QED
    BY <2>1, <2>2, Zenon
<1>4. a # << >>
  BY <1>2
<1>5. Maps' = Maps \cup {m}
  BY <1>0, <1>3 DEF Maps
<1>6. MediumOK'
  BY <1>0, <1>2, <1>3, <1>4, Zenon DEF MediumOK
<1>7. Newest' = m
  BY <1>0, <1>2, Zenon DEF Newest
<1>. QED
  BY <1>0, <1>5, <1>6, <1>7, Zenon DEF m

(* A recovery, and a flush, bring nothing new.                             *)
LEMMA MapsAfterRecovery ==
  ASSUME MediumOK, Flush \/ Restart \/ PowerLoss
  PROVE  /\ MediumOK' /\ Maps' \subseteq Maps /\ Newest' \in Maps'
         /\ (mem' = mem /\ Newest' = Newest) \/ mem' = Newest'
<1>0. Newest \in Maps
  BY NewestIsAMap, Zenon
<1>1. CASE Flush
  BY <1>0, <1>1, OneMap DEF Flush, Maps
<1>2. CASE Restart
  <2>1. mem' = Newest /\ medium' = medium
    BY <1>2, Zenon DEF Restart
  <2>. QED
    BY <1>0, <2>1, Zenon DEF MediumOK, Maps, Newest
<1>3. CASE PowerLoss
  <2>1. PICK i \in 1 .. Len(medium) : mem' = medium[i] /\ medium' = <<medium[i]>>
    BY <1>3, Zenon DEF PowerLoss
  <2>2. medium[i] \in Maps
    BY NewestIsAMap, Zenon
  <2>. QED
    BY <2>1, <2>2, OneMap
<1>. QED
  BY <1>1, <1>2, <1>3, Zenon

(* A transaction that writes the job id, with its history unless that is   *)
(* NoRecord, and no other job.                                             *)
Writes(w, id, job, entries) ==
  /\ JobKey(id) \in DOMAIN w /\ w[JobKey(id)] = job
  /\ \/ entries = NoRecord /\ HistoryKey(id) \notin DOMAIN w
     \/ entries # NoRecord /\ HistoryKey(id) \in DOMAIN w /\ w[HistoryKey(id)] = entries
  /\ \A x \in JobId \ {id} : JobKey(x) \notin DOMAIN w /\ HistoryKey(x) \notin DOMAIN w

(* The transaction w of job id: acknowledged, or in doubt.                 *)
Persisted(id, w) ==
  \/ CommitOk(w) /\ doubted' = doubted
  \/ CommitInDoubt(w) /\ doubted' = doubted \cup {id}

(* A job within the same life as old.                                      *)
Kept(old, job) ==
  /\ job \in JobRecord /\ job.spec = old.spec /\ job.attempts = old.attempts
  /\ job.lease_generation = old.lease_generation

WritesNoJob(w) == \A x \in JobId : JobKey(x) \notin DOMAIN w /\ HistoryKey(x) \notin DOMAIN w

LEMMA KeysAreKeys ==
  /\ \A id \in JobId : JobKey(id) \in RecordKey /\ HistoryKey(id) \in RecordKey
  /\ \A sid \in ScheduleId : <<"schedule", sid>> \in RecordKey
  /\ \A cid \in CronId : <<"cron", cid>> \in RecordKey
  /\ \A tid \in TriggerId : <<"trigger", tid>> \in RecordKey
BY JobAssumption, SourceAssumption, Zenon DEF JobKey, HistoryKey

LEMMA WrittenJob ==
  ASSUME NEW m, NEW w, NEW id \in JobId, NEW job, NEW entries, Writes(w, id, job, entries)
  PROVE  /\ Written(m, w)[JobKey(id)] = job
         /\ Written(m, w)[HistoryKey(id)] = IF entries = NoRecord THEN m[HistoryKey(id)] ELSE entries
         /\ \A x \in JobId \ {id} : /\ Written(m, w)[JobKey(x)] = m[JobKey(x)]
                                     /\ Written(m, w)[HistoryKey(x)] = m[HistoryKey(x)]
BY KeysAreKeys, Zenon DEF Writes, Written

LEMMA WrittenNoJob ==
  ASSUME NEW m, NEW w, WritesNoJob(w)
  PROVE  \A x \in JobId : /\ Written(m, w)[JobKey(x)] = m[JobKey(x)]
                          /\ Written(m, w)[HistoryKey(x)] = m[HistoryKey(x)]
BY KeysAreKeys, Zenon DEF WritesNoJob, Written

-----------------------------------------------------------------------------
(* Jobs: what a commit of one job must show.                               *)

(* The histories of a present job fit, and a present job is no NoRecord.   *)
LEMMA PresentFits ==
  ASSUME JobCore, NEW m \in Maps, NEW id \in JobId, m[JobKey(id)] # NoRecord
  PROVE  /\ JobFits(id, m[JobKey(id)], receipts, holder, ended, retried)
         /\ HistoryFits(m[HistoryKey(id)])
BY Zenon DEF JobCore, MapFits

LEMMA AbsentFits ==
  ASSUME JobCore, NEW m \in Maps, NEW id \in JobId, m[JobKey(id)] = NoRecord
  PROVE  /\ m[HistoryKey(id)] = NoRecord
         /\ id \notin ended /\ \A r \in receipts : r.id # id
<1>1. ~JobFits(id, m[JobKey(id)], receipts, holder, ended, retried)
  BY AbsenceAssumption, Zenon DEF JobFits
<1>. QED
  BY <1>1, Zenon DEF JobCore, MapFits

(* The map that w makes of m, when memory has the job that w writes again, *)
(* or w writes a history with it.                                          *)
LEMMA WrittenFits ==
  ASSUME JobCore, NEW m \in {mem, Newest}, NEW id \in JobId, NEW job, NEW entries, NEW w,
         Writes(w, id, job, entries),
         entries = NoRecord => mem[JobKey(id)] # NoRecord,
         entries # NoRecord => HistoryFits(entries),
         NEW R, NEW H, NEW E, NEW T, JobFits(id, job, R, H, E, T),
         \A r \in R : r \in receipts \/ r.id = id,
         \A x \in JobId \ {id} : H[x] = holder[x],
         E \subseteq ended \cup {id}, retried \subseteq T
  PROVE  MapFits(Written(m, w), R, H, E, T)
<1>1. m \in Maps
  BY NewestIsAMap, Zenon DEF JobCore
<1>. DEFINE n == Written(m, w)
<1>2. /\ n[JobKey(id)] = job
      /\ n[HistoryKey(id)] = IF entries = NoRecord THEN m[HistoryKey(id)] ELSE entries
      /\ \A x \in JobId \ {id} : n[JobKey(x)] = m[JobKey(x)] /\ n[HistoryKey(x)] = m[HistoryKey(x)]
  BY WrittenJob
<1>. HIDE DEF n
<1>3. HistoryFits(n[HistoryKey(id)])
  <2>1. CASE entries = NoRecord
    <3>1. mem[JobKey(id)] # NoRecord => Newest[JobKey(id)] # NoRecord
      BY Zenon DEF JobCore, Undoubted
    <3>2. m[JobKey(id)] # NoRecord
      BY <2>1, <3>1, Zenon
    <3>. QED
      BY <1>1, <1>2, <2>1, <3>2, PresentFits, Zenon
  <2>2. CASE entries # NoRecord
    BY <1>2, <2>2, Zenon
  <2>. QED
    BY <2>1, <2>2, Zenon
<1>4. ASSUME NEW x \in JobId, x # id
      PROVE  \/ /\ n[JobKey(x)] = NoRecord /\ n[HistoryKey(x)] = NoRecord
                /\ x \notin E /\ \A r \in R : r.id # x
             \/ JobFits(x, n[JobKey(x)], R, H, E, T) /\ HistoryFits(n[HistoryKey(x)])
  <2>1. n[JobKey(x)] = m[JobKey(x)] /\ n[HistoryKey(x)] = m[HistoryKey(x)]
    BY <1>2, <1>4, Zenon
  <2>2. CASE m[JobKey(x)] = NoRecord
    BY <1>1, <1>4, <2>1, <2>2, AbsentFits, Zenon
  <2>3. CASE m[JobKey(x)] # NoRecord
    <3>1. JobFits(x, m[JobKey(x)], receipts, holder, ended, retried)
          /\ HistoryFits(m[HistoryKey(x)])
      BY <1>1, <2>3, PresentFits, Zenon
    <3>2. H[x] = holder[x]
      BY <1>4, Zenon
    <3>3. JobFits(x, m[JobKey(x)], R, H, E, T)
      BY <1>4, <3>1, <3>2, Zenon DEF JobFits
    <3>. QED
      BY <2>1, <3>1, <3>3, Zenon
  <2>. QED
    BY <2>2, <2>3, Zenon
<1>. QED
  BY <1>2, <1>3, <1>4, Zenon DEF MapFits, n

LEMMA CommitOkFits ==
  ASSUME JobCore, NEW id \in JobId, NEW job, NEW entries, NEW w,
         Writes(w, id, job, entries), CommitOk(w),
         entries = NoRecord => mem[JobKey(id)] # NoRecord,
         entries # NoRecord => HistoryFits(entries),
         JobFits(id, job, receipts', holder', ended', retried'),
         \A r \in receipts' : r \in receipts \/ r.id = id,
         \A x \in JobId \ {id} : holder'[x] = holder[x],
         ended' \subseteq ended \cup {id}, retried \subseteq retried', doubted' = doubted,
         ToldOK',
         id \notin doubted =>
           Tells(id, job, IF entries = NoRecord THEN mem[HistoryKey(id)] ELSE entries, retried')
  PROVE  JobCore'
<1>1. /\ MediumOK' /\ mem' = Written(mem, w) /\ Newest' = Written(Newest, w)
      /\ Maps' = {Written(mem, w), Written(Newest, w)}
  BY MapsAfterOk, Zenon
<1>2. \A m \in Maps' : MapFits(m, receipts', holder', ended', retried')
  BY <1>1, WrittenFits, Zenon
<1>3. ASSUME NEW m \in {mem, Newest}
      PROVE  /\ Written(m, w)[JobKey(id)] = job
             /\ Written(m, w)[HistoryKey(id)] = IF entries = NoRecord THEN m[HistoryKey(id)] ELSE entries
             /\ \A x \in JobId \ {id} : /\ Written(m, w)[JobKey(x)] = m[JobKey(x)]
                                         /\ Written(m, w)[HistoryKey(x)] = m[HistoryKey(x)]
  BY WrittenJob
<1>4. /\ Newest \in Maps
      /\ \A x \in JobId \ doubted : /\ Newest[JobKey(x)] = mem[JobKey(x)]
                                    /\ Newest[HistoryKey(x)] = mem[HistoryKey(x)]
  BY NewestIsAMap, Zenon DEF JobCore, Undoubted
<1>5. \A m \in Maps', x \in JobId \ doubted' :
        m[JobKey(x)] = mem'[JobKey(x)] /\ m[HistoryKey(x)] = mem'[HistoryKey(x)]
  BY <1>1, <1>3, <1>4
<1>6. ASSUME NEW x \in JobId \ doubted', mem'[JobKey(x)] # NoRecord
      PROVE  Tells(x, mem'[JobKey(x)], mem'[HistoryKey(x)], retried')
  <2>1. CASE x = id
    BY <1>1, <1>3, <2>1, Zenon
  <2>2. CASE x # id
    <3>1. mem'[JobKey(x)] = mem[JobKey(x)] /\ mem'[HistoryKey(x)] = mem[HistoryKey(x)]
      BY <1>1, <1>3, <2>2, Zenon
    <3>2. Tells(x, mem[JobKey(x)], mem[HistoryKey(x)], retried)
      BY <1>6, <3>1, Zenon DEF JobCore, Undoubted
    <3>. QED
      BY <3>1, <3>2, Zenon DEF Tells
  <2>. QED
    BY <2>1, <2>2, Zenon
<1>7. job # NoRecord
  BY AbsenceAssumption, Zenon DEF JobFits
<1>8. \A x \in JobId : mem'[JobKey(x)] # NoRecord => Newest'[JobKey(x)] # NoRecord
  BY <1>1, <1>3, <1>7, Zenon DEF JobCore, Undoubted
<1>. QED
  BY <1>1, <1>2, <1>5, <1>6, <1>8, Zenon DEF JobCore, Undoubted

LEMMA CommitInDoubtFits ==
  ASSUME JobCore, NEW id \in JobId, NEW job, NEW entries, NEW w,
         Writes(w, id, job, entries), CommitInDoubt(w),
         entries = NoRecord => mem[JobKey(id)] # NoRecord,
         entries # NoRecord => HistoryFits(entries),
         JobFits(id, job, receipts, holder, ended, retried'),
         UNCHANGED <<receipts, holder, ended>>,
         retried \subseteq retried', retried' \subseteq JobId, doubted' = doubted \cup {id}
  PROVE  JobCore'
<1>1. /\ MediumOK' /\ mem' = mem /\ Newest' = Written(Newest, w)
      /\ Maps' = Maps \cup {Written(Newest, w)}
  BY MapsAfterDoubt, Zenon DEF JobCore
<1>2. \A m \in Maps' : MapFits(m, receipts', holder', ended', retried')
  <2>1. MapFits(Written(Newest, w), receipts, holder, ended, retried')
    BY WrittenFits, Zenon
  <2>2. \A m \in Maps : MapFits(m, receipts, holder, ended, retried')
    BY DEF JobCore, MapFits, JobFits
  <2>. QED
    BY <1>1, <2>1, <2>2, Zenon
<1>3. /\ Newest \in Maps
      /\ \A x \in JobId \ {id} : /\ Written(Newest, w)[JobKey(x)] = Newest[JobKey(x)]
                                 /\ Written(Newest, w)[HistoryKey(x)] = Newest[HistoryKey(x)]
      /\ Written(Newest, w)[JobKey(id)] = job
  BY NewestIsAMap, WrittenJob DEF JobCore
<1>4. \A m \in Maps', x \in JobId \ doubted' :
        m[JobKey(x)] = mem'[JobKey(x)] /\ m[HistoryKey(x)] = mem'[HistoryKey(x)]
  BY <1>1, <1>3 DEF JobCore, Undoubted
<1>5. \A x \in JobId \ doubted' : mem'[JobKey(x)] # NoRecord =>
        Tells(x, mem'[JobKey(x)], mem'[HistoryKey(x)], retried')
  BY <1>1, Zenon DEF JobCore, Undoubted, Tells
<1>6. job # NoRecord
  BY AbsenceAssumption, Zenon DEF JobFits
<1>7. \A x \in JobId : mem'[JobKey(x)] # NoRecord => Newest'[JobKey(x)] # NoRecord
  BY <1>1, <1>3, <1>6, Zenon DEF JobCore, Undoubted
<1>8. ToldOK'
  BY Zenon DEF JobCore, ToldOK
<1>. QED
  BY <1>1, <1>2, <1>4, <1>5, <1>7, <1>8, Zenon DEF JobCore, Undoubted

(* Other transactions, a flush and a recovery.                             *)
LEMMA MapsFit ==
  ASSUME JobCore, MediumOK', UNCHANGED <<receipts, holder, ended, retried, doubted>>,
         \A n \in Maps' : \E m \in Maps : \A x \in JobId :
           n[JobKey(x)] = m[JobKey(x)] /\ n[HistoryKey(x)] = m[HistoryKey(x)],
         \A x \in JobId : mem'[JobKey(x)] # NoRecord => Newest'[JobKey(x)] # NoRecord
  PROVE  JobCore'
<1>1. \A n \in Maps' : MapFits(n, receipts', holder', ended', retried')
  <2>1. ASSUME NEW n \in Maps' PROVE MapFits(n, receipts, holder, ended, retried)
    <3>1. PICK m \in Maps : \A x \in JobId :
            n[JobKey(x)] = m[JobKey(x)] /\ n[HistoryKey(x)] = m[HistoryKey(x)]
      BY Zenon
    <3>2. MapFits(m, receipts, holder, ended, retried)
      BY Zenon DEF JobCore
    <3>. QED
      BY <3>1, <3>2, Zenon DEF MapFits
  <2>. QED
    BY <2>1, Zenon
<1>2. ASSUME NEW n \in Maps', NEW x \in JobId \ doubted
      PROVE  n[JobKey(x)] = mem[JobKey(x)] /\ n[HistoryKey(x)] = mem[HistoryKey(x)]
  BY DEF JobCore, Undoubted
<1>3. mem' \in Maps'
  BY Zenon DEF Maps
<1>4. \A n \in Maps', x \in JobId \ doubted' :
        n[JobKey(x)] = mem'[JobKey(x)] /\ n[HistoryKey(x)] = mem'[HistoryKey(x)]
  BY <1>2, <1>3
<1>5. \A x \in JobId \ doubted' : mem'[JobKey(x)] # NoRecord =>
        Tells(x, mem'[JobKey(x)], mem'[HistoryKey(x)], retried')
  BY <1>2, <1>3, Zenon DEF JobCore, Undoubted
<1>6. ToldOK'
  BY Zenon DEF JobCore, ToldOK
<1>. QED
  BY <1>1, <1>4, <1>5, <1>6, Zenon DEF JobCore, Undoubted

-----------------------------------------------------------------------------
(* Jobs: the records that operations write.                                *)

LEMMA SpecFields ==
  ASSUME NEW spec \in StoredSpec
  PROVE  /\ spec.max_attempts \in Nat \ {0} /\ spec.retry_backoff_ms \in Nat
         /\ spec.idempotency_key \in IdempotencyKey
         /\ \E given \in JobSpec :
              spec = [given EXCEPT !.idempotency_key = spec.idempotency_key]
<1>1. PICK given \in JobSpec, k \in IdempotencyKey : spec = [given EXCEPT !.idempotency_key = k]
  BY DEF StoredSpec
<1>2. given \in [handler : Handler, idempotency_key : {given.idempotency_key},
                 max_attempts : Nat \ {0}, retry_backoff_ms : Nat, priority : Int,
                 deadline_ms : Time \cup {NoDeadline}]
  BY SpecAssumption, Zenon
<1>. QED
  BY <1>1, <1>2, Zenon

LEMMA JobFields ==
  ASSUME NEW job \in JobRecord
  PROVE  /\ job.state \in {"Ready", "Leased", "Completed", "Dead", "Cancelled"}
         /\ job.spec \in StoredSpec /\ job.spec.max_attempts \in Nat \ {0}
         /\ job.available_at_ms \in Time /\ job.attempts \in Nat
         /\ job.lease_until_ms \in Time /\ job.lease_generation \in Nat
BY SpecFields, Zenon DEF JobRecord

LEMMA TimeIsNat == Time \subseteq Nat /\ 0 \in Time /\ \A n \in Nat : n <= MaxTime => n \in Time
BY JobAssumption DEF Time

(* What the changes of a job leave as it is.                               *)
LEMMA DeadJob ==
  ASSUME NEW job \in JobRecord
  PROVE  Kept(job, Dead(job)) /\ Dead(job).state = "Dead"
BY TimeIsNat, Zenon DEF JobRecord, Dead, Kept

LEMMA ReadyJob ==
  ASSUME NEW job \in JobRecord, NEW at \in Time
  PROVE  Kept(job, Ready(job, at)) /\ Ready(job, at).state = "Ready"
BY TimeIsNat, Zenon DEF JobRecord, Ready, Kept

LEMMA EndedJob ==
  ASSUME NEW job \in JobRecord, NEW state \in {"Completed", "Cancelled"}
  PROVE  LET new == [job EXCEPT !.state = state, !.lease_until_ms = 0]
         IN  Kept(job, new) /\ new.state = state
BY TimeIsNat, Zenon DEF JobRecord, Kept

LEMMA BeatenJob ==
  ASSUME NEW job \in JobRecord, NEW until \in Time
  PROVE  LET new == [job EXCEPT !.lease_until_ms = until]
         IN  Kept(job, new) /\ new.state = job.state
BY Zenon DEF JobRecord, Kept

LEMMA RevivedJob ==
  ASSUME NEW job \in JobRecord, NEW at \in Time
  PROVE  LET new == [Ready(job, at) EXCEPT !.attempts = 0, !.lease_generation = 0]
         IN  /\ new \in JobRecord /\ new.state = "Ready" /\ new.spec = job.spec
             /\ new.attempts = 0 /\ new.lease_generation = 0
BY TimeIsNat, Zenon DEF JobRecord, Ready

LEMMA ClaimedJob ==
  ASSUME NEW job \in JobRecord, NEW until \in Time
  PROVE  LET new == Claimed(job, until)
         IN  /\ new \in JobRecord /\ new.spec = job.spec /\ new.attempts = job.attempts + 1
             /\ \/ /\ job.attempts + 1 > job.spec.max_attempts
                   /\ new.state = "Dead" /\ new.lease_generation = job.lease_generation
                \/ /\ job.attempts + 1 <= job.spec.max_attempts
                   /\ new.state = "Leased" /\ new.lease_generation = job.attempts + 1
<1>. DEFINE more == [job EXCEPT !.attempts = @ + 1]
            leased == [job EXCEPT !.state = "Leased", !.attempts = @ + 1, !.lease_until_ms = until,
                                  !.lease_generation = job.attempts + 1]
<1>1. /\ job.attempts \in Nat /\ job.spec.max_attempts \in Nat
  BY JobFields, Zenon
<1>2. /\ more \in JobRecord /\ more.spec = job.spec /\ more.attempts = job.attempts + 1
      /\ more.lease_generation = job.lease_generation
  BY <1>1 DEF JobRecord
<1>3. /\ leased \in JobRecord /\ leased.spec = job.spec /\ leased.attempts = job.attempts + 1
      /\ leased.state = "Leased" /\ leased.lease_generation = job.attempts + 1
  <2>. DEFINE n == job.attempts + 1
              first == [job EXCEPT !.state = "Leased", !.attempts = n]
  <2>1. n \in Nat
    BY <1>1
  <2>2. leased = [first EXCEPT !.lease_until_ms = until, !.lease_generation = n]
    BY Zenon
  <2>. HIDE DEF n, leased
  <2>3. /\ first \in JobRecord /\ first.spec = job.spec /\ first.attempts = n
        /\ first.state = "Leased"
    BY <2>1, Zenon DEF JobRecord
  <2>. HIDE DEF first
  <2>4. /\ leased \in JobRecord /\ leased.spec = first.spec /\ leased.attempts = first.attempts
        /\ leased.state = first.state /\ leased.lease_generation = n
    BY <2>1, <2>2, <2>3, Zenon DEF JobRecord
  <2>. QED
    BY <2>3, <2>4, Zenon DEF n
<1>4. Claimed(job, until) =
        IF job.attempts + 1 > job.spec.max_attempts THEN Dead(more) ELSE leased
  BY Zenon DEF Claimed
<1>. HIDE DEF more, leased
<1>5. CASE job.attempts + 1 > job.spec.max_attempts
  BY <1>1, <1>2, <1>4, <1>5, DeadJob, Zenon DEF Kept
<1>6. CASE ~(job.attempts + 1 > job.spec.max_attempts)
  BY <1>1, <1>3, <1>4, <1>6
<1>. QED
  BY <1>5, <1>6, Zenon

LEMMA BuiltJob ==
  ASSUME NEW spec \in StoredSpec, NEW at \in Time
  PROVE  /\ BuildJob(spec, at) \in JobRecord /\ BuildJob(spec, at).state = "Ready"
         /\ BuildJob(spec, at).spec = spec /\ BuildJob(spec, at).attempts = 0
         /\ BuildJob(spec, at).lease_generation = 0
BY TimeIsNat, Zenon DEF JobRecord, BuildJob

-----------------------------------------------------------------------------
(* Jobs: the transactions.                                                 *)

Entries(id) == IF mem[HistoryKey(id)] = NoRecord THEN << >> ELSE mem[HistoryKey(id)]

LEMMA PersistWrites ==
  ASSUME JobCore, NEW id \in JobId, NEW job, NEW kind \in Kind, HistoryLeft(id)
  PROVE  LET entries == Append(Entries(id), kind)
         IN  /\ Writes(PersistJobWithHistory(id, job, kind), id, job, entries)
             /\ DOMAIN PersistJobWithHistory(id, job, kind) = {JobKey(id), HistoryKey(id)}
             /\ HistoryFits(entries) /\ entries # NoRecord /\ Entries(id) \in Seq(Kind)
<1>. DEFINE entries == Append(Entries(id), kind)
            w == PersistJobWithHistory(id, job, kind)
<1>1. mem \in Maps /\ MaxHistory \in Nat
  BY JobAssumption, Zenon DEF Maps
<1>2. Entries(id) \in Seq(Kind) /\ Len(Entries(id)) <= MaxHistory
  <2>1. CASE mem[HistoryKey(id)] = NoRecord
    BY <1>1, <2>1 DEF Entries
  <2>2. CASE mem[HistoryKey(id)] # NoRecord
    <3>1. mem[JobKey(id)] # NoRecord
      BY <1>1, <2>2, AbsentFits, Zenon
    <3>2. HistoryFits(mem[HistoryKey(id)])
      BY <1>1, <3>1, PresentFits, Zenon
    <3>. QED
      BY <2>2, <3>2, Zenon DEF Entries, HistoryFits, HistoryLeft, History, HistoryKey
  <2>. QED
    BY <2>1, <2>2, Zenon
<1>3. HistoryFits(entries)
  BY <1>1, <1>2 DEF HistoryFits
<1>4. entries # NoRecord
  BY <1>3, AbsenceAssumption, Zenon DEF HistoryFits
<1>5. /\ DOMAIN w = {JobKey(id), HistoryKey(id)} /\ w[JobKey(id)] = job
      /\ w[HistoryKey(id)] = entries
  BY Zenon DEF PersistJobWithHistory, JobKey, HistoryKey, Entries, History
<1>. HIDE DEF w, entries
<1>6. \A x \in JobId \ {id} : JobKey(x) \notin DOMAIN w /\ HistoryKey(x) \notin DOMAIN w
  BY <1>5, Zenon DEF JobKey, HistoryKey
<1>7. Writes(w, id, job, entries)
  BY <1>4, <1>5, <1>6, Zenon DEF Writes
<1>. QED
  BY <1>2, <1>3, <1>4, <1>5, <1>7, Zenon DEF w, entries

LEMMA ClaimsCount ==
  ASSUME JobCore, NEW entries \in Seq(Kind), NEW kind \in Kind
  PROVE  /\ Claims(entries) \in Nat
         /\ Claims(Append(entries, kind)) = Claims(entries) + (IF kind = "Claimed" THEN 1 ELSE 0)
         /\ \A job : Explains(Append(entries, kind), job) <=> Explains(<<kind>>, job)
<1>1. ClaimsAreCounted
  BY Zenon DEF JobCore
<1>2. LET more == Append(entries, kind)
      IN  /\ Len(more) \in Nat /\ more[Len(more)] = kind
          /\ Len(<<kind>>) = 1 /\ <<kind>>[1] = kind
  OBVIOUS
<1>3. \A job : Explains(Append(entries, kind), job) <=> Explains(<<kind>>, job)
  BY <1>2 DEF Explains
<1>. QED
  BY <1>1, <1>3, Zenon DEF ClaimsAreCounted

(* A transaction that, acknowledged, may end the job.                      *)
EndsAtMost(id, job, w) ==
  \/ /\ CommitOk(w) /\ doubted' = doubted
     /\ \/ ended' = ended
        \/ ended' = ended \cup {id} /\ job.state \in {"Completed", "Cancelled"}
  \/ CommitInDoubt(w) /\ doubted' = doubted \cup {id} /\ ended' = ended

(* A change within one life of an active job.                              *)
LEMMA SameLife ==
  ASSUME JobCore, NEW id \in JobId, mem[JobKey(id)] # NoRecord, Active(mem[JobKey(id)]),
         HistoryLeft(id), NEW job, Kept(mem[JobKey(id)], job), NEW kind \in Kind \ {"Claimed"},
         Explains(<<kind>>, job), UNCHANGED <<receipts, holder, retried>>,
         EndsAtMost(id, job, PersistJobWithHistory(id, job, kind))
  PROVE  JobCore'
<1>. DEFINE old == mem[JobKey(id)]
            entries == Append(Entries(id), kind)
            w == PersistJobWithHistory(id, job, kind)
<1>1. mem \in Maps
  BY Zenon DEF Maps
<1>2. JobFits(id, old, receipts, holder, ended, retried) /\ HistoryFits(mem[HistoryKey(id)])
  BY <1>1, PresentFits, Zenon
<1>3. id \notin ended
  BY <1>2, Zenon DEF JobFits, Active
<1>4. JobFits(id, job, receipts, holder, ended, retried)
  BY <1>2, <1>3, Zenon DEF JobFits, Kept
<1>5. /\ Writes(w, id, job, entries) /\ HistoryFits(entries) /\ entries # NoRecord
      /\ Entries(id) \in Seq(Kind)
  BY PersistWrites, Zenon
<1>6. Entries(id) = mem[HistoryKey(id)]
  BY <1>2, AbsenceAssumption, Zenon DEF HistoryFits, Entries
<1>7. id \notin doubted => Tells(id, job, entries, retried)
  <2>1. /\ Claims(entries) = Claims(mem[HistoryKey(id)])
        /\ Explains(entries, job)
    <3>1. Claims(entries) = Claims(Entries(id)) + 0 /\ Claims(Entries(id)) \in Nat
      BY <1>5, ClaimsCount, Zenon
    <3>. QED
      BY <1>5, <1>6, <3>1, ClaimsCount
  <2>2. id \notin doubted => Tells(id, old, mem[HistoryKey(id)], retried)
    BY Zenon DEF JobCore, Undoubted
  <2>3. old.state # "Dead"
    BY Zenon DEF Active
  <2>. QED
    BY <2>1, <2>2, <2>3, Zenon DEF Tells, Kept
<1>. HIDE DEF w, entries
<1>8. CASE /\ CommitOk(w) /\ doubted' = doubted
           /\ \/ ended' = ended
              \/ ended' = ended \cup {id} /\ job.state \in {"Completed", "Cancelled"}
  <2>1. JobFits(id, job, receipts', holder', ended', retried')
    BY <1>4, <1>8, Zenon DEF JobFits
  <2>2. ToldOK'
    BY <1>8, Zenon DEF JobCore, ToldOK
  <2>3. ended' \subseteq ended \cup {id}
    BY <1>8, Zenon
  <2>. QED
    BY <1>5, <1>7, <1>8, <2>1, <2>2, <2>3, CommitOkFits, Zenon
<1>9. CASE CommitInDoubt(w) /\ doubted' = doubted \cup {id} /\ ended' = ended
  BY <1>4, <1>5, <1>9, CommitInDoubtFits, Zenon DEF JobCore, ToldOK
<1>. QED
  BY <1>8, <1>9, Zenon DEF EndsAtMost, w

LEMMA HeartbeatFits ==
  ASSUME JobCore, NEW id \in JobId, mem[JobKey(id)] # NoRecord, mem[JobKey(id)].state = "Leased",
         NEW until \in Time, NEW w, w = PersistJob(id, [Job(id) EXCEPT !.lease_until_ms = until]),
         UNCHANGED <<receipts, holder, ended, retried>>,
         Persisted(id, w)
  PROVE  JobCore'
<1>. DEFINE old == mem[JobKey(id)]
            job == [old EXCEPT !.lease_until_ms = until]
<1>1. mem \in Maps
  BY Zenon DEF Maps
<1>2. JobFits(id, old, receipts, holder, ended, retried)
  BY <1>1, PresentFits, Zenon
<1>3. Kept(old, job) /\ job.state = old.state
  BY <1>2, BeatenJob, Zenon DEF JobFits
<1>4. DOMAIN w = {JobKey(id)} /\ w[JobKey(id)] = job
  BY Zenon DEF PersistJob, Job, JobKey
<1>. HIDE DEF job
<1>5. Writes(w, id, job, NoRecord)
  BY <1>4, Zenon DEF Writes, JobKey, HistoryKey
<1>6. JobFits(id, job, receipts, holder, ended, retried)
  BY <1>2, <1>3, Zenon DEF JobFits, Active, Kept
<1>7. id \notin doubted => Tells(id, job, mem[HistoryKey(id)], retried)
  BY <1>3, Zenon DEF JobCore, Undoubted, Tells, Explains, Kept
<1>8. ToldOK /\ (doubted' = doubted => ToldOK')
  BY Zenon DEF JobCore, ToldOK
<1>9. CASE CommitOk(w) /\ doubted' = doubted
  BY <1>5, <1>6, <1>7, <1>8, <1>9, CommitOkFits, Zenon
<1>10. CASE CommitInDoubt(w) /\ doubted' = doubted \cup {id}
  BY <1>5, <1>6, <1>8, <1>10, CommitInDoubtFits, Zenon DEF ToldOK
<1>. QED
  BY <1>9, <1>10, Zenon DEF Persisted

LEMMA RetryFits ==
  ASSUME JobCore, NEW id \in JobId, mem[JobKey(id)] # NoRecord, mem[JobKey(id)].state = "Dead",
         HistoryLeft(id), NEW now \in Time, NEW w,
         w = PersistJobWithHistory(id,
               [Ready(Job(id), now) EXCEPT !.attempts = 0, !.lease_generation = 0],
               "RetryScheduled"),
         UNCHANGED <<receipts, holder, ended>>, retried' = retried \cup {id},
         Persisted(id, w)
  PROVE  JobCore'
<1>. DEFINE old == mem[JobKey(id)]
            job == [Ready(old, now) EXCEPT !.attempts = 0, !.lease_generation = 0]
            entries == Append(Entries(id), "RetryScheduled")
<1>1. mem \in Maps
  BY Zenon DEF Maps
<1>2. JobFits(id, old, receipts, holder, ended, retried)
  BY <1>1, PresentFits, Zenon
<1>3. /\ job \in JobRecord /\ job.state = "Ready" /\ job.spec = old.spec
      /\ job.attempts = 0 /\ job.lease_generation = 0
  BY <1>2, RevivedJob, Zenon DEF JobFits
<1>4. Job(id) = old /\ "RetryScheduled" \in Kind
  BY Zenon DEF Job, JobKey, Kind
<1>. HIDE DEF job
<1>5. /\ Writes(w, id, job, entries) /\ HistoryFits(entries) /\ entries # NoRecord
      /\ Entries(id) \in Seq(Kind)
  BY <1>4, PersistWrites, Zenon DEF job
<1>6. JobFits(id, job, receipts, holder, ended, retried')
  <2>1. job.spec.max_attempts \in Nat
    BY <1>3, JobFields, Zenon
  <2>2. id \notin ended
    BY <1>2, Zenon DEF JobFits
  <2>. QED
    BY <1>2, <1>3, <2>1, <2>2 DEF JobFits
<1>7. Explains(<<"RetryScheduled">>, job)
  BY <1>3, Zenon DEF Explains
<1>8. Tells(id, job, entries, retried')
  BY <1>4, <1>5, <1>7, ClaimsCount, Zenon DEF Tells
<1>9. retried \subseteq retried' /\ retried' \subseteq JobId
      /\ (doubted' = doubted => ToldOK')
  BY Zenon DEF JobCore, ToldOK
<1>. HIDE DEF entries
<1>10. CASE CommitOk(w) /\ doubted' = doubted
  BY <1>5, <1>6, <1>8, <1>9, <1>10, CommitOkFits, Zenon
<1>11. CASE CommitInDoubt(w) /\ doubted' = doubted \cup {id}
  BY <1>5, <1>6, <1>9, <1>11, CommitInDoubtFits, Zenon
<1>. QED
  BY <1>10, <1>11, Zenon DEF Persisted

(* The receipts and the holders after a claim of the job.                  *)
Receipts(id, job, worker) ==
  IF job.state = "Leased"
  THEN receipts \cup {[worker |-> worker, id |-> id, generation |-> job.lease_generation]}
  ELSE receipts

Holders(id, job, worker) ==
  IF job.state = "Leased" THEN [holder EXCEPT ![id] = worker] ELSE holder

Serves(id, job, worker, w) ==
  \/ /\ CommitOk(w) /\ doubted' = doubted
     /\ receipts' = Receipts(id, job, worker) /\ holder' = Holders(id, job, worker)
  \/ /\ CommitInDoubt(w) /\ doubted' = doubted \cup {id}
     /\ UNCHANGED <<receipts, holder>>

(* The claim of a job: a receipt is new, and higher than all before it.    *)
LEMMA ClaimFits ==
  ASSUME JobCore, NEW id \in JobId, mem[JobKey(id)] # NoRecord, Active(mem[JobKey(id)]),
         HistoryLeft(id), NEW until \in Time, NEW worker \in Worker, NEW job,
         job = Claimed(mem[JobKey(id)], until), NEW w,
         w = PersistJobWithHistory(id, job, IF job.state = "Leased" THEN "Claimed" ELSE "Dead"),
         UNCHANGED <<ended, retried>>, Serves(id, job, worker, w)
  PROVE  JobCore'
<1>. DEFINE old == mem[JobKey(id)]
            kind == IF job.state = "Leased" THEN "Claimed" ELSE "Dead"
            entries == Append(Entries(id), kind)
            R == Receipts(id, job, worker)
            H == Holders(id, job, worker)
<1>1. mem \in Maps /\ ToldOK
  BY Zenon DEF Maps, JobCore
<1>2. JobFits(id, old, receipts, holder, ended, retried) /\ HistoryFits(mem[HistoryKey(id)])
  BY <1>1, PresentFits, Zenon
<1>3. /\ job \in JobRecord /\ job.spec = old.spec /\ job.attempts = old.attempts + 1
      /\ \/ /\ old.attempts + 1 > old.spec.max_attempts
            /\ job.state = "Dead" /\ job.lease_generation = old.lease_generation
         \/ /\ old.attempts + 1 <= old.spec.max_attempts
            /\ job.state = "Leased" /\ job.lease_generation = old.attempts + 1
  BY <1>2, ClaimedJob, Zenon DEF JobFits
<1>4. kind \in Kind
  BY Zenon DEF Kind
<1>5. /\ Writes(w, id, job, entries) /\ HistoryFits(entries) /\ entries # NoRecord
      /\ Entries(id) \in Seq(Kind)
  BY <1>4, PersistWrites, Zenon
<1>6. old.attempts \in Nat /\ old.spec.max_attempts \in Nat /\ old.lease_generation \in Nat
  BY <1>2, JobFields, Zenon DEF JobFits
<1>7. id \notin ended
  BY <1>2, Zenon DEF JobFits, Active
<1>8. old.attempts <= old.spec.max_attempts /\ old.lease_generation <= old.spec.max_attempts
  BY <1>2, Zenon DEF JobFits
<1>9. \A r \in receipts : r.id = id =>
        /\ r.generation <= old.spec.max_attempts
        /\ r.generation \in Nat
        /\ id \notin retried => /\ r.generation <= old.attempts
                                /\ old.lease_generation = r.generation => r.worker = holder[id]
  BY <1>1, <1>2, Zenon DEF JobFits, ToldOK
<1>10. holder \in [JobId -> Worker \cup {NoWorker}]
  BY <1>1, Zenon DEF ToldOK
<1>. HIDE DEF kind, entries
<1>11. /\ job.attempts <= job.spec.max_attempts + 1
       /\ job.lease_generation <= job.spec.max_attempts
       /\ Active(job) => job.attempts <= job.spec.max_attempts
  BY <1>3, <1>6, <1>8, SMTT(30) DEF Active
<1>12. ASSUME NEW r \in receipts, r.id = id
       PROVE  /\ r.generation <= job.spec.max_attempts
              /\ id \notin retried => /\ r.generation <= job.attempts
                                      /\ job.lease_generation = r.generation =>
                                           job.state # "Leased" /\ r.worker = holder[id]
  BY <1>3, <1>6, <1>8, <1>9, <1>12
<1>13. JobFits(id, job, receipts, holder, ended, retried)
  BY <1>3, <1>7, <1>11, <1>12, Zenon DEF JobFits
<1>14. JobFits(id, job, R, H, ended, retried)
  <2>1. CASE job.state # "Leased"
    BY <1>13, <2>1, Zenon DEF Receipts, Holders
  <2>2. CASE job.state = "Leased"
    <3>. DEFINE new == [worker |-> worker, id |-> id, generation |-> job.lease_generation]
    <3>1. R = receipts \cup {new} /\ H[id] = worker
      BY <1>10, <2>2, Zenon DEF Receipts, Holders
    <3>2. new.worker = worker /\ new.id = id /\ new.generation = job.lease_generation
      BY Zenon
    <3>3. job.lease_generation = job.attempts /\ job.attempts \in Nat
      BY <1>3, <1>6, <2>2
    <3>. HIDE DEF new
    <3>4. ASSUME NEW r \in R, r.id = id
          PROVE  /\ r.generation <= job.spec.max_attempts
                 /\ id \notin retried => /\ r.generation <= job.attempts
                                         /\ job.lease_generation = r.generation => r.worker = H[id]
      <4>1. CASE r \in receipts
        BY <1>12, <2>2, <3>4, <4>1, Zenon
      <4>2. CASE r = new
        BY <1>11, <3>1, <3>2, <3>3, <4>2
      <4>. QED
        BY <3>1, <4>1, <4>2, Zenon
    <3>. QED
      BY <1>3, <1>7, <1>11, <3>4, Zenon DEF JobFits
  <2>. QED
    BY <2>1, <2>2, Zenon
<1>15. Entries(id) = mem[HistoryKey(id)]
  BY <1>2, AbsenceAssumption, Zenon DEF HistoryFits, Entries
<1>16. id \notin doubted => Tells(id, job, entries, retried)
  <2>1. Explains(<<kind>>, job)
    BY <1>3, Zenon DEF Explains, kind
  <2>2. /\ Explains(entries, job) /\ Claims(Entries(id)) \in Nat
        /\ Claims(entries) = Claims(Entries(id)) + (IF kind = "Claimed" THEN 1 ELSE 0)
    BY <1>4, <1>5, <2>1, ClaimsCount, Zenon DEF entries
  <2>3. id \notin doubted => Tells(id, old, Entries(id), retried)
    BY <1>15, Zenon DEF JobCore, Undoubted
  <2>4. old.state # "Dead"
    BY Zenon DEF Active
  <2>5. kind = "Claimed" <=> job.state = "Leased"
    BY Zenon DEF kind
  <2>. QED
    BY <1>3, <1>6, <2>2, <2>3, <2>4, <2>5 DEF Tells
<1>17. CASE CommitOk(w) /\ doubted' = doubted /\ receipts' = R /\ holder' = H
  <2>1. \A r \in receipts' : r \in receipts \/ r.id = id
    BY <1>17 DEF Receipts
  <2>2. \A x \in JobId \ {id} : holder'[x] = holder[x]
    BY <1>10, <1>17, Zenon DEF Holders
  <2>3. job.lease_generation \in Nat
    BY <1>3, JobFields, Zenon
  <2>4. ToldOK'
    BY <1>1, <1>10, <1>17, <2>3 DEF ToldOK, Receipts, Holders
  <2>. QED
    BY <1>5, <1>14, <1>16, <1>17, <2>1, <2>2, <2>4, CommitOkFits, Zenon
<1>18. CASE CommitInDoubt(w) /\ doubted' = doubted \cup {id} /\ UNCHANGED <<receipts, holder>>
  BY <1>1, <1>5, <1>13, <1>18, CommitInDoubtFits, Zenon DEF ToldOK
<1>. QED
  BY <1>17, <1>18, Zenon DEF Serves

(* A new job.                                                              *)
LEMMA CreateFits ==
  ASSUME JobCore, NEW id \in JobId, Unused(JobKey(id)), NEW spec \in StoredSpec, NEW at \in Time,
         NEW w, Writes(w, id, BuildJob(spec, at), <<"Submitted">>),
         UNCHANGED <<receipts, holder, ended, retried>>,
         Persisted(id, w)
  PROVE  JobCore'
<1>. DEFINE job == BuildJob(spec, at)
            entries == <<"Submitted">>
<1>1. mem \in Maps /\ ToldOK /\ mem[JobKey(id)] = NoRecord
  BY Zenon DEF Maps, JobCore, Unused
<1>2. id \notin ended /\ \A r \in receipts : r.id # id
  BY <1>1, AbsentFits, Zenon
<1>3. /\ job \in JobRecord /\ job.state = "Ready" /\ job.attempts = 0 /\ job.lease_generation = 0
      /\ job.spec.max_attempts \in Nat
  BY BuiltJob, JobFields
<1>. HIDE DEF job
<1>4. JobFits(id, job, receipts, holder, ended, retried)
  BY <1>2, <1>3 DEF JobFits
<1>5. entries \in Seq(Kind) /\ Len(entries) = 1 /\ MaxHistory \in Nat
  BY JobAssumption DEF Kind
<1>6. HistoryFits(entries)
  BY <1>5 DEF HistoryFits
<1>7. entries # NoRecord
  BY <1>5, AbsenceAssumption, Zenon
<1>8. Tells(id, job, entries, retried)
  <2>1. Explains(entries, job)
    BY <1>3, Zenon DEF Explains
  <2>2. ClaimsAreCounted /\ << >> \in Seq(Kind) /\ "Submitted" \in Kind
    BY DEF JobCore, Kind
  <2>3. entries = Append(<< >>, "Submitted")
    OBVIOUS
  <2>4. /\ Claims(Append(<< >>, "Submitted")) =
             Claims(<< >>) + (IF "Submitted" = "Claimed" THEN 1 ELSE 0)
        /\ Claims(<< >>) = 0
    BY <2>2, Zenon DEF ClaimsAreCounted
  <2>. QED
    BY <1>3, <2>1, <2>3, <2>4 DEF Tells
<1>. HIDE DEF entries
<1>9. Writes(w, id, job, entries)
  BY Zenon DEF job, entries
<1>10. CASE CommitOk(w) /\ doubted' = doubted
  <2>1. ToldOK'
    BY <1>1, <1>10, Zenon DEF ToldOK
  <2>. QED
    BY <1>4, <1>6, <1>7, <1>8, <1>9, <1>10, <2>1, CommitOkFits, Zenon
<1>11. CASE CommitInDoubt(w) /\ doubted' = doubted \cup {id}
  BY <1>1, <1>4, <1>6, <1>7, <1>9, <1>11, CommitInDoubtFits, Zenon DEF ToldOK
<1>. QED
  BY <1>10, <1>11, Zenon DEF Persisted

-----------------------------------------------------------------------------
(* Jobs: the steps. A step that rewrites a job neither creates nor revives *)
(* one, retry_job aside, and leaves keys and sources alone.                *)

Rewritten ==
  /\ doubted \subseteq doubted' /\ retried \subseteq retried'
  /\ \A n \in Maps' : \E m \in Maps :
       /\ \A k \in SourceKeys : n[k] = m[k]
       /\ \A x \in JobId :
            /\ n[JobKey(x)] = NoRecord <=> m[JobKey(x)] = NoRecord
            /\ n[JobKey(x)] # NoRecord =>
                 \E o \in Maps : o[JobKey(x)] # NoRecord /\ n[JobKey(x)].spec = o[JobKey(x)].spec
  /\ \A k \in SourceKeys : mem'[k] = mem[k]
  /\ \A x \in JobId :
       /\ mem'[JobKey(x)] = NoRecord <=> mem[JobKey(x)] = NoRecord
       /\ mem'[JobKey(x)] # NoRecord =>
            /\ mem'[JobKey(x)].spec = mem[JobKey(x)].spec
            /\ Active(mem'[JobKey(x)]) => Active(mem[JobKey(x)]) \/ x \in retried'

LEMMA SourceKeysAreKeys ==
  /\ SourceKeys \subseteq RecordKey
  /\ \A x \in JobId : JobKey(x) \notin SourceKeys /\ HistoryKey(x) \notin SourceKeys
BY SourceAssumption, Zenon DEF SourceKeys, JobKey, HistoryKey

LEMMA RewriteMaps ==
  ASSUME JobCore, NEW id \in JobId, NEW job \in JobRecord, NEW entries, NEW w,
         Writes(w, id, job, entries), DOMAIN w \subseteq {JobKey(id), HistoryKey(id)},
         mem[JobKey(id)] # NoRecord, job.spec = mem[JobKey(id)].spec,
         Active(job) => Active(mem[JobKey(id)]) \/ id \in retried',
         Persisted(id, w), retried \subseteq retried'
  PROVE  Rewritten
<1>0. doubted \subseteq doubted' /\ (CommitOk(w) \/ CommitInDoubt(w))
  BY Zenon DEF Persisted
<1>1. /\ mem \in Maps /\ Newest \in Maps /\ MediumOK
      /\ Newest[JobKey(id)] # NoRecord
  BY NewestIsAMap, Zenon DEF JobCore, Undoubted
<1>2. job # NoRecord
  BY AbsenceAssumption, Zenon
<1>3. ASSUME NEW m \in {mem, Newest}
      PROVE  /\ \A k \in SourceKeys : Written(m, w)[k] = m[k]
             /\ Written(m, w)[JobKey(id)] = job
             /\ \A x \in JobId \ {id} : Written(m, w)[JobKey(x)] = m[JobKey(x)]
  <2>1. \A k \in SourceKeys : Written(m, w)[k] = m[k]
    BY SourceKeysAreKeys, Zenon DEF Written
  <2>. QED
    BY <2>1, WrittenJob
<1>4. ASSUME NEW m \in {mem, Newest}
      PROVE  /\ \A k \in SourceKeys : Written(m, w)[k] = m[k]
             /\ \A x \in JobId :
                  /\ Written(m, w)[JobKey(x)] = NoRecord <=> m[JobKey(x)] = NoRecord
                  /\ Written(m, w)[JobKey(x)] # NoRecord =>
                       \E o \in Maps : /\ o[JobKey(x)] # NoRecord
                                       /\ Written(m, w)[JobKey(x)].spec = o[JobKey(x)].spec
  BY <1>1, <1>2, <1>3, SMTT(30)
<1>5. CASE CommitOk(w)
  <2>1. mem' = Written(mem, w) /\ Maps' = {Written(mem, w), Written(Newest, w)}
    BY <1>5, MapsAfterOk, Zenon
  <2>2. \A x \in JobId :
          /\ mem'[JobKey(x)] = NoRecord <=> mem[JobKey(x)] = NoRecord
          /\ mem'[JobKey(x)] # NoRecord =>
               /\ mem'[JobKey(x)].spec = mem[JobKey(x)].spec
               /\ Active(mem'[JobKey(x)]) => Active(mem[JobKey(x)]) \/ x \in retried'
    BY <1>2, <1>3, <2>1, Zenon
  <2>. QED
    BY <1>0, <1>1, <1>4, <2>1, <2>2 DEF Rewritten
<1>6. CASE CommitInDoubt(w)
  <2>1. mem' = mem /\ Maps' = Maps \cup {Written(Newest, w)}
    BY <1>1, <1>6, MapsAfterDoubt, Zenon
  <2>. QED
    BY <1>0, <1>1, <1>4, <2>1 DEF Rewritten
<1>. QED
  BY <1>0, <1>5, <1>6, Zenon

LEMMA RewriteWithHistory ==
  ASSUME JobCore, NEW id \in JobId, NEW job \in JobRecord, NEW kind \in Kind, HistoryLeft(id),
         mem[JobKey(id)] # NoRecord, job.spec = mem[JobKey(id)].spec,
         Active(job) => Active(mem[JobKey(id)]) \/ id \in retried',
         Persisted(id, PersistJobWithHistory(id, job, kind)), retried \subseteq retried'
  PROVE  Rewritten
<1>. DEFINE entries == Append(Entries(id), kind)
            w == PersistJobWithHistory(id, job, kind)
<1>1. Writes(w, id, job, entries) /\ DOMAIN w \subseteq {JobKey(id), HistoryKey(id)}
  BY PersistWrites, Zenon
<1>. HIDE DEF w, entries
<1>2. Persisted(id, w)
  BY Zenon DEF w
<1>. QED
  BY <1>1, <1>2, RewriteMaps, Zenon

(* A present job is a job record.                                          *)
LEMMA PresentIsJob ==
  ASSUME JobCore, NEW id \in Present
  PROVE  /\ id \in JobId /\ Job(id) = mem[JobKey(id)] /\ mem[JobKey(id)] # NoRecord
         /\ mem[JobKey(id)] \in JobRecord
<1>1. id \in JobId /\ Job(id) = mem[JobKey(id)] /\ mem[JobKey(id)] # NoRecord /\ mem \in Maps
  BY Zenon DEF Present, Job, JobKey, Maps
<1>. QED
  BY <1>1, PresentFits, Zenon DEF JobFits

LEMMA SettleKeeps ==
  ASSUME JobInv, NEW r \in receipts, NEW job, Kept(Job(r.id), job),
         NEW kind \in Kind \ {"Claimed"}, Explains(<<kind>>, job),
         NEW nowEnded, Settle(r, job, kind, nowEnded),
         nowEnded = {} \/ (nowEnded = {r.id} /\ job.state \in {"Completed", "Cancelled"})
  PROVE  JobInv' /\ Rewritten
<1>. DEFINE id == r.id
            w == PersistJobWithHistory(id, job, kind)
<1>1. JobCore /\ id \in Present /\ Job(id).state = "Leased"
      /\ Job(id).lease_generation = r.generation
  BY Zenon DEF JobInv, Settle, ValidateJobLease
<1>2. /\ id \in JobId /\ Job(id) = mem[JobKey(id)] /\ mem[JobKey(id)] # NoRecord
      /\ Active(mem[JobKey(id)]) /\ HistoryLeft(id)
  BY <1>1, PresentIsJob, Zenon DEF Active, Settle
<1>3. call' = NoCall /\ retried' = retried
  BY Zenon DEF Settle, Commit
<1>. HIDE DEF w
<1>4. \/ /\ CommitOk(w) /\ doubted' = doubted /\ ended' = ended \cup nowEnded
         /\ settled' = settled \cup {[id |-> r.id, by |-> r.worker, holder |-> holder[r.id]]}
         /\ UNCHANGED <<receipts, holder>>
      \/ /\ CommitInDoubt(w) /\ doubted' = doubted \cup {id}
         /\ UNCHANGED <<receipts, holder, settled, ended>>
  BY Zenon DEF Settle, Commit, w
<1>5. JobCore'
  <2>1. EndsAtMost(id, job, w)
    BY <1>4, Zenon DEF EndsAtMost
  <2>2. UNCHANGED <<receipts, holder, retried>>
    BY <1>3, <1>4, Zenon
  <2>. QED
    BY <1>1, <1>2, <2>1, <2>2, SameLife, Zenon DEF w
<1>6. Rewritten
  <2>1. Persisted(id, w) /\ retried \subseteq retried'
    BY <1>3, <1>4, Zenon DEF Persisted
  <2>2. job \in JobRecord /\ job.spec = mem[JobKey(id)].spec
    BY <1>2, Zenon DEF Kept
  <2>. QED
    BY <1>1, <1>2, <2>1, <2>2, RewriteWithHistory, Zenon DEF w
<1>7. SettledByHolder'
  <2>1. r.worker = holder[r.id] \/ r.id \in retried
    <3>1. JobFits(id, mem[JobKey(id)], receipts, holder, ended, retried)
      BY <1>1, <1>2, PresentFits, Zenon DEF Maps
    <3>. QED
      BY <1>1, <1>2, <3>1, Zenon DEF JobFits
  <2>2. \A s \in settled : s.by = s.holder \/ s.id \in retried
    BY Zenon DEF JobInv, SettledByHolder
  <2>. QED
    BY <1>3, <1>4, <2>1, <2>2 DEF SettledByHolder
<1>. QED
  BY <1>3, <1>5, <1>6, <1>7, Zenon DEF JobInv, JobCallOK

LEMMA ValidIsPresent ==
  ASSUME JobInv, NEW r, ValidateJobLease(r)
  PROVE  /\ JobCore /\ r.id \in Present /\ r.id \in JobId
         /\ Job(r.id) = mem[JobKey(r.id)] /\ Job(r.id) \in JobRecord
         /\ mem[JobKey(r.id)] # NoRecord /\ Job(r.id).state = "Leased"
BY PresentIsJob, Zenon DEF JobInv, ValidateJobLease

LEMMA CompleteKeeps ==
  ASSUME JobInv, NEW r \in receipts, CompleteJob(r)
  PROVE  JobInv' /\ Rewritten
<1>. DEFINE job == [Job(r.id) EXCEPT !.state = "Completed", !.lease_until_ms = 0]
<1>1. Settle(r, job, "Completed", {r.id}) /\ ValidateJobLease(r)
  BY Zenon DEF CompleteJob, Settle
<1>2. Job(r.id) \in JobRecord
  BY <1>1, ValidIsPresent, Zenon
<1>3. Kept(Job(r.id), job) /\ job.state = "Completed"
  BY <1>2, EndedJob, Zenon
<1>. HIDE DEF job
<1>4. "Completed" \in Kind \ {"Claimed"} /\ Explains(<<"Completed">>, job)
  BY <1>3, Zenon DEF Kind, Explains
<1>. QED
  BY <1>1, <1>3, <1>4, SettleKeeps, Zenon

LEMMA DeadKeeps ==
  ASSUME JobInv, NEW r \in receipts, Settle(r, Dead(Job(r.id)), "Dead", {})
  PROVE  JobInv' /\ Rewritten
<1>1. Job(r.id) \in JobRecord
  BY ValidIsPresent, Zenon DEF Settle
<1>2. Kept(Job(r.id), Dead(Job(r.id))) /\ Dead(Job(r.id)).state = "Dead"
  BY <1>1, DeadJob, Zenon
<1>3. "Dead" \in Kind \ {"Claimed"} /\ Explains(<<"Dead">>, Dead(Job(r.id)))
  BY <1>2, Zenon DEF Kind, Explains
<1>. QED
  BY <1>2, <1>3, SettleKeeps, Zenon

LEMMA ReadyKeeps ==
  ASSUME JobInv, NEW r \in receipts, NEW at \in Time,
         Settle(r, Ready(Job(r.id), at), "RetryScheduled", {})
  PROVE  JobInv' /\ Rewritten
<1>. DEFINE job == Ready(Job(r.id), at)
<1>1. Job(r.id) \in JobRecord
  BY ValidIsPresent, Zenon DEF Settle
<1>2. Kept(Job(r.id), job) /\ job.state = "Ready"
  BY <1>1, ReadyJob, Zenon
<1>3. "RetryScheduled" \in Kind \ {"Claimed"} /\ Explains(<<"RetryScheduled">>, job)
  BY <1>2, Zenon DEF Kind, Explains
<1>. HIDE DEF job
<1>4. Settle(r, job, "RetryScheduled", {})
  BY Zenon DEF job
<1>. QED
  BY <1>2, <1>3, <1>4, SettleKeeps, Zenon

(* The delay before a retry is a time span.                                *)
LEMMA DelayIsNat ==
  ASSUME NEW id \in JobId, NEW job \in JobRecord
  PROVE  RetryDelayMs(id, job) \in Nat
<1>. DEFINE times == IF job.attempts > 1 THEN job.attempts ELSE 1
            base == job.spec.retry_backoff_ms * times
            seed == (JitterSeed[id] + job.attempts) % 256
            jitter == 91 + (seed % 20)
<1>1. job.attempts \in Nat /\ job.spec.retry_backoff_ms \in Nat /\ JitterSeed[id] \in Nat
  BY JobFields, SpecFields, JobAssumption
<1>2. times \in Nat
  BY <1>1, Zenon
<1>3. base \in Nat
  <2>. HIDE DEF times
  <2>1. \A a, b \in Nat : a * b \in Nat
    OBVIOUS
  <2>. QED
    BY <1>1, <1>2, <2>1, Zenon
<1>4. jitter \in Nat
  BY <1>1
<1>. HIDE DEF base, jitter
<1>5. base * jitter \in Nat
  BY <1>3, <1>4
<1>6. (base * jitter) \div 100 \in Nat
  <2>. DEFINE p == base * jitter
  <2>1. p \in Nat
    BY <1>5, Zenon
  <2>. HIDE DEF p
  <2>2. p \div 100 \in Nat
    BY <2>1
  <2>. QED
    BY <2>2, Zenon DEF p
<1>. QED
  BY <1>6, Zenon DEF RetryDelayMs, base, jitter

LEMMA FailKeeps ==
  ASSUME JobInv, NEW r \in receipts, NEW now \in Time, FailJob(r, now)
  PROVE  JobInv' /\ Rewritten
<1>. DEFINE at == now + RetryDelayMs(r.id, Job(r.id))
<1>1. CASE Settle(r, Dead(Job(r.id)), "Dead", {})
  BY <1>1, DeadKeeps, Zenon
<1>2. CASE at <= MaxTime /\ Settle(r, Ready(Job(r.id), at), "RetryScheduled", {})
  <2>1. Job(r.id) \in JobRecord /\ r.id \in JobId
    BY <1>2, ValidIsPresent, Zenon DEF Settle
  <2>2. at \in Nat
    BY <2>1, DelayIsNat, TimeIsNat
  <2>3. at \in Time
    BY <1>2, <2>2, TimeIsNat, Zenon
  <2>. HIDE DEF at
  <2>. QED
    BY <1>2, <2>3, ReadyKeeps, Zenon
<1>. QED
  BY <1>1, <1>2, Zenon DEF FailJob

LEMMA ReleaseKeeps ==
  ASSUME JobInv, NEW r \in receipts, NEW now \in Time, ReleaseJob(r, now)
  PROVE  JobInv' /\ Rewritten
BY ReadyKeeps, Zenon DEF ReleaseJob

LEMMA HeartbeatKeeps ==
  ASSUME JobInv, NEW r \in receipts, NEW until \in Time, HeartbeatJob(r, until)
  PROVE  JobInv' /\ Rewritten
<1>. DEFINE id == r.id
            job == [Job(id) EXCEPT !.lease_until_ms = until]
            w == PersistJob(id, job)
<1>1. /\ JobCore /\ id \in JobId /\ Job(id) = mem[JobKey(id)] /\ Job(id) \in JobRecord
      /\ mem[JobKey(id)] # NoRecord /\ Job(id).state = "Leased"
  BY ValidIsPresent, Zenon DEF HeartbeatJob
<1>2. job \in JobRecord /\ job.state = Job(id).state /\ job.spec = Job(id).spec
  BY <1>1, BeatenJob, Zenon DEF Kept
<1>3. DOMAIN w = {JobKey(id)} /\ Writes(w, id, job, NoRecord)
  BY Zenon DEF PersistJob, Writes, JobKey, HistoryKey
<1>. HIDE DEF w
<1>4. /\ call' = NoCall /\ UNCHANGED <<receipts, holder, settled, ended, retried>> /\ Persisted(id, w)
  BY Zenon DEF HeartbeatJob, Commit, Quiet, Persisted, w
<1>5. JobCore'
  BY <1>1, <1>4, HeartbeatFits, Zenon DEF w
<1>6. retried \subseteq retried'
  BY <1>4, Zenon
<1>. HIDE DEF job
<1>7. Rewritten
  BY <1>1, <1>2, <1>3, <1>4, <1>6, RewriteMaps, Zenon DEF Active
<1>. QED
  BY <1>4, <1>5, <1>7, Zenon DEF JobInv, JobCallOK, SettledByHolder

LEMMA RetryKeeps ==
  ASSUME JobInv, NEW id \in JobId, NEW now \in Time, RetryJob(id, now)
  PROVE  JobInv' /\ Rewritten
<1>. DEFINE job == [Ready(Job(id), now) EXCEPT !.attempts = 0, !.lease_generation = 0]
            w == PersistJobWithHistory(id, job, "RetryScheduled")
<1>1. /\ JobCore /\ id \in Present /\ Job(id).state = "Dead" /\ HistoryLeft(id)
      /\ retried' = retried \cup {id}
  BY Zenon DEF JobInv, RetryJob
<1>2. /\ Job(id) = mem[JobKey(id)] /\ Job(id) \in JobRecord /\ mem[JobKey(id)] # NoRecord
      /\ "RetryScheduled" \in Kind
  BY <1>1, PresentIsJob, Zenon DEF Kind
<1>3. job \in JobRecord /\ job.spec = Job(id).spec
  BY <1>2, RevivedJob, Zenon
<1>. HIDE DEF w
<1>4. /\ call' = NoCall /\ UNCHANGED <<receipts, holder, settled, ended>> /\ Persisted(id, w)
  BY Zenon DEF RetryJob, Commit, Quiet, Persisted, w
<1>5. JobCore'
  BY <1>1, <1>2, <1>4, RetryFits, Zenon DEF w
<1>6. retried \subseteq retried' /\ id \in retried'
  BY <1>1, Zenon
<1>. HIDE DEF job
<1>7. Rewritten
  BY <1>1, <1>2, <1>3, <1>4, <1>6, RewriteWithHistory, Zenon DEF w
<1>. QED
  BY <1>1, <1>4, <1>5, <1>7, Zenon DEF JobInv, JobCallOK, SettledByHolder

LEMMA CancelKeeps ==
  ASSUME JobInv, NEW id \in JobId, CancelJob(id)
  PROVE  JobInv' /\ Rewritten
<1>. DEFINE job == [Job(id) EXCEPT !.state = "Cancelled", !.lease_until_ms = 0]
            w == PersistJobWithHistory(id, job, "Cancelled")
<1>1. /\ JobCore /\ id \in Present /\ Active(Job(id)) /\ HistoryLeft(id) /\ retried' = retried
  BY Zenon DEF JobInv, CancelJob
<1>2. /\ Job(id) = mem[JobKey(id)] /\ Job(id) \in JobRecord /\ mem[JobKey(id)] # NoRecord
  BY <1>1, PresentIsJob, Zenon
<1>3. Kept(Job(id), job) /\ job.state = "Cancelled"
  BY <1>2, EndedJob, Zenon
<1>. HIDE DEF w
<1>4. /\ call' = NoCall /\ UNCHANGED <<receipts, holder, settled>>
      /\ EndsAtMost(id, job, w) /\ Persisted(id, w)
  BY <1>3, Zenon DEF CancelJob, Commit, EndsAtMost, Persisted, w
<1>5. "Cancelled" \in Kind \ {"Claimed"} /\ Explains(<<"Cancelled">>, job)
  BY <1>3, Zenon DEF Kind, Explains
<1>. HIDE DEF job
<1>6. JobCore'
  BY <1>1, <1>2, <1>3, <1>4, <1>5, SameLife, Zenon DEF w
<1>7. job \in JobRecord /\ job.spec = Job(id).spec
  BY <1>3, Zenon DEF Kept
<1>8. Rewritten
  BY <1>1, <1>2, <1>4, <1>5, <1>7, RewriteWithHistory, Zenon DEF w
<1>. QED
  BY <1>1, <1>4, <1>6, <1>8, Zenon DEF JobInv, JobCallOK, SettledByHolder

(* Steps that change no record and no history keep all but the call.       *)
LEMMA SameRecords ==
  ASSUME JobCore, SettledByHolder, UNCHANGED <<mem, medium, history>>
  PROVE  JobCore' /\ SettledByHolder' /\ Rewritten
<1>1. /\ UNCHANGED <<receipts, holder, settled, ended, retried, doubted>>
      /\ Maps' = Maps /\ MediumOK' /\ Newest' = Newest /\ mem' = mem
  BY Zenon DEF history, Maps, MediumOK, JobCore, Newest
<1>2. JobCore'
  BY <1>1 DEF JobCore, Undoubted, ToldOK
<1>3. SettledByHolder'
  BY <1>1, Zenon DEF SettledByHolder
<1>4. Rewritten
  BY <1>1, Zenon DEF Rewritten
<1>. QED
  BY <1>2, <1>3, <1>4, Zenon

LEMMA ClaimCallKeeps ==
  ASSUME JobInv, NEW worker \in Worker, NEW now \in Time, NEW lease \in Time,
         NEW handlers, ClaimJob(worker, now, lease, handlers)
  PROVE  JobInv' /\ Rewritten
<1>. DEFINE expired == Expired(now, handlers)
            best == Best(Candidates(now, handlers))
<1>0. JobCore /\ SettledByHolder
  BY Zenon DEF JobInv
<1>1. /\ UNCHANGED <<mem, medium, history>> /\ now + lease <= MaxTime
      /\ call' = [op |-> "claim", ids |-> expired, best |-> best,
                  worker |-> worker, now |-> now, until |-> now + lease]
  BY Zenon DEF ClaimJob
<1>2. JobCore' /\ SettledByHolder' /\ Rewritten /\ mem' = mem
  BY <1>0, <1>1, SameRecords, Zenon
<1>3. expired \subseteq Scanned(now, handlers) /\ best \subseteq Scanned(now, handlers)
      /\ expired \cap best = {}
  BY Zenon DEF Expired, Best, Candidates
<1>4. \A id \in Scanned(now, handlers) : id \in Present /\ Active(Job(id))
  BY Zenon DEF Scanned, Reclaimable, Active
<1>5. now + lease \in Time
  BY <1>1, TimeIsNat
<1>6. \A id \in expired \cup best :
        id \in JobId /\ mem[JobKey(id)] # NoRecord /\ Active(mem[JobKey(id)])
  BY <1>0, <1>3, <1>4, PresentIsJob, Zenon
<1>. HIDE DEF expired, best
<1>7. call' \in ClaimCall /\ call'.ids = expired /\ call'.best = best /\ call'.op = "claim"
  BY <1>1, <1>5, <1>6, Zenon DEF ClaimCall
<1>8. JobCallOK'
  BY <1>2, <1>3, <1>6, <1>7, Zenon DEF JobCallOK
<1>. QED
  BY <1>2, <1>8, Zenon DEF JobInv

LEMMA ReleaseCallKeeps ==
  ASSUME JobInv, NEW now \in Time, ReleaseExpiredJobs(now)
  PROVE  JobInv' /\ Rewritten
<1>. DEFINE expired == {id \in Present : Job(id).state = "Leased" /\ Job(id).lease_until_ms <= now}
<1>0. JobCore /\ SettledByHolder
  BY Zenon DEF JobInv
<1>1. /\ UNCHANGED <<mem, medium, history>>
      /\ call' = [op |-> "release", ids |-> expired, now |-> now]
  BY Zenon DEF ReleaseExpiredJobs
<1>2. JobCore' /\ SettledByHolder' /\ Rewritten /\ mem' = mem
  BY <1>0, <1>1, SameRecords, Zenon
<1>3. \A id \in expired :
        id \in JobId /\ mem[JobKey(id)] # NoRecord /\ mem[JobKey(id)].state = "Leased"
  BY <1>0, PresentIsJob, Zenon
<1>. HIDE DEF expired
<1>4. call' \in ReleaseCall /\ call'.ids = expired /\ call'.op = "release"
  BY <1>1, <1>3, Zenon DEF ReleaseCall
<1>5. JobCallOK'
  BY <1>2, <1>3, <1>4, Zenon DEF JobCallOK
<1>. QED
  BY <1>2, <1>5, Zenon DEF JobInv

LEMMA CallFailsKeeps ==
  ASSUME JobInv, CallFails
  PROVE  JobInv' /\ Rewritten
BY SameRecords, Zenon DEF JobInv, CallFails, JobCallOK

LEMMA OthersStay ==
  ASSUME JobCore, NEW id \in JobId, NEW job, NEW kind \in Kind, HistoryLeft(id),
         CommitOk(PersistJobWithHistory(id, job, kind))
  PROVE  \A x \in JobId \ {id} : mem'[JobKey(x)] = mem[JobKey(x)]
<1>. DEFINE w == PersistJobWithHistory(id, job, kind)
<1>1. Writes(w, id, job, Append(Entries(id), kind))
  BY PersistWrites, Zenon
<1>. HIDE DEF w
<1>2. mem' = Written(mem, w)
  BY MapsAfterOk, Zenon DEF w
<1>. QED
  BY <1>1, <1>2, WrittenJob

LEMMA ExpireKeeps ==
  ASSUME JobInv, call # NoCall, call.op = "claim", ExpireStep
  PROVE  JobInv' /\ Rewritten
<1>0. /\ JobCore /\ SettledByHolder /\ call \in ClaimCall
      /\ call.ids \cap call.best = {}
      /\ \A id \in call.ids \cup call.best :
           mem[JobKey(id)] # NoRecord /\ Active(mem[JobKey(id)])
  BY Zenon DEF JobInv, JobCallOK
<1>1. PICK id \in FirstOf(call.ids) :
        /\ HistoryLeft(id)
        /\ Commit(id, PersistJobWithHistory(id, Dead(Job(id)), "Dead"),
                  /\ call' = IF (call.ids \ {id}) \cup call.best = {} THEN NoCall
                             ELSE [call EXCEPT !.ids = call.ids \ {id}]
                  /\ Quiet)
        /\ UNCHANGED retried
  BY Zenon DEF ExpireStep
<1>. DEFINE rest == call.ids \ {id}
            w == PersistJobWithHistory(id, Dead(Job(id)), "Dead")
<1>2. /\ id \in JobId /\ id \in call.ids /\ mem[JobKey(id)] # NoRecord /\ Active(mem[JobKey(id)])
      /\ Job(id) = mem[JobKey(id)] /\ mem[JobKey(id)] \in JobRecord
  <2>1. id \in call.ids /\ id \in JobId /\ Job(id) = mem[JobKey(id)]
    BY <1>0, Zenon DEF FirstOf, ClaimCall, Job, JobKey
  <2>2. id \in Present
    BY <1>0, <2>1, Zenon DEF Present
  <2>. QED
    BY <1>0, <2>1, <2>2, PresentIsJob, Zenon
<1>3. Kept(Job(id), Dead(Job(id))) /\ Dead(Job(id)).state = "Dead"
  BY <1>2, DeadJob, Zenon
<1>4. "Dead" \in Kind \ {"Claimed"} /\ Explains(<<"Dead">>, Dead(Job(id)))
  BY <1>3, Zenon DEF Kind, Explains
<1>. HIDE DEF w
<1>5. /\ UNCHANGED <<receipts, holder, settled, ended, retried>>
      /\ \/ /\ CommitOk(w) /\ doubted' = doubted
            /\ call' = IF rest \cup call.best = {} THEN NoCall ELSE [call EXCEPT !.ids = rest]
         \/ CommitInDoubt(w) /\ doubted' = doubted \cup {id} /\ call' = NoCall
  BY <1>1, Zenon DEF Commit, Quiet, w
<1>6. EndsAtMost(id, Dead(Job(id)), w) /\ Persisted(id, w) /\ HistoryLeft(id)
  BY <1>1, <1>5, Zenon DEF EndsAtMost, Persisted
<1>7. JobCore'
  BY <1>0, <1>2, <1>3, <1>4, <1>5, <1>6, SameLife, Zenon DEF w
<1>8. Rewritten
  <2>1. /\ Dead(Job(id)) \in JobRecord /\ Dead(Job(id)).spec = mem[JobKey(id)].spec
        /\ ~Active(Dead(Job(id))) /\ retried \subseteq retried'
    BY <1>2, <1>3, <1>5, Zenon DEF Kept, Active
  <2>. QED
    BY <1>0, <1>2, <1>4, <1>6, <2>1, RewriteWithHistory, Zenon DEF w
<1>9. JobCallOK'
  <2>1. CASE call' = NoCall
    BY <2>1, Zenon DEF JobCallOK
  <2>2. CASE CommitOk(w) /\ call' = [call EXCEPT !.ids = rest]
    <3>1. \A x \in JobId \ {id} : mem'[JobKey(x)] = mem[JobKey(x)]
      BY <1>0, <1>1, <1>2, <1>4, <2>2, OthersStay, Zenon DEF w
    <3>2. /\ call' \in ClaimCall /\ call'.op = "claim" /\ call'.ids = rest
          /\ call'.best = call.best
      BY <1>0, <2>2, Zenon DEF ClaimCall
    <3>3. call.ids \subseteq JobId /\ call.best \subseteq JobId
      BY <1>0, Zenon DEF ClaimCall
    <3>4. \A x \in rest \cup call.best : x \in JobId \ {id} /\ x \in call.ids \cup call.best
      BY <1>0, <1>2, <3>3, Zenon
    <3>5. rest \cap call.best = {}
      BY <1>0, Zenon
    <3>. HIDE DEF rest
    <3>6. \A x \in rest \cup call.best :
            mem'[JobKey(x)] # NoRecord /\ Active(mem'[JobKey(x)])
      BY <1>0, <3>1, <3>4, Zenon
    <3>. QED
      BY <3>2, <3>5, <3>6, Zenon DEF JobCallOK
  <2>. QED
    BY <1>5, <2>1, <2>2, Zenon
<1>10. SettledByHolder'
  BY <1>0, <1>5, Zenon DEF SettledByHolder
<1>. QED
  BY <1>7, <1>8, <1>9, <1>10, Zenon DEF JobInv

LEMMA ClaimKeeps ==
  ASSUME JobInv, call # NoCall, call.op = "claim", ClaimStep
  PROVE  JobInv' /\ Rewritten
<1>0. /\ JobCore /\ SettledByHolder /\ call \in ClaimCall
      /\ \A id \in call.ids \cup call.best :
           mem[JobKey(id)] # NoRecord /\ Active(mem[JobKey(id)])
  BY Zenon DEF JobInv, JobCallOK
<1>1. PICK id \in call.best :
        LET job == Claimed(Job(id), call.until)
            leased == job.state = "Leased"
        IN  /\ HistoryLeft(id)
            /\ Commit(id, PersistJobWithHistory(id, job, IF leased THEN "Claimed" ELSE "Dead"),
                  /\ receipts' = IF leased
                        THEN receipts \cup {[worker |-> call.worker, id |-> id,
                                             generation |-> job.lease_generation]}
                        ELSE receipts
                  /\ holder' = IF leased THEN [holder EXCEPT ![id] = call.worker] ELSE holder
                  /\ call' = NoCall
                  /\ UNCHANGED <<settled, ended>>)
            /\ UNCHANGED retried
  BY Zenon DEF ClaimStep
<1>2. /\ id \in JobId /\ mem[JobKey(id)] # NoRecord /\ Active(mem[JobKey(id)])
      /\ Job(id) = mem[JobKey(id)] /\ mem[JobKey(id)] \in JobRecord
      /\ call.until \in Time /\ call.worker \in Worker
  <2>1. /\ id \in JobId /\ Job(id) = mem[JobKey(id)]
        /\ call.until \in Time /\ call.worker \in Worker
    BY <1>0, Zenon DEF ClaimCall, Job, JobKey
  <2>2. id \in Present
    BY <1>0, <2>1, Zenon DEF Present
  <2>. QED
    BY <1>0, <2>1, <2>2, PresentIsJob, Zenon
<1>. DEFINE job == Claimed(mem[JobKey(id)], call.until)
            kind == IF job.state = "Leased" THEN "Claimed" ELSE "Dead"
            w == PersistJobWithHistory(id, job, kind)
<1>3. job \in JobRecord /\ job.spec = mem[JobKey(id)].spec
  BY <1>2, ClaimedJob, Zenon
<1>4. kind \in Kind
  BY Zenon DEF Kind
<1>. HIDE DEF w
<1>5. /\ HistoryLeft(id) /\ call' = NoCall /\ UNCHANGED <<settled, ended, retried>>
      /\ Serves(id, job, call.worker, w)
  BY <1>1, <1>2, Zenon DEF Commit, Serves, Receipts, Holders, w
<1>. HIDE DEF job
<1>6. JobCore'
  BY <1>0, <1>2, <1>5, ClaimFits, Zenon DEF w, job
<1>7. Persisted(id, w) /\ retried \subseteq retried'
  BY <1>5, Zenon DEF Serves, Persisted
<1>. HIDE DEF kind
<1>8. Rewritten
  BY <1>0, <1>2, <1>3, <1>4, <1>5, <1>7, RewriteWithHistory, Zenon DEF w
<1>9. SettledByHolder' /\ JobCallOK'
  BY <1>0, <1>5, Zenon DEF SettledByHolder, JobCallOK
<1>. QED
  BY <1>6, <1>8, <1>9, Zenon DEF JobInv

LEMMA ReaperKeeps ==
  ASSUME JobInv, call # NoCall, call.op = "release", ReleaseStep
  PROVE  JobInv' /\ Rewritten
<1>0. /\ JobCore /\ SettledByHolder /\ call \in ReleaseCall
      /\ \A id \in call.ids : mem[JobKey(id)] # NoRecord /\ mem[JobKey(id)].state = "Leased"
  BY Zenon DEF JobInv, JobCallOK
<1>1. PICK id \in FirstOf(call.ids) :
        LET job == Job(id)
            exhausted == job.attempts >= job.spec.max_attempts
            rest == call.ids \ {id}
        IN  /\ HistoryLeft(id)
            /\ Commit(id, PersistJobWithHistory(id,
                        IF exhausted THEN Dead(job) ELSE Ready(job, call.now),
                        IF exhausted THEN "Dead" ELSE "RetryScheduled"),
                  /\ call' = IF rest = {} THEN NoCall ELSE [call EXCEPT !.ids = rest]
                  /\ Quiet)
            /\ UNCHANGED retried
  BY Zenon DEF ReleaseStep
<1>2. /\ id \in JobId /\ id \in call.ids /\ mem[JobKey(id)] # NoRecord /\ call.now \in Time
      /\ Job(id) = mem[JobKey(id)] /\ Job(id) \in JobRecord /\ Active(mem[JobKey(id)])
  <2>1. id \in call.ids /\ id \in JobId /\ Job(id) = mem[JobKey(id)] /\ call.now \in Time
    BY <1>0, Zenon DEF FirstOf, ReleaseCall, Job, JobKey
  <2>2. id \in Present
    BY <1>0, <2>1, Zenon DEF Present
  <2>. QED
    BY <1>0, <2>1, <2>2, PresentIsJob, Zenon DEF Active
<1>. DEFINE exhausted == Job(id).attempts >= Job(id).spec.max_attempts
            job == IF exhausted THEN Dead(Job(id)) ELSE Ready(Job(id), call.now)
            kind == IF exhausted THEN "Dead" ELSE "RetryScheduled"
            rest == call.ids \ {id}
            w == PersistJobWithHistory(id, job, kind)
<1>3. /\ Kept(Job(id), job)
      /\ job.state = IF exhausted THEN "Dead" ELSE "Ready"
  <2>1. CASE exhausted
    BY <1>2, <2>1, DeadJob, Zenon
  <2>2. CASE ~exhausted
    BY <1>2, <2>2, ReadyJob, Zenon
  <2>. QED
    BY <2>1, <2>2, Zenon
<1>. HIDE DEF w
<1>5. /\ UNCHANGED <<receipts, holder, settled, ended, retried>> /\ HistoryLeft(id)
      /\ \/ /\ CommitOk(w) /\ doubted' = doubted
            /\ call' = IF rest = {} THEN NoCall ELSE [call EXCEPT !.ids = rest]
         \/ CommitInDoubt(w) /\ doubted' = doubted \cup {id} /\ call' = NoCall
  BY <1>1, Zenon DEF Commit, Quiet, w
<1>. HIDE DEF job
<1>4. kind \in Kind \ {"Claimed"} /\ Explains(<<kind>>, job)
  BY <1>3, Zenon DEF Kind, Explains
<1>. HIDE DEF kind, exhausted
<1>6. EndsAtMost(id, job, w) /\ Persisted(id, w)
  BY <1>5, Zenon DEF EndsAtMost, Persisted
<1>7. JobCore'
  BY <1>0, <1>2, <1>3, <1>4, <1>5, <1>6, SameLife, Zenon DEF w
<1>8. Rewritten
  <2>1. job \in JobRecord /\ job.spec = mem[JobKey(id)].spec /\ retried \subseteq retried'
    BY <1>2, <1>3, <1>5, Zenon DEF Kept
  <2>. QED
    BY <1>0, <1>2, <1>4, <1>5, <1>6, <2>1, RewriteWithHistory, Zenon DEF w
<1>9. JobCallOK'
  <2>1. CASE call' = NoCall
    BY <2>1, Zenon DEF JobCallOK
  <2>2. CASE CommitOk(w) /\ call' = [call EXCEPT !.ids = rest]
    <3>1. \A x \in JobId \ {id} : mem'[JobKey(x)] = mem[JobKey(x)]
      BY <1>0, <1>2, <1>4, <1>5, <2>2, OthersStay, Zenon DEF w
    <3>2. call' \in ReleaseCall /\ call'.op = "release" /\ call'.ids = rest
      BY <1>0, <2>2, Zenon DEF ReleaseCall
    <3>3. \A x \in rest : x \in JobId \ {id} /\ x \in call.ids
      BY <1>0, Zenon DEF ReleaseCall
    <3>. QED
      BY <1>0, <3>1, <3>2, <3>3, Zenon DEF JobCallOK
  <2>. QED
    BY <1>5, <2>1, <2>2, Zenon
<1>10. SettledByHolder'
  BY <1>0, <1>5, Zenon DEF SettledByHolder
<1>. QED
  BY <1>7, <1>8, <1>9, <1>10, Zenon DEF JobInv

LEMMA WorkKeeps ==
  ASSUME JobInv, WorkSteps(Time) \/ CallSteps
  PROVE  JobInv' /\ Rewritten
<1>1. CASE WorkSteps(Time)
  <2>1. CASE \E worker \in Worker, now \in Time, lease \in Time, handlers \in SUBSET Handler :
               ClaimJob(worker, now, lease, handlers)
    BY <2>1, ClaimCallKeeps, Zenon
  <2>2. CASE \E r \in receipts : CompleteJob(r)
    BY <2>2, CompleteKeeps, Zenon
  <2>3. CASE \E r \in receipts, t \in Time : HeartbeatJob(r, t) \/ FailJob(r, t) \/ ReleaseJob(r, t)
    BY <2>3, HeartbeatKeeps, FailKeeps, ReleaseKeeps, Zenon
  <2>4. CASE \E now \in Time : ReleaseExpiredJobs(now)
    BY <2>4, ReleaseCallKeeps, Zenon
  <2>5. CASE \E id \in JobId, now \in Time : RetryJob(id, now)
    BY <2>5, RetryKeeps, Zenon
  <2>6. CASE \E id \in JobId : CancelJob(id)
    BY <2>6, CancelKeeps, Zenon
  <2>. QED
    BY <1>1, <2>1, <2>2, <2>3, <2>4, <2>5, <2>6, Zenon DEF WorkSteps
<1>2. CASE CallSteps
  BY <1>2, ExpireKeeps, ClaimKeeps, ReaperKeeps, CallFailsKeeps, Zenon DEF CallSteps
<1>. QED
  BY <1>1, <1>2, Zenon

LEMMA RecoveryKeeps ==
  ASSUME JobInv, StoreSteps
  PROVE  /\ JobInv' /\ Maps' \subseteq Maps /\ call' = NoCall
         /\ UNCHANGED <<retried, doubted>>
<1>1. /\ call' = NoCall /\ (Flush \/ Restart \/ PowerLoss)
      /\ UNCHANGED <<receipts, holder, settled, ended, retried, doubted>>
  BY Zenon DEF StoreSteps, history
<1>2. /\ JobCore /\ MediumOK /\ SettledByHolder
      /\ \A x \in JobId : mem[JobKey(x)] # NoRecord => Newest[JobKey(x)] # NoRecord
  BY Zenon DEF JobInv, JobCore, Undoubted
<1>3. /\ MediumOK' /\ Maps' \subseteq Maps
      /\ (mem' = mem /\ Newest' = Newest) \/ mem' = Newest'
  BY <1>1, <1>2, MapsAfterRecovery, Zenon
<1>4. \A x \in JobId : mem'[JobKey(x)] # NoRecord => Newest'[JobKey(x)] # NoRecord
  BY <1>2, <1>3, Zenon
<1>5. JobCore'
  BY <1>1, <1>2, <1>3, <1>4, MapsFit, Zenon
<1>. QED
  BY <1>1, <1>2, <1>3, <1>5, Zenon DEF JobInv, JobCallOK, SettledByHolder

-----------------------------------------------------------------------------
(* Sources.                                                                *)

SourcesFit(m) ==
  /\ \A sid \in ScheduleId : m[<<"schedule", sid>>] \in ScheduleRecord \cup {NoRecord}
  /\ \A cid \in CronId : m[<<"cron", cid>>] \in CronRecord \cup {NoRecord}
  /\ \A tid \in TriggerId : m[<<"trigger", tid>>] \in TriggerRecord \cup {NoRecord}

(* fire_count has every fire reported.                                     *)
FiresFit(m, fired) ==
  \A tid \in TriggerId : fired[tid] > 0 =>
    m[<<"trigger", tid>>] # NoRecord /\ fired[tid] <= m[<<"trigger", tid>>].fire_count

(* Every run before next_run_ms has its job.                               *)
RunsFit(m, from, first) ==
  \A cid \in CronId, t \in CronTimes :
    /\ m[<<"cron", cid>>] # NoRecord
    /\ first[cid] <= t /\ t < m[<<"cron", cid>>].next_run_ms
    => \E id \in JobId : m[JobKey(id)] # NoRecord /\ from[id] = <<<<"cron", cid>>, t>>

(* The key of a run is that of its job only.                               *)
KeysFit(m, from) ==
  \A id \in JobId, cid \in CronId, t \in Time :
    m[JobKey(id)] # NoRecord /\ m[JobKey(id)].spec.idempotency_key = OccurrenceKey(cid, t)
    => from[id] = <<<<"cron", cid>>, t>>

(* A run for which there is a job is over, D jobs in doubt and O schedules *)
(* turned on again aside.                                                  *)
RunIsOver(m, key, at) ==
  m[key] # NoRecord /\ (m[key].enabled => at < m[key].next_run_ms)

Passed(m, from, D, O) ==
  \A id \in JobId \ D, sid \in ScheduleId, at \in Time :
    /\ m[JobKey(id)] # NoRecord
    /\ from[id] # NoOrigin /\ from[id] = <<<<"schedule", sid>>, at>>
    /\ <<"schedule", sid>> \notin O
    => RunIsOver(m, <<"schedule", sid>>, at)

(* A job that a source created is there unless its commit was in doubt.    *)
Sourced ==
  \A id \in JobId \ doubted : origin[id] # NoOrigin => mem[JobKey(id)] # NoRecord

TickCall ==
  [op : {"tick"}, ids : SUBSET ScheduleId, left : Nat \ {0}, now : Time]

CronCall == [op : {"cron"}, ids : SUBSET CronId, left : Nat \ {0}, now : Time]

AdvanceCall ==
  [op : {"cron_advance"}, ids : SUBSET CronId, left : Nat \ {0}, now : Time, cid : CronId]

SourceCallOK ==
  call # NoCall =>
    /\ call.op = "tick" =>
         /\ call \in TickCall
         /\ \A sid \in call.ids : /\ mem[<<"schedule", sid>>] # NoRecord
                                  /\ mem[<<"schedule", sid>>].enabled
                                  /\ mem[<<"schedule", sid>>].next_run_ms <= call.now
    /\ call.op = "cron" =>
         call \in CronCall /\ \A cid \in call.ids : mem[<<"cron", cid>>] # NoRecord
    /\ call.op = "cron_advance" =>
         /\ call \in AdvanceCall
         /\ \A cid \in call.ids \cup {call.cid} : mem[<<"cron", cid>>] # NoRecord
         /\ \E id \in JobId :
              /\ mem[JobKey(id)] # NoRecord
              /\ origin[id] = <<<<"cron", call.cid>>, mem[<<"cron", call.cid>>].next_run_ms>>

Origin ==
  {NoOrigin} \cup ((({"schedule"} \X ScheduleId) \cup ({"cron"} \X CronId)) \X Time)

SourcesToldOK ==
  /\ origin \in [JobId -> Origin]
  /\ firstRun \in [CronId -> Nat]
  /\ fires \in [TriggerId -> Nat]

MapSourced(m, from, first, fired, D, O) ==
  /\ SourcesFit(m) /\ FiresFit(m, fired)
  /\ RunsFit(m, from, first) /\ KeysFit(m, from) /\ Passed(m, from, D, O)

SourceCore ==
  /\ SourcesToldOK
  /\ \A m \in Maps : MapSourced(m, origin, firstRun, fires, doubted, reenabled)
  /\ Sourced
  /\ OneJobPerRun
  /\ OneActivePerKey

SourceInv == SourceCore /\ SourceCallOK

-----------------------------------------------------------------------------
(* Sources: what a map n inherits from the map m it was written over, and  *)
(* from memory.                                                            *)

LEMMA SourcesStayFit ==
  ASSUME NEW n, NEW m, SourcesFit(m),
         \A sid \in ScheduleId : \/ n[<<"schedule", sid>>] = m[<<"schedule", sid>>]
                                 \/ n[<<"schedule", sid>>] \in ScheduleRecord,
         \A cid \in CronId : \/ n[<<"cron", cid>>] = m[<<"cron", cid>>]
                             \/ n[<<"cron", cid>>] \in CronRecord,
         \A tid \in TriggerId : \/ n[<<"trigger", tid>>] = m[<<"trigger", tid>>]
                                \/ n[<<"trigger", tid>>] \in TriggerRecord
  PROVE  SourcesFit(n)
BY Zenon DEF SourcesFit

LEMMA FiresStayFit ==
  ASSUME NEW n, NEW m, NEW fired, NEW old, FiresFit(m, old),
         \A tid \in TriggerId :
           \/ n[<<"trigger", tid>>] = m[<<"trigger", tid>>] /\ fired[tid] = old[tid]
           \/ fired[tid] > 0 =>
                n[<<"trigger", tid>>] # NoRecord /\ fired[tid] <= n[<<"trigger", tid>>].fire_count
  PROVE  FiresFit(n, fired)
BY Zenon DEF FiresFit

LEMMA RunsStayFit ==
  ASSUME NEW n, NEW m, NEW o, NEW old, NEW first, RunsFit(m, old, first), RunsFit(o, old, first),
         NEW from, NEW begin,
         \A x \in JobId : m[JobKey(x)] # NoRecord \/ o[JobKey(x)] # NoRecord =>
           n[JobKey(x)] # NoRecord /\ from[x] = old[x],
         \A cid \in CronId : n[<<"cron", cid>>] # NoRecord =>
           \/ /\ begin[cid] = first[cid]
              /\ \/ n[<<"cron", cid>>] = m[<<"cron", cid>>]
                 \/ /\ o[<<"cron", cid>>] # NoRecord
                    /\ n[<<"cron", cid>>].next_run_ms = o[<<"cron", cid>>].next_run_ms
           \/ \A t \in CronTimes : begin[cid] <= t /\ t < n[<<"cron", cid>>].next_run_ms =>
                \E x \in JobId : n[JobKey(x)] # NoRecord /\ from[x] = <<<<"cron", cid>>, t>>
  PROVE  RunsFit(n, from, begin)
<1>. SUFFICES ASSUME NEW cid \in CronId, NEW t \in CronTimes, n[<<"cron", cid>>] # NoRecord,
                     begin[cid] <= t, t < n[<<"cron", cid>>].next_run_ms
              PROVE  \E x \in JobId : n[JobKey(x)] # NoRecord /\ from[x] = <<<<"cron", cid>>, t>>
  BY Zenon DEF RunsFit
<1>1. CASE begin[cid] = first[cid] /\ n[<<"cron", cid>>] = m[<<"cron", cid>>]
  <2>1. PICK x \in JobId : m[JobKey(x)] # NoRecord /\ old[x] = <<<<"cron", cid>>, t>>
    BY <1>1, Zenon DEF RunsFit
  <2>. QED
    BY <2>1, Zenon
<1>2. CASE /\ begin[cid] = first[cid] /\ o[<<"cron", cid>>] # NoRecord
           /\ n[<<"cron", cid>>].next_run_ms = o[<<"cron", cid>>].next_run_ms
  <2>1. PICK x \in JobId : o[JobKey(x)] # NoRecord /\ old[x] = <<<<"cron", cid>>, t>>
    BY <1>2, Zenon DEF RunsFit
  <2>. QED
    BY <2>1, Zenon
<1>. QED
  BY <1>1, <1>2, Zenon

KeysKept(n, m, old, from) ==
  \A x \in JobId : n[JobKey(x)] # NoRecord =>
    \/ /\ m[JobKey(x)] # NoRecord /\ from[x] = old[x]
       /\ n[JobKey(x)].spec.idempotency_key = m[JobKey(x)].spec.idempotency_key
    \/ n[JobKey(x)].spec.idempotency_key \notin CronId \X Time
    \/ \E c \in CronId, u \in Time :
         /\ n[JobKey(x)].spec.idempotency_key = <<c, u>>
         /\ from[x] = <<<<"cron", c>>, u>>

LEMMA KeysStayFit ==
  ASSUME NEW n, NEW m, NEW old, KeysFit(m, old), NEW from, KeysKept(n, m, old, from)
  PROVE  KeysFit(n, from)
<1>. SUFFICES ASSUME NEW x \in JobId, NEW cid \in CronId, NEW t \in Time, n[JobKey(x)] # NoRecord,
                     n[JobKey(x)].spec.idempotency_key = <<cid, t>>
              PROVE  from[x] = <<<<"cron", cid>>, t>>
  BY Zenon DEF KeysFit, OccurrenceKey
<1>1. CASE /\ m[JobKey(x)] # NoRecord /\ from[x] = old[x]
           /\ n[JobKey(x)].spec.idempotency_key = m[JobKey(x)].spec.idempotency_key
  BY <1>1, Zenon DEF KeysFit, OccurrenceKey
<1>2. <<cid, t>> \in CronId \X Time
  BY Zenon
<1>3. ASSUME NEW c \in CronId, NEW u \in Time, n[JobKey(x)].spec.idempotency_key = <<c, u>>,
             from[x] = <<<<"cron", c>>, u>>
      PROVE  from[x] = <<<<"cron", cid>>, t>>
  BY <1>3
<1>. QED
  BY <1>1, <1>2, <1>3, Zenon DEF KeysKept

(* The jobs of n are those of m and o, or of a run that is over; and its   *)
(* schedules, P aside, are those of m or as far as those of o.             *)
JobsKept(n, m, o, old, from, E) ==
  \A x \in JobId \ E : n[JobKey(x)] # NoRecord =>
    \/ m[JobKey(x)] # NoRecord /\ o[JobKey(x)] # NoRecord /\ from[x] = old[x]
    \/ from[x] = NoOrigin
    \/ from[x][1][1] = "schedule" => RunIsOver(n, from[x][1], from[x][2])

SchedulesKept(n, m, o, P) ==
  \A sid \in ScheduleId : <<"schedule", sid>> \notin P =>
    \/ n[<<"schedule", sid>>] = m[<<"schedule", sid>>]
    \/ m[<<"schedule", sid>>] = NoRecord
    \/ o[<<"schedule", sid>>] = NoRecord
    \/ /\ n[<<"schedule", sid>>] \in ScheduleRecord
       /\ o[<<"schedule", sid>>] \in ScheduleRecord
       /\ n[<<"schedule", sid>>].enabled => o[<<"schedule", sid>>].enabled
       /\ o[<<"schedule", sid>>].next_run_ms <= n[<<"schedule", sid>>].next_run_ms

LEMMA PassedStays ==
  ASSUME NEW n, NEW m, NEW o, NEW old, NEW D, NEW O, Passed(m, old, D, O), Passed(o, old, D, O),
         NEW from, NEW E, NEW P, D \subseteq E, O \subseteq P,
         JobsKept(n, m, o, old, from, E), SchedulesKept(n, m, o, P)
  PROVE  Passed(n, from, E, P)
<1>. SUFFICES ASSUME NEW x \in JobId \ E, NEW sid \in ScheduleId, NEW at \in Time,
                     n[JobKey(x)] # NoRecord, from[x] # NoOrigin,
                     from[x] = <<<<"schedule", sid>>, at>>, <<"schedule", sid>> \notin P
              PROVE  RunIsOver(n, <<"schedule", sid>>, at)
  BY Zenon DEF Passed
<1>. DEFINE k0 == <<"schedule", sid>>
<1>1. CASE m[JobKey(x)] # NoRecord /\ o[JobKey(x)] # NoRecord /\ from[x] = old[x]
  <2>1. RunIsOver(m, k0, at) /\ RunIsOver(o, k0, at)
    BY <1>1, Zenon DEF Passed
  <2>2. at \in Nat
    BY TimeIsNat, Zenon
  <2>3. CASE n[k0] = m[k0]
    BY <2>1, <2>3, Zenon DEF RunIsOver
  <2>4. CASE /\ n[k0] \in ScheduleRecord /\ o[k0] \in ScheduleRecord
             /\ n[k0].enabled => o[k0].enabled
             /\ o[k0].next_run_ms <= n[k0].next_run_ms
    <3>1. n[k0].next_run_ms \in Nat /\ o[k0].next_run_ms \in Nat /\ n[k0] # NoRecord
      BY <2>4, TimeIsNat, AbsenceAssumption, Zenon DEF ScheduleRecord
    <3>. QED
      BY <2>1, <2>2, <2>4, <3>1 DEF RunIsOver
  <2>. QED
    BY <2>1, <2>3, <2>4, Zenon DEF RunIsOver, SchedulesKept
<1>2. CASE from[x][1][1] = "schedule" => RunIsOver(n, from[x][1], from[x][2])
  BY <1>2
<1>. QED
  BY <1>1, <1>2, Zenon DEF JobsKept

LEMMA SourceKeysOf ==
  /\ \A sid \in ScheduleId : <<"schedule", sid>> \in SourceKeys
  /\ \A cid \in CronId : <<"cron", cid>> \in SourceKeys
  /\ \A tid \in TriggerId : <<"trigger", tid>> \in SourceKeys
BY Zenon DEF SourceKeys

LEMMA RewriteKeepsSources ==
  ASSUME SourceCore, Rewritten, UNCHANGED sourceHistory
  PROVE  SourceCore'
<1>0. UNCHANGED <<origin, firstRun, reenabled, fires>>
  BY Zenon DEF sourceHistory
<1>1. ASSUME NEW n \in Maps' PROVE MapSourced(n, origin, firstRun, fires, doubted', reenabled)
  <2>1. PICK m \in Maps :
          /\ \A k \in SourceKeys : n[k] = m[k]
          /\ \A x \in JobId :
               /\ n[JobKey(x)] = NoRecord <=> m[JobKey(x)] = NoRecord
               /\ n[JobKey(x)] # NoRecord =>
                    \E o \in Maps : o[JobKey(x)] # NoRecord /\ n[JobKey(x)].spec = o[JobKey(x)].spec
    BY <1>1, Zenon DEF Rewritten
  <2>2. \A o \in Maps : MapSourced(o, origin, firstRun, fires, doubted, reenabled)
    BY Zenon DEF SourceCore
  <2>3. /\ \A sid \in ScheduleId : n[<<"schedule", sid>>] = m[<<"schedule", sid>>]
        /\ \A cid \in CronId : n[<<"cron", cid>>] = m[<<"cron", cid>>]
        /\ \A tid \in TriggerId : n[<<"trigger", tid>>] = m[<<"trigger", tid>>]
    BY <2>1, SourceKeysOf, Zenon
  <2>4. SourcesFit(n) /\ FiresFit(n, fires)
    BY <2>2, <2>3, Zenon DEF MapSourced, SourcesFit, FiresFit
  <2>5. RunsFit(n, origin, firstRun)
    BY <2>1, <2>2, <2>3, Zenon DEF MapSourced, RunsFit
  <2>6. KeysFit(n, origin)
    <3>1. \A o \in Maps : KeysFit(o, origin)
      BY <2>2, Zenon DEF MapSourced
    <3>. QED
      BY <2>1, <3>1 DEF KeysFit
  <2>7. Passed(n, origin, doubted', reenabled)
    <3>1. Passed(m, origin, doubted, reenabled)
      BY <2>2, Zenon DEF MapSourced
    <3>2. doubted \subseteq doubted'
      BY Zenon DEF Rewritten
    <3>3. \A x \in JobId : n[JobKey(x)] # NoRecord => m[JobKey(x)] # NoRecord
      BY <2>1, Zenon
    <3>4. \A sid \in ScheduleId : \A at :
            RunIsOver(m, <<"schedule", sid>>, at) => RunIsOver(n, <<"schedule", sid>>, at)
      BY <2>3, Zenon DEF RunIsOver
    <3>. QED
      BY <3>1, <3>2, <3>3, <3>4, Zenon DEF Passed
  <2>. QED
    BY <2>4, <2>5, <2>6, <2>7, Zenon DEF MapSourced
<1>2. /\ Present' = Present /\ doubted \subseteq doubted' /\ retried \subseteq retried'
      /\ \A x \in Present : /\ Job(x)'.spec = Job(x).spec
                            /\ Active(Job(x)') => Active(Job(x)) \/ x \in retried'
  BY DEF Rewritten, Present, Job, JobKey
<1>3. Sourced'
  BY <1>0, Zenon DEF SourceCore, Sourced, Rewritten
<1>4. OneJobPerRun'
  BY <1>0, <1>2 DEF SourceCore, OneJobPerRun, SameOrigin
<1>5. OneActivePerKey'
  <2>. SUFFICES ASSUME NEW a \in Present, NEW b \in Present,
                       a # b, Active(Job(a)'), Active(Job(b)'),
                       Job(a)'.spec.idempotency_key = Job(b)'.spec.idempotency_key,
                       Job(a)'.spec.idempotency_key # NoKey
                PROVE  {a, b} \cap (retried' \cup doubted') # {} \/ Ticked(a) \/ Ticked(b)
    BY <1>0, <1>2 DEF OneActivePerKey, Ticked
  <2>1. CASE a \in retried' \/ b \in retried'
    BY <2>1, Zenon
  <2>2. CASE Active(Job(a)) /\ Active(Job(b))
    <3>1. {a, b} \cap (retried \cup doubted) # {} \/ Ticked(a) \/ Ticked(b)
      BY <1>2, <2>2, Zenon DEF SourceCore, OneActivePerKey
    <3>. QED
      BY <1>2, <3>1, Zenon
  <2>. QED
    BY <1>2, <2>1, <2>2, Zenon
<1>6. SourcesToldOK'
  BY <1>0, Zenon DEF SourceCore, SourcesToldOK
<1>. QED
  BY <1>0, <1>1, <1>3, <1>4, <1>5, <1>6, Zenon DEF SourceCore

LEMMA RecoveryKeepsSources ==
  ASSUME JobCore, SourceCore, Maps' \subseteq Maps,
         UNCHANGED <<origin, firstRun, reenabled, fires, retried, doubted>>
  PROVE  SourceCore'
<1>1. \A m \in Maps' : MapSourced(m, origin', firstRun', fires', doubted', reenabled')
  BY Zenon DEF SourceCore
<1>2. \A x \in JobId \ doubted : mem'[JobKey(x)] = mem[JobKey(x)]
  BY Zenon DEF JobCore, Undoubted, Maps
<1>3. Sourced'
  BY <1>2, Zenon DEF SourceCore, Sourced
<1>4. \A x \in Present' \ doubted : x \in Present /\ Job(x)' = Job(x)
  BY <1>2, Zenon DEF Present, Job, JobKey
<1>5. OneJobPerRun'
  BY <1>4, Zenon DEF SourceCore, OneJobPerRun, SameOrigin
<1>6. OneActivePerKey'
  <2>. SUFFICES ASSUME NEW a \in Present', NEW b \in Present',
                       a # b, Active(Job(a)'), Active(Job(b)'),
                       Job(a)'.spec.idempotency_key = Job(b)'.spec.idempotency_key,
                       Job(a)'.spec.idempotency_key # NoKey, a \notin doubted, b \notin doubted
                PROVE  {a, b} \cap (retried \cup doubted) # {} \/ Ticked(a) \/ Ticked(b)
    BY Zenon DEF OneActivePerKey, Ticked
  <2>. QED
    BY <1>4 DEF SourceCore, OneActivePerKey
<1>7. SourcesToldOK'
  BY Zenon DEF SourceCore, SourcesToldOK
<1>. QED
  BY <1>1, <1>3, <1>5, <1>6, <1>7, Zenon DEF SourceCore

(* A job is created: what is to show of the maps apart, the jobs in memory *)
(* keep their runs and their keys.                                         *)
LEMMA CreationKeepsJobs ==
  ASSUME JobCore, SourceCore, NEW id \in JobId, Unused(JobKey(id)), NEW job \in JobRecord,
         UNCHANGED retried, reenabled \subseteq reenabled',
         \A x \in JobId \ {id} : origin'[x] = origin[x],
         \/ /\ doubted' = doubted /\ mem'[JobKey(id)] = job
            /\ \A x \in JobId \ {id} : mem'[JobKey(x)] = mem[JobKey(x)]
         \/ /\ doubted' = doubted \cup {id}
            /\ \A x \in JobId : mem'[JobKey(x)] = mem[JobKey(x)],
         \/ Active(job) => FindActiveJobByIdempotency(job.spec.idempotency_key) = {}
         \/ job.spec.idempotency_key = NoKey
         \/ Ticked(id)',
         \/ origin' = origin
         \/ origin'[id][1][1] # "schedule"
         \/ origin'[id][1] \in reenabled'
         \/ \A x \in Present \ doubted : origin[x] # origin'[id]
  PROVE  Sourced' /\ OneJobPerRun' /\ OneActivePerKey'
<1>1. id \notin Present /\ mem[JobKey(id)] = NoRecord /\ job # NoRecord
  BY AbsenceAssumption, Zenon DEF Unused, Present, Job, JobKey
<1>2. CASE doubted' = doubted /\ mem'[JobKey(id)] = job
           /\ \A x \in JobId \ {id} : mem'[JobKey(x)] = mem[JobKey(x)]
  <2>1. /\ Present' = Present \cup {id} /\ Job(id)' = job
        /\ \A x \in Present : x # id /\ x \in JobId /\ Job(x)' = Job(x) /\ origin'[x] = origin[x]
    BY <1>1, <1>2, Zenon DEF Present, Job, JobKey
  <2>2. Sourced'
    BY <1>1, <1>2, Zenon DEF SourceCore, Sourced
  <2>3. OneJobPerRun'
    <3>1. ASSUME NEW x \in Present, SameOrigin(x, id)', origin'[id][1][1] = "schedule"
          PROVE  origin'[id][1] \in reenabled' \/ {x, id} \cap doubted' # {}
      <4>1. CASE id \in doubted
        BY <1>2, <4>1, Zenon
      <4>2. CASE id \notin doubted /\ origin' = origin
        BY <1>1, <3>1, <4>2, Zenon DEF SourceCore, Sourced, SameOrigin
      <4>3. CASE \/ origin'[id][1] \in reenabled'
                 \/ \A y \in Present \ doubted : origin[y] # origin'[id]
        BY <1>2, <2>1, <3>1, <4>3, Zenon DEF SameOrigin
      <4>. QED
        BY <3>1, <4>1, <4>2, <4>3, Zenon
    <3>2. ASSUME NEW a \in Present, NEW b \in Present, SameOrigin(a, b)', origin'[a][1][1] = "schedule"
          PROVE  origin'[a][1] \in reenabled' \/ {a, b} \cap doubted' # {}
      BY <1>2, <2>1, <3>2 DEF SourceCore, OneJobPerRun, SameOrigin
    <3>. QED
      BY <2>1, <3>1, <3>2 DEF OneJobPerRun, SameOrigin
  <2>4. OneActivePerKey'
    <3>1. ASSUME NEW x \in Present, Active(Job(x)'), Active(job),
                 Job(x)'.spec.idempotency_key = job.spec.idempotency_key,
                 job.spec.idempotency_key # NoKey
          PROVE  Ticked(id)'
      BY <2>1, <3>1, Zenon DEF FindActiveJobByIdempotency
    <3>2. ASSUME NEW a \in Present, NEW b \in Present, a # b, Active(Job(a)'), Active(Job(b)'),
                 Job(a)'.spec.idempotency_key = Job(b)'.spec.idempotency_key,
                 Job(a)'.spec.idempotency_key # NoKey
          PROVE  {a, b} \cap (retried' \cup doubted') # {} \/ Ticked(a)' \/ Ticked(b)'
      <4>1. {a, b} \cap (retried \cup doubted) # {} \/ Ticked(a) \/ Ticked(b)
        BY <2>1, <3>2, Zenon DEF SourceCore, OneActivePerKey
      <4>. QED
        BY <1>2, <2>1, <4>1, Zenon DEF Ticked
    <3>. QED
      BY <2>1, <3>1, <3>2, Zenon DEF OneActivePerKey
  <2>. QED
    BY <2>2, <2>3, <2>4, Zenon
<1>3. CASE doubted' = doubted \cup {id} /\ \A x \in JobId : mem'[JobKey(x)] = mem[JobKey(x)]
  <2>1. /\ Present' = Present
        /\ \A x \in Present : x # id /\ x \in JobId /\ Job(x)' = Job(x) /\ origin'[x] = origin[x]
    BY <1>1, <1>3, Zenon DEF Present, Job, JobKey
  <2>2. Sourced'
    BY <1>3, Zenon DEF SourceCore, Sourced
  <2>3. OneJobPerRun'
    BY <1>3, <2>1, SMTT(30) DEF SourceCore, OneJobPerRun, SameOrigin
  <2>4. OneActivePerKey'
    <3>. SUFFICES ASSUME NEW a \in Present, NEW b \in Present, a # b,
                         Active(Job(a)'), Active(Job(b)'),
                         Job(a)'.spec.idempotency_key = Job(b)'.spec.idempotency_key,
                         Job(a)'.spec.idempotency_key # NoKey
                  PROVE  {a, b} \cap (retried' \cup doubted') # {} \/ Ticked(a)' \/ Ticked(b)'
      BY <2>1, Zenon DEF OneActivePerKey
    <3>1. {a, b} \cap (retried \cup doubted) # {} \/ Ticked(a) \/ Ticked(b)
      BY <2>1, Zenon DEF SourceCore, OneActivePerKey
    <3>. QED
      BY <1>3, <2>1, <3>1, Zenon DEF Ticked
  <2>. QED
    BY <2>2, <2>3, <2>4, Zenon
<1>. QED
  BY <1>2, <1>3, Zenon

-----------------------------------------------------------------------------
(* Sources: steps that create a job.                                       *)

LEMMA GivenSpec ==
  ASSUME NEW spec \in JobSpec
  PROVE  /\ spec \in StoredSpec /\ spec.idempotency_key \in GivenKey
         /\ spec.idempotency_key \notin CronId /\ spec.idempotency_key \notin CronId \X Time
         /\ \A k \in IdempotencyKey : /\ [spec EXCEPT !.idempotency_key = k] \in StoredSpec
                                      /\ [spec EXCEPT !.idempotency_key = k].idempotency_key = k
<1>1. spec \in [handler : Handler, idempotency_key : {spec.idempotency_key},
                max_attempts : Nat \ {0}, retry_backoff_ms : Nat, priority : Int,
                deadline_ms : Time \cup {NoDeadline}]
  BY SpecAssumption, Zenon
<1>2. \A k : [spec EXCEPT !.idempotency_key = k].idempotency_key = k
  BY <1>1, Zenon
<1>3. spec = [spec EXCEPT !.idempotency_key = spec.idempotency_key]
  BY <1>1, Zenon
<1>4. spec.idempotency_key \in GivenKey
  BY Zenon DEF GivenKey
<1>5. spec.idempotency_key \in IdempotencyKey
  BY <1>4, Zenon DEF IdempotencyKey
<1>6. \A k \in IdempotencyKey : [spec EXCEPT !.idempotency_key = k] \in StoredSpec
  BY DEF StoredSpec
<1>7. spec.idempotency_key \notin CronId /\ spec.idempotency_key \notin CronId \X Time
  BY <1>4, KeyAssumption, Zenon
<1>. QED
  BY <1>2, <1>3, <1>4, <1>5, <1>6, <1>7, Zenon

(* Where a new job is written.                                             *)
LEMMA NewJobWritten ==
  ASSUME JobCore, NEW id \in JobId, Unused(JobKey(id)), NEW job \in JobRecord, NEW w,
         Writes(w, id, job, <<"Submitted">>), NEW m \in {mem, Newest}
  PROVE  /\ m \in Maps /\ m[JobKey(id)] = NoRecord /\ job # NoRecord
         /\ Written(m, w)[JobKey(id)] = job
         /\ \A x \in JobId \ {id} : Written(m, w)[JobKey(x)] = m[JobKey(x)]
         /\ \A k \in SourceKeys \ DOMAIN w : Written(m, w)[k] = m[k]
<1>1. m \in Maps /\ job # NoRecord
  BY NewestIsAMap, AbsenceAssumption, Zenon DEF JobCore
<1>2. m[JobKey(id)] = NoRecord
  BY <1>1, Zenon DEF Unused, Maps
<1>3. \A k \in SourceKeys \ DOMAIN w : Written(m, w)[k] = m[k]
  BY SourceKeysAreKeys, Zenon DEF Written
<1>. QED
  BY <1>1, <1>2, <1>3, WrittenJob

LEMMA NewJobMap ==
  ASSUME JobCore, SourceCore, NEW id \in JobId, Unused(JobKey(id)), NEW job \in JobRecord, NEW w,
         Writes(w, id, job, <<"Submitted">>), \A cid \in CronId : <<"cron", cid>> \notin DOMAIN w,
         \A x \in JobId \ {id} : origin'[x] = origin[x],
         \/ job.spec.idempotency_key \notin CronId \X Time
         \/ \E c \in CronId, u \in Time : /\ job.spec.idempotency_key = <<c, u>>
                                         /\ origin'[id] = <<<<"cron", c>>, u>>,
         NEW m \in {mem, Newest}
  PROVE  RunsFit(Written(m, w), origin', firstRun) /\ KeysFit(Written(m, w), origin')
<1>. DEFINE n == Written(m, w)
<1>1. /\ m \in Maps /\ m[JobKey(id)] = NoRecord /\ job # NoRecord /\ n[JobKey(id)] = job
      /\ \A x \in JobId \ {id} : n[JobKey(x)] = m[JobKey(x)]
      /\ \A cid \in CronId : n[<<"cron", cid>>] = m[<<"cron", cid>>]
  BY NewJobWritten, SourceKeysOf
<1>. HIDE DEF n
<1>2. RunsFit(m, origin, firstRun) /\ KeysFit(m, origin)
  BY <1>1, Zenon DEF SourceCore, MapSourced
<1>3. RunsFit(n, origin', firstRun)
  <2>. SUFFICES ASSUME NEW cid \in CronId, NEW t \in CronTimes, n[<<"cron", cid>>] # NoRecord,
                       firstRun[cid] <= t, t < n[<<"cron", cid>>].next_run_ms
                PROVE  \E x \in JobId : n[JobKey(x)] # NoRecord /\ origin'[x] = <<<<"cron", cid>>, t>>
    BY Zenon DEF RunsFit
  <2>1. PICK x \in JobId : m[JobKey(x)] # NoRecord /\ origin[x] = <<<<"cron", cid>>, t>>
    BY <1>1, <1>2, Zenon DEF RunsFit
  <2>. QED
    BY <1>1, <2>1, Zenon
<1>4. KeysFit(n, origin')
  <2>1. KeysKept(n, m, origin, origin')
    BY <1>1, Zenon DEF KeysKept
  <2>. QED
    BY <1>2, <2>1, KeysStayFit, Zenon
<1>. QED
  BY <1>3, <1>4, Zenon DEF n

LEMMA NewJobPassed ==
  ASSUME JobCore, SourceCore, NEW id \in JobId, Unused(JobKey(id)), NEW job \in JobRecord, NEW w,
         Writes(w, id, job, <<"Submitted">>),
         \A sid \in ScheduleId : <<"schedule", sid>> \notin DOMAIN w,
         \A x \in JobId \ {id} : origin'[x] = origin[x],
         origin' = origin \/ origin'[id][1][1] # "schedule",
         doubted \subseteq doubted', NEW m \in {mem, Newest}
  PROVE  Passed(Written(m, w), origin', doubted', reenabled)
<1>. DEFINE n == Written(m, w)
<1>1. /\ m \in Maps /\ m[JobKey(id)] = NoRecord /\ job # NoRecord /\ n[JobKey(id)] = job
      /\ \A x \in JobId \ {id} : n[JobKey(x)] = m[JobKey(x)]
      /\ \A sid \in ScheduleId : n[<<"schedule", sid>>] = m[<<"schedule", sid>>]
  BY NewJobWritten, SourceKeysOf
<1>. HIDE DEF n
<1>2. Passed(m, origin, doubted, reenabled)
  BY <1>1, Zenon DEF SourceCore, MapSourced
<1>3. id \in doubted' \/ origin'[id] = NoOrigin \/ origin'[id][1][1] # "schedule"
  <2>1. mem[JobKey(id)] = NoRecord
    BY Zenon DEF Unused
  <2>. QED
    BY <2>1, Zenon DEF SourceCore, Sourced
<1>4. JobsKept(n, m, m, origin, origin', doubted') /\ SchedulesKept(n, m, m, reenabled)
  BY <1>1, <1>3, Zenon DEF JobsKept, SchedulesKept
<1>5. Passed(n, origin', doubted', reenabled)
  BY <1>2, <1>4, PassedStays, Zenon
<1>. QED
  BY <1>5, Zenon DEF n

(* The sources that w does not write.                                      *)
LEMMA NewJobSources ==
  ASSUME JobCore, SourceCore, NEW id \in JobId, Unused(JobKey(id)), NEW job \in JobRecord, NEW w,
         Writes(w, id, job, <<"Submitted">>),
         \A sid \in ScheduleId : <<"schedule", sid>> \in DOMAIN w => w[<<"schedule", sid>>] \in ScheduleRecord,
         \A cid \in CronId : <<"cron", cid>> \notin DOMAIN w,
         \A tid \in TriggerId : <<"trigger", tid>> \notin DOMAIN w,
         NEW m \in {mem, Newest}
  PROVE  SourcesFit(Written(m, w)) /\ FiresFit(Written(m, w), fires)
<1>. DEFINE n == Written(m, w)
<1>1. /\ m \in Maps
      /\ \A cid \in CronId : n[<<"cron", cid>>] = m[<<"cron", cid>>]
      /\ \A tid \in TriggerId : n[<<"trigger", tid>>] = m[<<"trigger", tid>>]
  BY NewJobWritten, SourceKeysOf
<1>2. \A sid \in ScheduleId : \/ n[<<"schedule", sid>>] = m[<<"schedule", sid>>]
                              \/ n[<<"schedule", sid>>] \in ScheduleRecord
  BY KeysAreKeys, Zenon DEF Written
<1>. HIDE DEF n
<1>3. SourcesFit(m) /\ FiresFit(m, fires)
  BY <1>1, Zenon DEF SourceCore, MapSourced
<1>4. SourcesFit(n)
  BY <1>1, <1>2, <1>3, SourcesStayFit, Zenon
<1>5. FiresFit(n, fires)
  BY <1>1, <1>3, Zenon DEF FiresFit
<1>. QED
  BY <1>4, <1>5, Zenon DEF n

(* The maps after a creation, when the maps it writes are known.           *)
LEMMA CreationMaps ==
  ASSUME JobCore, SourceCore, NEW id \in JobId, Unused(JobKey(id)), NEW job \in JobRecord, NEW w,
         Writes(w, id, job, <<"Submitted">>),
         \/ CommitOk(w) /\ doubted' = doubted
         \/ CommitInDoubt(w) /\ doubted' = doubted \cup {id} /\ fires' = fires,
         \A x \in JobId \ {id} : origin'[x] = origin[x],
         UNCHANGED <<firstRun, reenabled>>,
         \A m \in {mem, Newest} :
           MapSourced(Written(m, w), origin', firstRun, fires', doubted', reenabled)
  PROVE  /\ \A n \in Maps' : MapSourced(n, origin', firstRun', fires', doubted', reenabled')
         /\ \/ /\ doubted' = doubted /\ mem'[JobKey(id)] = job
               /\ \A x \in JobId \ {id} : mem'[JobKey(x)] = mem[JobKey(x)]
            \/ /\ doubted' = doubted \cup {id}
               /\ \A x \in JobId : mem'[JobKey(x)] = mem[JobKey(x)]
<1>1. CASE CommitOk(w) /\ doubted' = doubted
  <2>1. mem' = Written(mem, w) /\ Maps' = {Written(mem, w), Written(Newest, w)}
    BY <1>1, MapsAfterOk, Zenon
  <2>. QED
    BY <1>1, <2>1, NewJobWritten
<1>2. CASE CommitInDoubt(w) /\ doubted' = doubted \cup {id} /\ fires' = fires
  <2>1. mem' = mem /\ Maps' = Maps \cup {Written(Newest, w)}
    BY <1>2, MapsAfterDoubt, Zenon DEF JobCore
  <2>2. ASSUME NEW m \in Maps PROVE MapSourced(m, origin', firstRun, fires, doubted', reenabled)
    <3>1. m[JobKey(id)] = NoRecord
      BY Zenon DEF Unused, Maps
    <3>2. MapSourced(m, origin, firstRun, fires, doubted, reenabled)
      BY Zenon DEF SourceCore
    <3>3. \A x \in JobId : m[JobKey(x)] # NoRecord => origin'[x] = origin[x]
      BY <3>1, Zenon
    <3>4. RunsFit(m, origin', firstRun)
      <4>1. RunsFit(m, origin, firstRun)
        BY <3>2, Zenon DEF MapSourced
      <4>2. ASSUME NEW cid \in CronId, NEW t \in CronTimes, NEW x \in JobId,
                   m[JobKey(x)] # NoRecord /\ origin[x] = <<<<"cron", cid>>, t>>
            PROVE  m[JobKey(x)] # NoRecord /\ origin'[x] = <<<<"cron", cid>>, t>>
        BY <3>3, <4>2, Zenon
      <4>. QED
        BY <4>1, <4>2, Zenon DEF RunsFit
    <3>5. KeysFit(m, origin')
      BY <3>2, <3>3, Zenon DEF MapSourced, KeysFit
    <3>6. Passed(m, origin', doubted', reenabled)
      BY <1>2, <3>2, <3>3, Zenon DEF MapSourced, Passed
    <3>. QED
      BY <3>2, <3>4, <3>5, <3>6, Zenon DEF MapSourced
  <2>. QED
    BY <1>2, <2>1, <2>2, Zenon
<1>. QED
  BY <1>1, <1>2, Zenon

LEMMA NewWrites ==
  ASSUME JobCore, NEW id \in JobId, Unused(JobKey(id)), NEW job
  PROVE  LET w == PersistJobWithHistory(id, job, "Submitted")
         IN  /\ Writes(w, id, job, <<"Submitted">>) /\ DOMAIN w = {JobKey(id), HistoryKey(id)}
             /\ \A k \in SourceKeys : k \notin DOMAIN w
<1>. DEFINE w == PersistJobWithHistory(id, job, "Submitted")
            entries == Append(Entries(id), "Submitted")
<1>1. mem[JobKey(id)] = NoRecord /\ mem \in Maps /\ "Submitted" \in Kind
  BY Zenon DEF Unused, Maps, Kind
<1>2. mem[HistoryKey(id)] = NoRecord
  BY <1>1, AbsentFits, Zenon
<1>3. HistoryLeft(id) /\ Entries(id) = << >>
  BY <1>2, Zenon DEF HistoryLeft, History, HistoryKey, Entries
<1>4. entries = <<"Submitted">>
  BY <1>3
<1>5. Writes(w, id, job, <<"Submitted">>) /\ DOMAIN w = {JobKey(id), HistoryKey(id)}
  BY <1>1, <1>3, <1>4, PersistWrites, Zenon
<1>. HIDE DEF w
<1>6. \A k \in SourceKeys : k \notin DOMAIN w
  BY <1>5, SourceKeysAreKeys, Zenon
<1>. QED
  BY <1>5, <1>6, Zenon DEF w

(* A new job and a source, in one transaction.                             *)
LEMMA NewWritesWith ==
  ASSUME JobCore, NEW id \in JobId, Unused(JobKey(id)), NEW job, NEW k \in SourceKeys, NEW record,
         NEW b, b = Both(Put(k, record), PersistJobWithHistory(id, job, "Submitted"))
  PROVE  /\ Writes(b, id, job, <<"Submitted">>)
         /\ DOMAIN b = {k, JobKey(id), HistoryKey(id)}
<1>. DEFINE w == PersistJobWithHistory(id, job, "Submitted")
<1>1. Writes(w, id, job, <<"Submitted">>) /\ DOMAIN w = {JobKey(id), HistoryKey(id)}
  BY NewWrites, Zenon
<1>. HIDE DEF w
<1>2. /\ DOMAIN b = {k} \cup DOMAIN w /\ b[k] = record
      /\ \A x \in DOMAIN w : x # k => b[x] = w[x]
  BY Zenon DEF Both, Put, w
<1>3. k # JobKey(id) /\ k # HistoryKey(id)
      /\ \A x \in JobId : JobKey(x) # k /\ HistoryKey(x) # k
  BY SourceKeysAreKeys, Zenon
<1>4. Writes(b, id, job, <<"Submitted">>)
  BY <1>1, <1>2, <1>3, Zenon DEF Writes
<1>. QED
  BY <1>1, <1>2, <1>4, Zenon

LEMMA CronOrigin ==
  ASSUME NEW from, NEW c, NEW u, from = <<<<"cron", c>>, u>>
  PROVE  from[1][1] # "schedule"
OBVIOUS

(* A job that no schedule and no trigger writes: submit_job, alone or for  *)
(* a cron run.                                                             *)
LEMMA SubmitKeepsSources ==
  ASSUME JobCore, SourceCore, NEW id \in JobId, Unused(JobKey(id)), NEW spec \in StoredSpec,
         NEW at \in Time, NEW w, w = PersistJobWithHistory(id, BuildJob(spec, at), "Submitted"),
         \/ CommitOk(w) /\ doubted' = doubted
         \/ CommitInDoubt(w) /\ doubted' = doubted \cup {id},
         UNCHANGED <<receipts, holder, ended, retried, firstRun, reenabled, fires>>,
         \A x \in JobId \ {id} : origin'[x] = origin[x], origin' \in [JobId -> Origin],
         spec.idempotency_key # NoKey => FindActiveJobByIdempotency(spec.idempotency_key) = {},
         \/ origin' = origin /\ spec.idempotency_key \notin CronId \X Time
         \/ \E c \in CronId, u \in Time : /\ spec.idempotency_key = <<c, u>>
                                         /\ origin'[id] = <<<<"cron", c>>, u>>
  PROVE  JobCore' /\ SourceCore'
<1>. DEFINE job == BuildJob(spec, at)
<1>1. job \in JobRecord /\ job.spec = spec
  BY BuiltJob, Zenon
<1>2. /\ Writes(w, id, job, <<"Submitted">>)
      /\ \A k \in SourceKeys : k \notin DOMAIN w
  BY NewWrites, Zenon
<1>3. JobCore'
  <2>1. Persisted(id, w)
    BY Zenon DEF Persisted
  <2>. QED
    BY <1>2, <2>1, CreateFits, Zenon
<1>. HIDE DEF job
<1>0. origin' = origin \/ origin'[id][1][1] # "schedule"
  <2>1. CASE \E c \in CronId, u \in Time : /\ spec.idempotency_key = <<c, u>>
                                         /\ origin'[id] = <<<<"cron", c>>, u>>
    BY <2>1, CronOrigin, Zenon
  <2>. QED
    BY <2>1, Zenon
<1>4. /\ \A sid \in ScheduleId : <<"schedule", sid>> \notin DOMAIN w
      /\ \A cid \in CronId : <<"cron", cid>> \notin DOMAIN w
      /\ \A tid \in TriggerId : <<"trigger", tid>> \notin DOMAIN w
  BY <1>2, SourceKeysOf, Zenon
<1>5. ASSUME NEW m \in {mem, Newest}
      PROVE  MapSourced(Written(m, w), origin', firstRun, fires', doubted', reenabled)
  <2>1. RunsFit(Written(m, w), origin', firstRun) /\ KeysFit(Written(m, w), origin')
    <3>1. \/ job.spec.idempotency_key \notin CronId \X Time
          \/ \E c \in CronId, u \in Time : /\ job.spec.idempotency_key = <<c, u>>
                                          /\ origin'[id] = <<<<"cron", c>>, u>>
      BY <1>1, Zenon
    <3>. QED
      BY <1>1, <1>2, <1>4, <3>1, NewJobMap, Zenon
  <2>2. SourcesFit(Written(m, w)) /\ FiresFit(Written(m, w), fires)
    BY <1>1, <1>2, <1>4, NewJobSources, Zenon
  <2>3. Passed(Written(m, w), origin', doubted', reenabled)
    <3>2. doubted \subseteq doubted'
      BY Zenon
    <3>. QED
      BY <1>0, <1>1, <1>2, <1>4, <3>2, NewJobPassed, Zenon
  <2>. QED
    BY <2>1, <2>2, <2>3, Zenon DEF MapSourced
<1>6. /\ \A n \in Maps' : MapSourced(n, origin', firstRun', fires', doubted', reenabled')
      /\ \/ /\ doubted' = doubted /\ mem'[JobKey(id)] = job
            /\ \A x \in JobId \ {id} : mem'[JobKey(x)] = mem[JobKey(x)]
         \/ /\ doubted' = doubted \cup {id}
            /\ \A x \in JobId : mem'[JobKey(x)] = mem[JobKey(x)]
  BY <1>1, <1>2, <1>5, CreationMaps, Zenon
<1>7. Sourced' /\ OneJobPerRun' /\ OneActivePerKey'
  <2>2. \/ Active(job) => FindActiveJobByIdempotency(job.spec.idempotency_key) = {}
        \/ job.spec.idempotency_key = NoKey
    BY <1>1, Zenon
  <2>. QED
    BY <1>0, <1>1, <1>6, <2>2, CreationKeepsJobs, Zenon
<1>8. SourcesToldOK'
  BY Zenon DEF SourceCore, SourcesToldOK
<1>. QED
  BY <1>3, <1>6, <1>7, <1>8, Zenon DEF SourceCore

LEMMA SubmitKeeps ==
  ASSUME JobInv, SourceInv, NEW spec \in JobSpec, NEW at \in Time, SubmitJob(spec, at),
         UNCHANGED sourceHistory
  PROVE  JobInv' /\ SourceInv'
<1>0. JobCore /\ SourceCore /\ SettledByHolder /\ UNCHANGED <<origin, firstRun, reenabled, fires>>
  BY Zenon DEF JobInv, SourceInv, sourceHistory
<1>1. PICK id \in JobId :
        /\ Unused(JobKey(id)) /\ call = NoCall
        /\ spec.idempotency_key # NoKey => FindActiveJobByIdempotency(spec.idempotency_key) = {}
        /\ Commit(id, PersistJobWithHistory(id, BuildJob(spec, at), "Submitted"),
                  Quiet /\ UNCHANGED call)
        /\ UNCHANGED retried
  BY Zenon DEF SubmitJob, Unused, JobKey
<1>. DEFINE w == PersistJobWithHistory(id, BuildJob(spec, at), "Submitted")
<1>. HIDE DEF w
<1>2. /\ call' = NoCall /\ UNCHANGED <<receipts, holder, settled, ended, retried>>
      /\ \/ CommitOk(w) /\ doubted' = doubted
         \/ CommitInDoubt(w) /\ doubted' = doubted \cup {id}
  BY <1>1, Zenon DEF Commit, Quiet, w
<1>3. spec \in StoredSpec /\ spec.idempotency_key \notin CronId \X Time
  BY GivenSpec, Zenon
<1>4. origin' \in [JobId -> Origin]
  BY <1>0, Zenon DEF SourceCore, SourcesToldOK
<1>5. JobCore' /\ SourceCore'
  BY <1>0, <1>1, <1>2, <1>3, <1>4, SubmitKeepsSources, Zenon DEF w
<1>. QED
  BY <1>0, <1>2, <1>5, Zenon DEF JobInv, SourceInv, JobCallOK, SourceCallOK, SettledByHolder

-----------------------------------------------------------------------------
(* Sources: ticks.                                                         *)

(* A step of a cron tick leaves the call one of a cron tick, or none.      *)
LEMMA CronSubmitKeeps ==
  ASSUME JobInv, SourceInv, call # NoCall, call.op = "cron", CronSubmitStep
  PROVE  JobInv' /\ SourceInv'
<1>0. /\ JobCore /\ SourceCore /\ SettledByHolder /\ mem \in Maps
      /\ call \in CronCall /\ \A cid \in call.ids : mem[<<"cron", cid>>] # NoRecord
  BY Zenon DEF JobInv, SourceInv, SourceCallOK, Maps
<1>1. PICK cid \in Earliest(call.ids) :
        LET key == <<"cron", cid>>
            at == mem[key].next_run_ms
            spec == [mem[key].job EXCEPT !.idempotency_key = OccurrenceKey(cid, at)]
            second == [op |-> "cron_advance", ids |-> call.ids, left |-> call.left,
                       now |-> call.now, cid |-> cid]
        IN  /\ \/ /\ FindActiveJobByIdempotency(spec.idempotency_key) # {}
                  /\ call' = second
                  /\ UNCHANGED <<mem, medium, history, origin>>
               \/ /\ FindActiveJobByIdempotency(spec.idempotency_key) = {}
                  /\ \E id \in JobId :
                       /\ Unused(<<"job", id>>)
                       /\ Commit(id, PersistJobWithHistory(id, BuildJob(spec, at), "Submitted"),
                                 call' = second /\ Quiet)
                       /\ origin' = [origin EXCEPT ![id] = <<key, at>>]
                  /\ UNCHANGED retried
            /\ UNCHANGED <<firstRun, reenabled, fires>>
  BY Zenon DEF CronSubmitStep
<1>. DEFINE key == <<"cron", cid>>
            at == mem[key].next_run_ms
            spec == [mem[key].job EXCEPT !.idempotency_key = <<cid, at>>]
            second == [op |-> "cron_advance", ids |-> call.ids, left |-> call.left,
                       now |-> call.now, cid |-> cid]
<1>2. cid \in call.ids /\ cid \in CronId /\ call.ids \subseteq CronId
  BY <1>0, Zenon DEF Earliest, CronCall
<1>3. mem[key] \in CronRecord
  BY <1>0, <1>2, Zenon DEF SourceCore, MapSourced, SourcesFit
<1>4. at \in Time /\ mem[key].job \in JobSpec
  BY <1>3, SourceAssumption, Zenon DEF CronRecord
<1>5. <<cid, at>> \in IdempotencyKey
  BY <1>2, <1>4, Zenon DEF IdempotencyKey
<1>6. spec \in StoredSpec /\ spec.idempotency_key = <<cid, at>>
  BY <1>4, <1>5, GivenSpec, Zenon
<1>7. /\ second \in AdvanceCall /\ second.op = "cron_advance" /\ second.ids = call.ids
      /\ second.cid = cid
  BY <1>0, <1>2, Zenon DEF CronCall, AdvanceCall
<1>8. \/ /\ FindActiveJobByIdempotency(<<cid, at>>) # {} /\ call' = second
         /\ UNCHANGED <<mem, medium, history, sourceHistory>>
      \/ /\ FindActiveJobByIdempotency(<<cid, at>>) = {}
         /\ \E id \in JobId :
              /\ Unused(JobKey(id))
              /\ Commit(id, PersistJobWithHistory(id, BuildJob(spec, at), "Submitted"),
                        call' = second /\ Quiet)
              /\ origin' = [origin EXCEPT ![id] = <<key, at>>]
         /\ UNCHANGED <<retried, firstRun, reenabled, fires>>
  BY <1>1, <1>6, Zenon DEF OccurrenceKey, JobKey, sourceHistory
<1>. HIDE DEF second, spec
<1>9. ASSUME call' = second, mem'[key] = mem[key],
             \A c \in call.ids : mem'[<<"cron", c>>] # NoRecord,
             \E id \in JobId : mem'[JobKey(id)] # NoRecord /\ origin'[id] = <<key, at>>
      PROVE  JobCallOK' /\ SourceCallOK'
  BY <1>2, <1>7, <1>9, Zenon DEF JobCallOK, SourceCallOK
<1>10. CASE /\ FindActiveJobByIdempotency(<<cid, at>>) # {} /\ call' = second
            /\ UNCHANGED <<mem, medium, history, sourceHistory>>
  <2>1. JobCore' /\ SettledByHolder' /\ Rewritten
    BY <1>0, <1>10, SameRecords, Zenon
  <2>2. SourceCore'
    BY <1>0, <1>10, <2>1, RewriteKeepsSources, Zenon
  <2>3. PICK id \in Present : Job(id).spec.idempotency_key = <<cid, at>>
    BY <1>10, Zenon DEF FindActiveJobByIdempotency
  <2>4. id \in JobId /\ mem[JobKey(id)] # NoRecord
        /\ mem[JobKey(id)].spec.idempotency_key = OccurrenceKey(cid, at)
    BY <1>0, <2>3, PresentIsJob, Zenon DEF OccurrenceKey
  <2>5. KeysFit(mem, origin)
    BY <1>0, Zenon DEF SourceCore, MapSourced
  <2>6. origin[id] = <<key, at>>
    BY <1>2, <1>4, <2>4, <2>5, Zenon DEF KeysFit
  <2>7. origin' = origin /\ mem' = mem
    BY <1>10, Zenon DEF sourceHistory
  <2>8. JobCallOK' /\ SourceCallOK'
    <3>1. \A c \in call.ids : mem'[<<"cron", c>>] # NoRecord
      BY <1>0, <2>7, Zenon
    <3>2. mem'[JobKey(id)] # NoRecord /\ origin'[id] = <<key, at>>
      BY <2>4, <2>6, <2>7, Zenon
    <3>. QED
      BY <1>9, <1>10, <2>4, <2>7, <3>1, <3>2, Zenon
  <2>. QED
    BY <2>1, <2>2, <2>8, Zenon DEF JobInv, SourceInv
<1>11. CASE /\ FindActiveJobByIdempotency(<<cid, at>>) = {}
            /\ \E id \in JobId :
                 /\ Unused(JobKey(id))
                 /\ Commit(id, PersistJobWithHistory(id, BuildJob(spec, at), "Submitted"),
                           call' = second /\ Quiet)
                 /\ origin' = [origin EXCEPT ![id] = <<key, at>>]
            /\ UNCHANGED <<retried, firstRun, reenabled, fires>>
  <2>1. PICK id \in JobId :
          /\ Unused(JobKey(id))
          /\ Commit(id, PersistJobWithHistory(id, BuildJob(spec, at), "Submitted"),
                    call' = second /\ Quiet)
          /\ origin' = [origin EXCEPT ![id] = <<key, at>>]
    BY <1>11, Zenon
  <2>. DEFINE w == PersistJobWithHistory(id, BuildJob(spec, at), "Submitted")
  <2>. HIDE DEF w
  <2>2. /\ UNCHANGED <<receipts, holder, settled, ended>>
        /\ \/ CommitOk(w) /\ doubted' = doubted /\ call' = second
           \/ CommitInDoubt(w) /\ doubted' = doubted \cup {id} /\ call' = NoCall
    BY <2>1, Zenon DEF Commit, Quiet, w
  <2>3. origin \in [JobId -> Origin] /\ <<key, at>> \in Origin
    BY <1>0, <1>2, <1>4, Zenon DEF SourceCore, SourcesToldOK, Origin
  <2>4. /\ origin' \in [JobId -> Origin] /\ origin'[id] = <<key, at>>
        /\ \A x \in JobId \ {id} : origin'[x] = origin[x]
    BY <2>1, <2>3, Zenon
  <2>5. JobCore' /\ SourceCore'
    <3>1. \E c \in CronId, u \in Time : /\ spec.idempotency_key = <<c, u>>
                                       /\ origin'[id] = <<<<"cron", c>>, u>>
      BY <1>2, <1>4, <1>6, <2>4, Zenon
    <3>2. UNCHANGED <<receipts, holder, ended, retried, firstRun, reenabled, fires>>
          /\ \/ CommitOk(w) /\ doubted' = doubted
             \/ CommitInDoubt(w) /\ doubted' = doubted \cup {id}
      BY <1>11, <2>2, Zenon
    <3>3. w = PersistJobWithHistory(id, BuildJob(spec, at), "Submitted")
      BY Zenon DEF w
    <3>4. spec.idempotency_key # NoKey => FindActiveJobByIdempotency(spec.idempotency_key) = {}
      BY <1>6, <1>11, Zenon
    <3>. QED
      BY <1>0, <1>4, <1>6, <2>1, <2>4, <3>1, <3>2, <3>3, <3>4, SubmitKeepsSources, Zenon
  <2>6. JobCallOK' /\ SourceCallOK'
    <3>1. CASE call' = NoCall
      BY <3>1, Zenon DEF JobCallOK, SourceCallOK
    <3>2. CASE CommitOk(w) /\ call' = second
      <4>. DEFINE job == BuildJob(spec, at)
      <4>1. job \in JobRecord
        BY <1>4, <1>6, BuiltJob, Zenon
      <4>2. Writes(w, id, job, <<"Submitted">>) /\ \A k \in SourceKeys : k \notin DOMAIN w
        BY <1>0, <2>1, NewWrites, Zenon DEF w
      <4>. HIDE DEF job
      <4>3. mem' = Written(mem, w)
        BY <3>2, MapsAfterOk, Zenon
      <4>4. /\ mem'[JobKey(id)] # NoRecord
            /\ \A c \in CronId : mem'[<<"cron", c>>] = mem[<<"cron", c>>]
        <5>1. JobCore /\ Unused(JobKey(id)) /\ mem \in {mem, Newest}
          BY <1>0, <2>1, Zenon DEF JobInv
        <5>2. Writes(w, id, job, <<"Submitted">>)
          BY <4>2, Zenon
        <5>3. /\ Written(mem, w)[JobKey(id)] = job /\ job # NoRecord
              /\ \A k \in SourceKeys \ DOMAIN w : Written(mem, w)[k] = mem[k]
          BY <4>1, <5>1, <5>2, NewJobWritten, SMT
        <5>. QED
          BY <4>2, <4>3, <5>3, SourceKeysOf, Zenon
      <4>5. mem'[key] = mem[key] /\ \A c \in call.ids : mem'[<<"cron", c>>] # NoRecord
        BY <1>0, <1>2, <4>4, Zenon
      <4>. QED
        BY <1>9, <2>4, <3>2, <4>4, <4>5, Zenon
    <3>. QED
      BY <2>2, <3>1, <3>2, Zenon
  <2>7. SettledByHolder'
    BY <1>0, <1>11, <2>2, Zenon DEF SettledByHolder
  <2>. QED
    BY <2>5, <2>6, <2>7, Zenon DEF JobInv, SourceInv
<1>. QED
  BY <1>8, <1>10, <1>11, Zenon

(* A schedule that fires is past the run it fires for.                     *)
LEMMA AdvancedSchedule ==
  ASSUME NEW schedule \in ScheduleRecord, NEW now \in Time, schedule.next_run_ms <= now,
         Advanced(schedule, now).next_run_ms <= MaxTime
  PROVE  LET next == Advanced(schedule, now)
         IN  /\ next \in ScheduleRecord /\ schedule.next_run_ms <= next.next_run_ms
             /\ next.enabled => schedule.next_run_ms < next.next_run_ms
<1>. DEFINE next == Advanced(schedule, now)
            at == schedule.next_run_ms
<1>1. at \in Nat /\ at \in Time /\ now \in Nat /\ Every \in Nat \ {0} /\ at <= now
  BY TimeIsNat, SourceAssumption, Zenon DEF ScheduleRecord
<1>2. CASE schedule.mode = "Once"
  <2>1. next = [schedule EXCEPT !.enabled = FALSE]
    BY <1>2, Zenon DEF Advanced
  <2>2. next \in ScheduleRecord /\ next.next_run_ms = at /\ next.enabled = FALSE
    BY <2>1, Zenon DEF ScheduleRecord
  <2>. QED
    BY <1>1, <2>2
<1>3. CASE schedule.mode # "Once"
  <2>. DEFINE missed == (now - at) \div Every
              later == at + (missed + 1) * Every
  <2>1. next = [schedule EXCEPT !.next_run_ms = later]
    BY <1>3, Zenon DEF Advanced
  <2>2. missed \in Nat
    <3>1. \A a \in Nat, b \in Nat \ {0} : a \div b \in Nat
      OBVIOUS
    <3>2. now - at \in Nat
      BY <1>1
    <3>. QED
      BY <1>1, <3>1, <3>2, Zenon
  <2>. HIDE DEF missed
  <2>3. \A a \in Nat, b \in Nat \ {0} : (a + 1) * b \in Nat /\ (a + 1) * b >= 1
    <3>1. \A a \in Nat, b \in Nat \ {0} : a * b \in Nat /\ (a + 1) * b = a * b + b
      OBVIOUS
    <3>. QED
      BY <3>1
  <2>4. later \in Nat /\ later > at
    BY <1>1, <2>2, <2>3
  <2>. HIDE DEF later
  <2>5. next.next_run_ms = later
    BY <2>1, Zenon DEF ScheduleRecord
  <2>6. later \in Time
    BY <2>4, <2>5, TimeIsNat, Zenon
  <2>7. next \in ScheduleRecord
    BY <2>1, <2>6, Zenon DEF ScheduleRecord
  <2>. QED
    BY <1>1, <2>4, <2>5, <2>7
<1>. QED
  BY <1>2, <1>3, Zenon

LEMMA OccurrenceIsNoCronRun ==
  ASSUME NEW given \in JobSpec, NEW at \in Time
  PROVE  /\ OccurrenceSpec(given, at) \in StoredSpec
         /\ OccurrenceSpec(given, at).idempotency_key \notin CronId \X Time
<1>1. /\ given \in StoredSpec /\ given.idempotency_key \in GivenKey
      /\ given.idempotency_key \notin CronId /\ given.idempotency_key \notin CronId \X Time
  BY GivenSpec, Zenon
<1>2. CASE given.idempotency_key = NoKey
  BY <1>1, <1>2, Zenon DEF OccurrenceSpec
<1>3. CASE given.idempotency_key # NoKey
  <2>. DEFINE k == <<given.idempotency_key, at>>
  <2>1. k \in IdempotencyKey
    BY <1>1, Zenon DEF IdempotencyKey
  <2>2. OccurrenceSpec(given, at) = [given EXCEPT !.idempotency_key = k]
    BY <1>3, Zenon DEF OccurrenceSpec
  <2>3. k \notin CronId \X Time
    BY <1>1, Zenon
  <2>. HIDE DEF k
  <2>. QED
    BY <2>1, <2>2, <2>3, GivenSpec
<1>. QED
  BY <1>2, <1>3, Zenon

LEMMA TickKeepsSources ==
  ASSUME JobCore, SourceCore, NEW id \in JobId, Unused(JobKey(id)), NEW sid \in ScheduleId,
         NEW next \in ScheduleRecord, NEW at \in Time, NEW job \in JobRecord, NEW w,
         mem[<<"schedule", sid>>] \in ScheduleRecord, mem[<<"schedule", sid>>].enabled,
         at = mem[<<"schedule", sid>>].next_run_ms, at <= next.next_run_ms,
         next.enabled => at < next.next_run_ms,
         job.spec.idempotency_key \notin CronId \X Time,
         Writes(w, id, job, <<"Submitted">>),
         DOMAIN w = {<<"schedule", sid>>, JobKey(id), HistoryKey(id)},
         w[<<"schedule", sid>>] = next,
         \/ CommitOk(w) /\ doubted' = doubted
         \/ CommitInDoubt(w) /\ doubted' = doubted \cup {id},
         UNCHANGED <<retried, firstRun, reenabled, fires>>,
         origin' = [origin EXCEPT ![id] = <<<<"schedule", sid>>, at>>]
  PROVE  SourceCore'
<1>. DEFINE key == <<"schedule", sid>>
<1>1. origin \in [JobId -> Origin] /\ <<key, at>> \in Origin
  BY Zenon DEF SourceCore, SourcesToldOK, Origin
<1>2. /\ origin' \in [JobId -> Origin] /\ origin'[id] = <<key, at>>
      /\ \A x \in JobId \ {id} : origin'[x] = origin[x]
  BY <1>1, Zenon
<1>3. /\ \A cid \in CronId : <<"cron", cid>> \notin DOMAIN w
      /\ \A tid \in TriggerId : <<"trigger", tid>> \notin DOMAIN w
      /\ \A s \in ScheduleId \ {sid} : <<"schedule", s>> \notin DOMAIN w
  BY Zenon DEF JobKey, HistoryKey
<1>4. ASSUME NEW m \in {mem, Newest}
      PROVE  MapSourced(Written(m, w), origin', firstRun, fires', doubted', reenabled)
  <2>. DEFINE n == Written(m, w)
  <2>1. RunsFit(n, origin', firstRun) /\ KeysFit(n, origin')
    BY <1>2, <1>3, NewJobMap, Zenon
  <2>2. \A s \in ScheduleId : <<"schedule", s>> \in DOMAIN w => w[<<"schedule", s>>] \in ScheduleRecord
    BY <1>3, Zenon
  <2>3. SourcesFit(n) /\ FiresFit(n, fires)
    BY <1>3, <2>2, NewJobSources, Zenon
  <2>4. /\ m \in Maps /\ m[JobKey(id)] = NoRecord /\ job # NoRecord
        /\ n[JobKey(id)] = job
        /\ \A x \in JobId \ {id} : n[JobKey(x)] = m[JobKey(x)]
        /\ \A k \in SourceKeys \ DOMAIN w : n[k] = m[k]
    BY NewJobWritten
  <2>5. n[key] = next
    BY KeysAreKeys, Zenon DEF Written
  <2>. HIDE DEF n
  <2>6. \A s \in ScheduleId \ {sid} : n[<<"schedule", s>>] = m[<<"schedule", s>>]
    BY <1>3, <2>4, SourceKeysOf, Zenon
  <2>7. Passed(m, origin, doubted, reenabled) /\ Passed(mem, origin, doubted, reenabled)
    BY <2>4, Zenon DEF SourceCore, MapSourced, Maps
  <2>8. RunIsOver(n, key, at)
    BY <2>5, AbsenceAssumption, Zenon DEF RunIsOver
  <2>9. JobsKept(n, m, mem, origin, origin', doubted')
    <3>1. \A x \in JobId \ doubted : m[JobKey(x)] = mem[JobKey(x)]
      BY <2>4, Zenon DEF JobCore, Undoubted
    <3>2. doubted \subseteq doubted'
      BY Zenon
    <3>3. origin'[id][1] = key /\ origin'[id][2] = at
      BY <1>2, Zenon
    <3>. QED
      <4>1. SUFFICES ASSUME NEW x \in JobId \ doubted', n[JobKey(x)] # NoRecord
                     PROVE  \/ /\ m[JobKey(x)] # NoRecord /\ mem[JobKey(x)] # NoRecord
                               /\ origin'[x] = origin[x]
                            \/ RunIsOver(n, origin'[x][1], origin'[x][2])
        BY Zenon DEF JobsKept
      <4>2. CASE x = id
        BY <2>8, <3>3, <4>2, Zenon
      <4>3. CASE x # id
        BY <1>2, <2>4, <3>1, <3>2, <4>1, <4>3, Zenon
      <4>. QED
        BY <4>2, <4>3, Zenon
  <2>10. SchedulesKept(n, m, mem, reenabled)
    BY <2>5, <2>6, Zenon DEF SchedulesKept
  <2>11. Passed(n, origin', doubted', reenabled)
    <3>1. doubted \subseteq doubted'
      OBVIOUS
    <3>. QED
      BY <2>7, <2>9, <2>10, <3>1, PassedStays, Zenon
  <2>. QED
    BY <2>1, <2>3, <2>11, Zenon DEF MapSourced, n
<1>5. /\ \A n \in Maps' : MapSourced(n, origin', firstRun', fires', doubted', reenabled')
      /\ \/ /\ doubted' = doubted /\ mem'[JobKey(id)] = job
            /\ \A x \in JobId \ {id} : mem'[JobKey(x)] = mem[JobKey(x)]
         \/ /\ doubted' = doubted \cup {id}
            /\ \A x \in JobId : mem'[JobKey(x)] = mem[JobKey(x)]
  BY <1>2, <1>4, CreationMaps, Zenon
<1>6. Sourced' /\ OneJobPerRun' /\ OneActivePerKey'
  <2>1. Ticked(id)'
    <3>1. <<key, at>> \in (({"schedule"} \X ScheduleId) \cup ({"cron"} \X CronId)) \X Time
      BY Zenon
    <3>2. origin'[id] # NoOrigin
      BY <1>2, <3>1, AbsenceAssumption, Zenon
    <3>. QED
      BY <1>2, <3>2, Zenon DEF Ticked
  <2>2. \/ origin'[id][1] \in reenabled'
        \/ \A x \in Present \ doubted : origin[x] # origin'[id]
    <3>. SUFFICES ASSUME key \notin reenabled, NEW x \in Present \ doubted, origin[x] = <<key, at>>
                  PROVE  FALSE
      BY <1>2, Zenon
    <3>1. x \in JobId \ doubted /\ mem[JobKey(x)] # NoRecord /\ origin[x] # NoOrigin
      BY <2>1, <1>2, PresentIsJob, Zenon DEF Ticked
    <3>2. Passed(mem, origin, doubted, reenabled)
      BY Zenon DEF SourceCore, MapSourced, Maps
    <3>3. RunIsOver(mem, key, at)
      BY <3>1, <3>2, Zenon DEF Passed
    <3>4. at \in Nat
      BY TimeIsNat, Zenon
    <3>5. at < at
      BY <3>3, Zenon DEF RunIsOver
    <3>. QED
      BY <3>4, <3>5
  <2>3. UNCHANGED retried /\ reenabled \subseteq reenabled'
    BY Zenon
  <2>. QED
    BY <1>2, <1>5, <2>1, <2>2, <2>3, CreationKeepsJobs, Zenon
<1>7. SourcesToldOK'
  BY <1>2, Zenon DEF SourceCore, SourcesToldOK
<1>. QED
  BY <1>5, <1>6, <1>7, Zenon DEF SourceCore

LEMMA TickKeeps ==
  ASSUME JobInv, SourceInv, call # NoCall, call.op = "tick", TickStep
  PROVE  JobInv' /\ SourceInv'
<1>0. /\ JobCore /\ SourceCore /\ SettledByHolder /\ mem \in Maps /\ call \in TickCall
      /\ \A sid \in call.ids : /\ mem[<<"schedule", sid>>] # NoRecord
                               /\ mem[<<"schedule", sid>>].enabled
                               /\ mem[<<"schedule", sid>>].next_run_ms <= call.now
  BY Zenon DEF JobInv, SourceInv, SourceCallOK, Maps
<1>1. PICK sid \in FirstOf(call.ids), id \in JobId :
        LET key == <<"schedule", sid>>
            at == mem[key].next_run_ms
            job == BuildJob(OccurrenceSpec(mem[key].job, at), at)
            next == Advanced(mem[key], call.now)
        IN  /\ Unused(JobKey(id))
            /\ next.next_run_ms <= MaxTime
            /\ Commit(id, Both(Put(key, next), PersistJobWithHistory(id, job, "Submitted")),
                      Fired(sid) /\ Quiet)
            /\ origin' = [origin EXCEPT ![id] = <<key, at>>]
            /\ UNCHANGED <<retried, firstRun, reenabled, fires>>
  BY Zenon DEF TickStep, FireWrites, JobKey
<1>. DEFINE key == <<"schedule", sid>>
            schedule == mem[key]
            at == schedule.next_run_ms
            spec == OccurrenceSpec(schedule.job, at)
            job == BuildJob(spec, at)
            next == Advanced(schedule, call.now)
            w == Both(Put(key, next), PersistJobWithHistory(id, job, "Submitted"))
<1>2. /\ sid \in call.ids /\ sid \in ScheduleId /\ call.ids \subseteq ScheduleId
      /\ call.now \in Time /\ call.left \in Nat \ {0} /\ key \in SourceKeys
  BY <1>0, SourceKeysOf, Zenon DEF FirstOf, TickCall
<1>3. schedule \in ScheduleRecord
  BY <1>0, <1>2, Zenon DEF SourceCore, MapSourced, SourcesFit
<1>4. at \in Time /\ schedule.job \in JobSpec /\ schedule.enabled /\ at <= call.now
  BY <1>0, <1>2, <1>3, Zenon DEF ScheduleRecord
<1>5. spec \in StoredSpec /\ spec.idempotency_key \notin CronId \X Time
  BY <1>4, OccurrenceIsNoCronRun, Zenon
<1>6. /\ next \in ScheduleRecord /\ at <= next.next_run_ms
      /\ next.enabled => at < next.next_run_ms
  BY <1>1, <1>2, <1>3, <1>4, AdvancedSchedule, Zenon
<1>7. /\ Unused(JobKey(id)) /\ UNCHANGED <<retried, firstRun, reenabled, fires>>
      /\ origin' = [origin EXCEPT ![id] = <<key, at>>]
      /\ UNCHANGED <<receipts, holder, settled, ended>>
      /\ \/ CommitOk(w) /\ doubted' = doubted /\ Fired(sid)
         \/ CommitInDoubt(w) /\ doubted' = doubted \cup {id} /\ call' = NoCall
  BY <1>1, Zenon DEF Commit, Quiet
<1>. HIDE DEF next, spec
<1>8. job \in JobRecord /\ job.spec = spec
  BY <1>4, <1>5, BuiltJob, Zenon
<1>. HIDE DEF w, job
<1>9. /\ Writes(w, id, job, <<"Submitted">>)
      /\ DOMAIN w = {key, JobKey(id), HistoryKey(id)} /\ w[key] = next
  <2>1. w = Both(Put(key, next), PersistJobWithHistory(id, job, "Submitted"))
    BY Zenon DEF w
  <2>2. w[key] = next
    BY <2>1, Zenon DEF Both, Put
  <2>3. Writes(w, id, job, <<"Submitted">>)
    BY <1>0, <1>2, <1>7, <2>1, NewWritesWith, Zenon
  <2>4. DOMAIN w = {key, JobKey(id), HistoryKey(id)}
    BY <1>0, <1>2, <1>7, <2>1, NewWritesWith, Zenon
  <2>. QED
    BY <2>2, <2>3, <2>4, Zenon
<1>10. JobCore'
  <2>1. Persisted(id, w)
    BY <1>7, Zenon DEF Persisted
  <2>. QED
    BY <1>0, <1>4, <1>5, <1>7, <1>9, <2>1, CreateFits, Zenon DEF job
<1>11. SourceCore'
  <2>1. \/ CommitOk(w) /\ doubted' = doubted
        \/ CommitInDoubt(w) /\ doubted' = doubted \cup {id}
    BY <1>7, Zenon
  <2>2. job.spec.idempotency_key \notin CronId \X Time
    BY <1>5, <1>8, Zenon
  <2>. QED
    BY <1>0, <1>2, <1>3, <1>4, <1>6, <1>7, <1>8, <1>9, <2>1, <2>2, TickKeepsSources, Zenon
<1>12. JobCallOK' /\ SourceCallOK'
  <2>1. CASE call' = NoCall
    BY <2>1, Zenon DEF JobCallOK, SourceCallOK
  <2>2. CASE CommitOk(w) /\ Fired(sid) /\ call' # NoCall
    <3>1. /\ call' = [op |-> "tick", ids |-> call.ids \ {sid}, left |-> call.left - 1,
                      now |-> call.now]
          /\ call.left # 1
      BY <2>2, Zenon DEF Fired
    <3>2. call' \in TickCall /\ call'.op = "tick" /\ call'.ids = call.ids \ {sid}
          /\ call'.now = call.now
      BY <1>2, <3>1 DEF TickCall
    <3>3. mem' = Written(mem, w)
      BY <2>2, MapsAfterOk, Zenon
    <3>4. \A s \in ScheduleId \ {sid} : mem'[<<"schedule", s>>] = mem[<<"schedule", s>>]
      BY <1>9, <3>3, KeysAreKeys, Zenon DEF Written, JobKey, HistoryKey
    <3>5. \A s \in call'.ids : /\ mem'[<<"schedule", s>>] # NoRecord
                               /\ mem'[<<"schedule", s>>].enabled
                               /\ mem'[<<"schedule", s>>].next_run_ms <= call'.now
      BY <1>0, <1>2, <3>2, <3>4, Zenon
    <3>. QED
      BY <3>2, <3>5, Zenon DEF JobCallOK, SourceCallOK
  <2>. QED
    BY <1>7, <2>1, <2>2, Zenon
<1>13. SettledByHolder'
  BY <1>0, <1>7, Zenon DEF SettledByHolder
<1>. QED
  BY <1>10, <1>11, <1>12, <1>13, Zenon DEF JobInv, SourceInv

=============================================================================
