------------------------------ MODULE MCJobCases -----------------------------
(***************************************************************************)
(* The cases that TLC explores: the life of jobs that callers submit, and  *)
(* sources of one kind with the jobs they create.                          *)
(***************************************************************************)
EXTENDS MCJobSources

VARIABLE focus

MCInit == InitSources /\ focus \in {"jobs", "sources"}

In(case, steps) == focus = case /\ steps /\ UNCHANGED focus

(* No worker claims the jobs of a source: what is checked of sources does  *)
(* not depend on their fate.                                               *)
MCNext ==
  \/ In("jobs", (SubmitSteps(JobSpec, 0 .. 1) \/ WorkSteps(0 .. 1) \/ CallSteps \/ StoreSteps)
               /\ UNCHANGED sourceHistory)
  \/ In("sources", (SubmitSteps(PlainJobs, {0}) \/ CallFails \/ StoreSteps) /\ UNCHANGED sourceHistory)
  \/ In("sources", CreateSteps(PlainJobs))
  \/ In("sources", FireSteps)

MCSpec == MCInit /\ [][MCNext]_<<allVars, focus>>

Maps == {mem} \cup {medium[i] : i \in DOMAIN medium}

Exists(key) == \E m \in Maps : m[key] # NoRecord

Kinds == {key[1] : key \in {k \in SourceKeys : Exists(k)}}

Jobs == {id \in JobId : Exists(<<"job", id>>)}

(* One job with five history entries, or with three after a commit in      *)
(* doubt unless it has one attempt only; or two jobs with six together and *)
(* no commit in doubt; leases and delays that end at time 1.               *)
JobBounds ==
  /\ \A m \in Maps : \A id \in Jobs : m[<<"job", id>>] # NoRecord =>
       /\ m[<<"job", id>>].available_at_ms <= 1
       /\ m[<<"job", id>>].lease_until_ms <= 1
  /\ doubted # {} => \A id \in Jobs : mem[<<"history", id>>] # NoRecord =>
       Len(History(id)) <= 3 \/ mem[<<"job", id>>].spec.max_attempts = 1
  /\ 2 \in Jobs => /\ 1 \in Jobs
                   /\ doubted = {}
                   /\ Len(History(1)) + Len(History(2)) <= 6

(* Sources of one kind; jobs that are created in the order of their        *)
(* identifiers, after a source; cron schedules that start with the first   *)
(* run, and two of them only while no commit is in doubt; interval         *)
(* schedules up to their third run.                                        *)
SourceBounds ==
  /\ Cardinality(Kinds) <= 1
  /\ Jobs # {} => Kinds # {}
  /\ 2 \in Jobs => 1 \in Jobs
  /\ \A cid \in CronId : firstRun[cid] <= 1
  /\ firstRun[1] = firstRun[2] /\ firstRun[1] # 0 => Len(medium) = 1
  /\ firstRun[1] = 0 => firstRun[2] = 0
  /\ \A m \in Maps :
       /\ \A sid \in ScheduleId : m[<<"schedule", sid>>] # NoRecord =>
            m[<<"schedule", sid>>].next_run_ms <= 2
       /\ \A tid \in TriggerId : m[<<"trigger", tid>>] # NoRecord =>
            m[<<"trigger", tid>>].available_at_ms = 0

Bounds == IF focus = "jobs" THEN JobBounds ELSE SourceBounds

=============================================================================
