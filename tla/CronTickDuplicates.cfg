CONSTANTS
  NoRecord = NoRecord
  NoWorker = NoWorker
  NoKey = NoKey
  NoDeadline = NoDeadline
  NoCall = NoCall
  Key = k
  NoOrigin = NoOrigin
  RecordKey <- SourceRecords
  MaxDoubt = 0
  Worker = {w1}
  JobId = {1, 2}
  JobSpec <- PlainJobs
  Handler = {"h1"}
  JitterSeed <- Seeds
  MaxTime = 3
  MaxHistory = 2
  ScheduleId = {}
  CronId = {1}
  TriggerId = {}
  Every = 1
  CronTimes = {1, 2, 3}
  MaxFires = 2
SPECIFICATION SpecSources
INVARIANTS
  CronTickIsIdempotent
