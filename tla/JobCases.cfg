CONSTANTS
  NoRecord = NoRecord
  NoWorker = NoWorker
  NoKey = NoKey
  NoDeadline = NoDeadline
  NoCall = NoCall
  NoOrigin = NoOrigin
  Key = k
  RecordKey <- SourceRecords
  MaxDoubt = 1
  Worker = {w1, w2}
  JobId = {1, 2}
  JobSpec <- MixedJobs
  Handler = {"h1", "h2"}
  JitterSeed <- Seeds
  MaxTime = 3
  MaxHistory = 4
  ScheduleId = {1}
  CronId = {1, 2}
  TriggerId = {1}
  Every = 1
  CronTimes = {1, 2, 3}
  MaxFires = 2
SPECIFICATION MCSpec
SYMMETRY Symmetry
CONSTRAINT Bounds
INVARIANTS
  SettledByHolder
  JobsEndForGood
  OneActivePerKey
  HistoryExplainsState
  SourcesKeepCount
