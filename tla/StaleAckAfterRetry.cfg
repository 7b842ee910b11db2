CONSTANTS
  NoRecord = NoRecord
  NoWorker = NoWorker
  NoKey = NoKey
  NoDeadline = NoDeadline
  NoCall = NoCall
  Key = k
  RecordKey <- SourceRecords
  MaxDoubt = 0
  Worker = {w1, w2}
  JobId = {1}
  JobSpec <- PlainJobs
  Handler = {"h1"}
  JitterSeed <- Seeds
  MaxTime = 1
  MaxHistory = 6
  NoOrigin = NoOrigin
  ScheduleId = {}
  CronId = {}
  TriggerId = {}
  Every = 1
  CronTimes = {}
  MaxFires = 0
SPECIFICATION SpecSources
SYMMETRY Symmetry
INVARIANTS
  StaleAckRejected
