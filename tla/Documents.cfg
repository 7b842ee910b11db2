CONSTANTS
  NoRecord = NoRecord
  NoTx = NoTx
  NoCall = NoCall
  NoWait = NoWait
  NoExpiry = NoExpiry
  NoBound = NoBound
  NoLimit = NoLimit
  RecordKey <- DocumentKeys
  MaxDoubt = 1
  MaxStaged = 2
  WorkflowId = {1, 2}
  Signal = {s}
  MaxTimer = 1
  MaxHistory = 4
  PrimaryKey = {1, 2}
  Index = {1, 2}
  IndexVal = {1, 2}
  MaxVersion = 3
  MaxPairs = 2
  Object = {1, 2}
  RefName = {r1, r2}
  MaxRetention = 1
  UserKey = {1, 2}
  MaxExpiry = 1
  MinCount <- LeastCount
  MaxCount = 2
  Delta <- Deltas
  Message = {1, 2}
  MaxMessage = 3
  WorkId = {1, 2}
  WorkKey = {k}
  NoKey = NoKey
  Trigger = {t}
  MaxFires = 2
SPECIFICATION MCSpec
CONSTRAINT Bounds
INVARIANTS
  WorkflowsAreSound
  CollectionIsSound
  ReferencesAreSound
  ValuesAreSound
  StagedWorkIsSound
