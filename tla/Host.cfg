CONSTANTS
  NoFile = NoFile
  NoTask = NoTask
  MaxFiles = 3
  MaxAcked = 2
  MaxFaults = 3
  Key = {k1}
  Value = {v1}
  NoKey = NoKey
  NoValue = NoValue
  MaxTxId = 3
  MaxSequence = 4
  MaxOps = 1
  MaxLen = 3
  Process = {p1, p2}
  Name = {n1, n2}
  Handle = {1, 2}
  a = a
  b = b
  c = c
  QuotaKey = {a, b, c}
  NamespaceOf <- Namespace
  MaxSize = 2
  Limit = {1, 3}
  NoQuota = NoQuota
  MaxTotal = 3
  Absent = Absent
  UserKey = {u1, u2}
  Reserved = reserved
  UserValue = {x1}
  NoUserValue = NoUserValue
  Object = {o1, o2}
  NoObject = NoObject
  MaxOperations = 2
  PrimaryKey = {1, 2, 3}
  Datum = {d1, d2}
  NoRow = NoRow
  Migrator = {m1, m2}
  NoMigration = NoMigration
  BatchSize = 2
  MaxWrites = 2
  Maker = {t1, t2}
  NoBackup = NoBackup
  Damaged = Damaged
  MaxVersion = 2
  Expression <- Expressions
  LastYear = 2104
SPECIFICATION MCSpec
CHECK_DEADLOCK FALSE
INVARIANTS
  ScanIsRight
  NothingIsLost
  ReportedCopiesHold
  WritersAreExclusive
  VerdictIsRight
  PythonTransactionsHold
  MigratedInFull
  ManifestTellsBackup
  RunsFollowTheCalendar
PROPERTIES
  NoFileIsReplaced
  ActivationSettles
  CommitsAreWhole
