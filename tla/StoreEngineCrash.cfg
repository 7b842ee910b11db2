CONSTANTS
  Key = {k1}
  Value = {v1}
  NoKey = NoKey
  NoValue = NoValue
  Closed = Closed
  MaxTxId = 4
  MaxSequence = 7
  MaxOps = 2
  Durability = "Strict"
  RepairTornTail = TRUE
  MaxBytes = 6
  NamespaceQuota = TRUE
  WriteErrors = {"Clean"}
  SyncErrors = TRUE
SPECIFICATION Spec
INVARIANTS
  TypeOK
  OwnRecordsOnly
  AckedIsDurable
  FeedIsComplete
PROPERTY ImplementsTransactionalStore
