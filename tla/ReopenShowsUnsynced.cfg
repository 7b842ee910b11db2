CONSTANTS
  Key = {k1}
  Value = {v1}
  NoKey = NoKey
  NoValue = NoValue
  MaxTxId = 4
  MaxSequence = 8
  MaxOps = 1
  Durability = "Strict"
  RepairTornTail = TRUE
  MaxBytes = 6
  NamespaceQuota = TRUE
  WriteErrors = {"Clean"}
  SyncErrors = TRUE
SPECIFICATION Spec
INVARIANTS
  VisibleIsDurable
