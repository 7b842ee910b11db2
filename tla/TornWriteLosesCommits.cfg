CONSTANTS
  Key = {k1}
  Value = {v1}
  NoKey = NoKey
  NoValue = NoValue
  MaxTxId = 4
  MaxSequence = 9
  MaxOps = 1
  Durability = "Strict"
  RepairTornTail = TRUE
  MaxBytes = 8
  NamespaceQuota = TRUE
  WriteErrors = {"Torn"}
  SyncErrors = TRUE
SPECIFICATION Spec
INVARIANTS
  AckedIsDurable
