CONSTANTS
  Key = {k1}
  Value = {v1}
  NoKey = NoKey
  NoValue = NoValue
  MaxTxId = 4
  MaxSequence = 9
  MaxOps = 1
  Durability = "Strict"
  RepairTornTail = TRUE
  MaxBytes = 7
  NamespaceQuota = FALSE
  WriteErrors = {"Torn"}
  SyncErrors = TRUE
SPECIFICATION Spec
VIEW WithoutAcked
INVARIANTS
  RecoveryAccepts
  VisibleIsCommitted
