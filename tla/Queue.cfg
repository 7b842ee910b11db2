CONSTANTS
  NoRecord = NoRecord
  RecordKey = {0, 1, 2}
  MaxDoubt = 2
  Worker = {w1, w2}
  Payload = {p1, p2}
  MaxId = 3
  MaxAttempts = 3
  MaxTime = 1
  Priority = {0, 1}
SPECIFICATION Spec
SYMMETRY Symmetry
CONSTRAINT Bounds
INVARIANTS
  GenerationsAreUnique
  SettledIsFinal
  PushedIsKept
  DeliveredAsPushed
