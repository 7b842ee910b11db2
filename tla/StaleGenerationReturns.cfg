CONSTANTS
  NoFile = NoFile
  NoTask = NoTask
  MaxFiles = 3
  MaxAcked = 2
  MaxFaults = 3
SPECIFICATION MCSpec
INVARIANT EveryLayoutServesAll
