CONSTANTS
  NoRecord = NoRecord
  NoTx = NoTx
  NoCall = NoCall
  NoOffset = NoOffset
  NoConsumer = NoConsumer
  NoDeadline = NoDeadline
  NoReader = NoReader
  Expired = Expired
  RecordKey <- MessagingKeys
  MaxDoubt = 1
  MaxStaged = 2
  Stream = {s}
  Subscription = {b}
  Payload = {1, 2}
  MaxOffset = 2
  Group = {g}
  Consumer = {1, 2}
  MaxGeneration = 3
  MaxTime = 1
  MaxTx = 3
  Nonce = {1, 2}
  Answer = {a}
SPECIFICATION MCSpec

CONSTRAINT Bounds
INVARIANTS
  StreamsKeepEntries
  SubscribersMissNothing
  LeasesAreFenced
  GroupSkipsNothing
  RequestsAreAnsweredOnce
  EventsReachReaders
  ChangesAreKept
