CONSTANTS
  Configs <- MCConfigs
  BufferMs = 1
  CheckoutEveryNms = 0
  FlushMaxBytes = 3
  SnapshotBytes = 2
  SessionTTL = 2
  StorageModes = {"ok", "failing"}
  Identifiers = {"anonymous", "user"}
  ToastMs = 1
  MaxTime = 3
  MaxIds = 5
  MaxEvents = 8
  MaxReports = 2
SPECIFICATION SDKSpec
CONSTRAINT Focus
INVARIANTS
  TypeOK RewindCovers RewindUnbroken RewindBounded RewindReplayable
  TokenPerSession StopCleansUp ButtonComesBack
PROPERTIES ClientOnFirstBatch StreamConserves ToastStays
CHECK_DEADLOCK FALSE
