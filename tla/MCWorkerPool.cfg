SPECIFICATION FairSpec
CONSTANTS
  InitialWorkerCount = 2
  MinWorkerCount = 1
  MaxWorkerCount = 4
  ScaleUpThreshold = 1
  ScaleDownThreshold = 2
  WorkerScaleFactor = 2
  MaxBacklog = 1
  MaxStranded = 4
  MaxLeaving = 1
  MaxId = 7
INVARIANTS
  TypeOK
  WithinLimits
  ChannelsHaveWorkers
CHECK_DEADLOCK FALSE
PROPERTIES
  ShutdownCompletes
