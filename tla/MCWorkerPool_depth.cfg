SPECIFICATION FairSpec
CONSTANTS
  InitialWorkerCount = 2
  MinWorkerCount = 2
  MaxWorkerCount = 10
  ScaleUpThreshold = 15
  ScaleDownThreshold = 5
  WorkerScaleFactor = 2
  MaxBacklog = 18
  MaxStranded = 0
  MaxLeaving = 0
  MaxId = 19
PROPERTIES
  ScalesWithQueueDepth
CHECK_DEADLOCK FALSE
