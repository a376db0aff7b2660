SPECIFICATION FairSpec
CONSTANTS
  b1 = b1
  b2 = b2
  b3 = b3
  s1 = s1
  s2 = s2
  Main = Main
  SessionOf <- MCSessionOf
  Size <- MCSize
  ForeignKeys = TRUE
  Batches = {b1, b2}
  Malformed = {m1}
  Sessions = {s1}
  Workers = {w1, w2}
  Retriers = {}
  WithToken = {}
  WithClient = {}
  MaxAttempts = 1
  ReclaimCount = 2
  FaultKinds = {"db", "park"}
  MaxFaults = 1
  MaxCrashes = 1
  MaxShutdowns = 1
  MaxRetries = 0
  MaxDeletes = 1
INVARIANTS
  PendingIsInFlight
  CleanShutdown
  SingleHolder
  ExactlyOnceWithoutFaults
PROPERTIES
  SettledIsFinal
  EventuallySettled
CHECK_DEADLOCK FALSE
