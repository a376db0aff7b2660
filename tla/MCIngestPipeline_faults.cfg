SPECIFICATION Spec
CONSTANTS
  b1 = b1
  b2 = b2
  b3 = b3
  s1 = s1
  s2 = s2
  Main = Main
  SessionOf <- MCSessionOf
  Size <- MCSize
  ForeignKeys = TRUE
  Batches = {b1, b2}
  Malformed = {}
  Sessions = {s1}
  Workers = {w1, w2}
  Retriers = {r1, r2}
  WithToken = {b1}
  WithClient = {b1}
  MaxAttempts = 2
  ReclaimCount = 2
  FaultKinds = {"enqueue", "read", "reclaim", "ack", "db"}
  MaxFaults = 3
  MaxCrashes = 1
  MaxShutdowns = 0
  MaxRetries = 2
  MaxDeletes = 0
INVARIANTS
  TypeOK
  NoSilentDrop
  CountWithinEvents
  ResolvedIsPersisted
PROPERTIES
  SetOnceColumnsStick
  ImplementsDelivery
SYMMETRY MCSymmetry
CHECK_DEADLOCK FALSE
