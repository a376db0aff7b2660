SPECIFICATION Spec
CONSTANTS
  b1 = b1
  b2 = b2
  b3 = b3
  s1 = s1
  s2 = s2
  Main = Main
  SessionOf <- MCSessionOf
  Size <- MCSize
  ForeignKeys = TRUE
  Batches = {b1}
  Malformed = {}
  Sessions = {s1}
  Workers = {w1}
  Retriers = {}
  WithToken = {}
  WithClient = {}
  MaxAttempts = 2
  ReclaimCount = 2
  FaultKinds = {"db", "park"}
  MaxFaults = 3
  MaxCrashes = 0
  MaxShutdowns = 0
  MaxRetries = 0
  MaxDeletes = 0
INVARIANTS
  NoSilentDrop
CHECK_DEADLOCK FALSE
