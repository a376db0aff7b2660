SPECIFICATION Spec
CONSTANTS
  Keys = {k1}
  Requests = {r1, r2, r3}
  Rate = 2
  Burst = 6
  Cost = 3
  MaxClock = 5
INVARIANTS
  WindowBound
PROPERTIES
  PacedIsServed
SYMMETRY MCSymmetry
