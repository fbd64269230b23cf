SPECIFICATION Spec
CONSTANTS
  Calls = {r1, r2, r3}
  Contents = {k1}
  Models = {m1, m2}
  NoCall = NoCall
  MaxFaults = 1
  MaxSettings = 1
  MaxExpiry = 1
SYMMETRY Symmetry
INVARIANTS
  CompletePass
  CachedIsFinished
CHECK_DEADLOCK FALSE
