SPECIFICATION Spec
CONSTANTS
  Md5s = {m1, m2}
  Batches = {b1}
  Jobs = {j1, j2}
  Threads = {w1, w2}
  Handlers = {h1, h2}
  NoMd5 = NoMd5
  NoJob = NoJob
  NoBatch = NoBatch
  PoolSize = 2
  MaxRequests = 3
  MaxRestarts = 1
  MaxFaults = 0
SYMMETRY Symmetry
INVARIANTS
  CacheCoherent
  RunningIsWorked
PROPERTIES
  ProgressNeverLost
CHECK_DEADLOCK FALSE
