SPECIFICATION FairSpec
CONSTANTS
  Md5s = {m1, m2}
  Batches = {b1}
  Jobs = {j1}
  Threads = {w1, w2}
  Handlers = {h1}
  NoMd5 = NoMd5
  NoJob = NoJob
  NoBatch = NoBatch
  PoolSize = 1
  MaxRequests = 3
  MaxRestarts = 1
  MaxFaults = 1
INVARIANTS
  OneWorker
  ProgressNeverOverstated
PROPERTIES
  KeepsLedger
  JobSettles
CHECK_DEADLOCK FALSE
