SPECIFICATION Spec
CONSTANTS
  Jobs = {j1, j2}
  Handlers = {h1, h2}
  NoJob = NoJob
  N = 1
  Platforms = {"nt", "posix"}
  MaxOperators = 1
  MaxRequests = 3
  MaxLists = 1
  MaxFaults = 1
SYMMETRY Symmetry
INVARIANTS
  CompletedRanAll
  OneExperimentOnNt
PROPERTIES
  CancelStops
CHECK_DEADLOCK FALSE
