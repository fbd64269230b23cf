CONSTANTS
    a = a b = b c = c d = d
    SuiteSamples = {a, b} Roles <- MCRoles BatchSizes = {1, 2} MaxFaults = 2
    Apps <- MCApps Agents = {"static_analysis"} Workbooks <- MCWorkbooks SplitOf <- MCSplit
    ManualMinimum = 2 MaxDeaths = 1
    Samples = {a, b} Casts <- MCCasts ChunkRows = 2 PullLimit = 1 MaxCrashes = 1
SPECIFICATION OfflineSpec
INVARIANTS
  CardIsTrue
  ImportedIsKept
PROPERTIES
  CalibrationMatches
  AllStartsAfresh
CHECK_DEADLOCK FALSE
