CONSTANTS
    a = a b = b c = c o = o
    Samples = {a, b, c, o}
    Rows <- MCRows Isolated <- MCIsolated
    Settings = {1, 2} Options <- MCOptions
    Limit = 2 MaxRow = 2 MaxCrashes = 1
SPECIFICATION FairSpec
INVARIANTS
  CompletedIsReported
  JudgedOnce
  ResultIsTrue
  OneFooting
PROPERTIES
  RunsFinish
CHECK_DEADLOCK FALSE
