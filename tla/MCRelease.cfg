SPECIFICATION GovernanceSpec
CONSTANTS
    c1 = c1 c2 = c2 k1 = k1 train1 = train1 test1 = test1 fam = fam named = named
    Candidates <- MCCandidates Components <- MCComponents
    NoCandidate = NoCandidate NoComponent = NoComponent
    None = None Missing = Missing
    InitialRegistries <- MCRegistries
    p1 = p1 p2 = p2 Procs = {p1, p2} Processes = {p1, p2}
    MaxCommands = 3 MaxCrashes = 1
    Contents <- MCContents Versions = {named} Cards <- MCCards Base <- MCBase
    Scenes <- MCScenes
    MaxReads = 5 MaxWrites = 2
INVARIANTS
  OneChampion
  NothingSkipped
  RollbackTargetKept
  NoLostUpdate
  ServedIsGoverned
PROPERTIES
  Atomically
SYMMETRY Symmetry
CHECK_DEADLOCK FALSE
