SPECIFICATION AgentsSpec
CONSTANTS
  Scope <- MCScope
  Remedies <- MCRemedies
  Candidates <- MCCandidates
  Overrides <- MCOverrides
  Registry = {a1, a2, a3, a4}
  Disabled = {a4}
  MaxWorkers = 2
  MaxRetries = 1
INVARIANTS
  BenignNeedsStatic
  GateIsTrue
  Accounted
PROPERTIES
  ExecuteReturns
CHECK_DEADLOCK FALSE
