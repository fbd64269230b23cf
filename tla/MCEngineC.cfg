SPECIFICATION EngineSpec
CONSTANTS
  Settings <- MCSettings
  Voices <- MCVoices
  MaxFaults = 2
  Samples <- MCSamples
  ParamSets <- MCParamSets
  Calibrations <- MCCalibrations
  Investigations <- MCInvestigations
  Probabilities <- MCProbabilities
INVARIANTS
  CostKept
  RulesOnlyComplete
  NoSilentBenign
PROPERTIES
  DebateEnds
