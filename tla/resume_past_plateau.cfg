CONSTANTS
  BatchSize = 2
  GridSize = 3
  NumArms = 2
  AttemptsPerArm = 3
  InitialRandom = 2
  PoolSize = 3
  Patience <- MCPatience
  MinDelta <- MCMinDelta
  Draw <- MCDraw
  Acquisition <- MCAcquisition
  Ucb <- MCUcb
  Contenders <- MCContenders
  Breed <- MCBreed
  Unit = 10
  NoOutcome = NoOutcome
  FirstVersion = 2
  Measurements <- MCMeasurements
  TimeoutLatency = 9
  Baseline <- MCBaseline
  Weights <- MCWeights
  GateConfig <- MCGates
  SafetyLimits <- MCLimits
  QualityMargin = 1
  SafetyMargin = 1
  Penalty = 1
  Challenges = 2
  MaxCandidates = 5
  MaxBatches = 3
  MaxRequests = 100
  MaxCost = 100
  MaxMinutes = 3
  ExtraCandidates = 1
  MaxCrashes = 1
  MaxReruns = 0
SPECIFICATION Spec
INVARIANT NoGenerationPastPlateau
CHECK_DEADLOCK FALSE
