SPECIFICATION Spec
CONSTANTS
  Scenario <- TwoScenarios
  Runs <- UnevenRuns
  Misses <- RelaxedMisses
  MayStop = TRUE
  Corrected = FALSE
  Alpha <- OneInFive
  MinEffect <- OneInTen
INVARIANTS
  StoppedVerdictSound
  ExpectedIsAverage
  RegressionIsReal
  StoppedIsNoEstimate
CHECK_DEADLOCK FALSE
