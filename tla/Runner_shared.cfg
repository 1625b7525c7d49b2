SPECIFICATION FairSpec
CONSTANTS
  Scenario <- TwoScenarios
  Runs <- UnevenRuns
  Misses <- UnevenMisses
  Script <- UnevenScript
  LatencyChecked = {}
  TargetCap = 1
  EarlyStop = TRUE
  GateOn = "observed"
  Replay = FALSE
  Text = {"x"}
  Recordings <- NoRecordings
INVARIANT
  SlotsConserved
PROPERTIES
  EveryScenarioEnds
  RaiseIsReported
CHECK_DEADLOCK FALSE
