SPECIFICATION PlanSpec
CONSTANTS
  Scenario <- TwoScenarios
  Runs <- UnevenRuns
  Misses <- NoMisses
  Script <- FollowUp
  LatencyChecked = {"t"}
  TargetCap = 2
  EarlyStop = TRUE
  GateOn = "corrected"
  Replay = TRUE
  Text = {"x"}
  Recordings <- EarlierRuns
  Retries = 1
  Votes = 3
INVARIANTS
  PlanCoversRun
  RequestsAccountForSteps
  StoppedIffSkipped
CHECK_DEADLOCK FALSE
