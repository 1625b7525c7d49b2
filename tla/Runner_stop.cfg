SPECIFICATION Spec
CONSTANTS
  Scenario <- OneScenario
  Runs <- FourRuns
  Misses <- OneMiss
  Script <- OneMessage
  LatencyChecked = {}
  TargetCap = 2
  EarlyStop = TRUE
  GateOn = "observed"
  Replay = FALSE
  Text = {"x"}
  Recordings <- NoRecordings
INVARIANTS
  TypeOK
  TallyExact
  StoppedIffSkipped
PROPERTIES
  NoFirstRequestOnceDecided
  Samples
CHECK_DEADLOCK FALSE
