SPECIFICATION Spec
CONSTANTS
  Worker = {w1, w2}
  Items <- TwoItems
  Cap = 3
  Scope = "global"
  ExitFirst = TRUE
INVARIANT
  SplitAcrossWorkers
CHECK_DEADLOCK FALSE
