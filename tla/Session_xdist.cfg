SPECIFICATION FairSpec
CONSTANTS
  Worker = {w1, w2}
  Items <- TwoItems
  Cap = 3
  Scope = "global"
  ExitFirst = TRUE
INVARIANTS
  TypeOK
  ReportsWhatItAskedFor
  NoneOutlivesClients
  CapIsShared
PROPERTY
  EverySessionEnds
CHECK_DEADLOCK FALSE
