SPECIFICATION FairSpec
CONSTANTS
  a = a
  b = b
  c = c
  v1 = v1
  v2 = v2
  v3 = v3
  Attempt <- OneAttempt
  Ballot <- ThreeVotes
  JudgeCap = 2
  CacheOn = TRUE
  Content = {"x"}
  Recordings <- AnyCache
INVARIANTS
  TypeOK
  JudgeSlotsConserved
  VotesAreMeasured
  OnlyOrphansOutliveClients
PROPERTY
  GatheringEnds
CHECK_DEADLOCK FALSE
