SPECIFICATION Spec
CONSTANTS
  a = a
  b = b
  c = c
  v1 = v1
  v2 = v2
  v3 = v3
  Attempt <- ThreeAttempts
  Ballot <- OneVote
  JudgeCap = 2
  CacheOn = TRUE
  Content = {"x", "y"}
  Recordings <- AnyCache
SYMMETRY
  Interchangeable
INVARIANTS
  FreshVotesBilled
  SameContentSameVerdict
CHECK_DEADLOCK FALSE
