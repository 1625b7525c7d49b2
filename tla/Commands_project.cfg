SPECIFICATION Spec
CONSTANTS
  None = None
  Criteria <- TwoCriteria
  PackCriteria <- OnePack
  PackIds <- OnePackId
  HandIds <- HandWritten
  Drafts <- SomeDrafts
  Judges <- SomeJudges
  InitJudge <- Sonnet
  Examples <- Placeholders
  Case <- SomeCases
  Earlier <- EarlierReports
  MinCases = 2
  MaxCommands = 3
INVARIANTS
  CorrectedByItsJudge
  FallsBackOnOwnCases
  CorrectionUndoesError
  IdsAreDistinct
PROPERTY
  KeptUnlessForced
CHECK_DEADLOCK FALSE
