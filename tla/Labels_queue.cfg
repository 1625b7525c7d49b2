SPECIFICATION Spec
CONSTANTS
  Run = {r1, r2}
  Outcomes <- SomeOutcomes
  QueueSize = 2
  MaxSessions = 2
SYMMETRY Alike
CONSTRAINT CollidedEarly
INVARIANTS
  QueueIsDistinct
  FreshIsWhatWasFlagged
  QueuedUntilHandled
  LabelledOnce
CHECK_DEADLOCK FALSE
