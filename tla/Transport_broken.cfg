SPECIFICATION Spec

CONSTANTS
  Retries = 1
  MaxLines = 2

INVARIANT
  BrokenStreamIsAnError

CHECK_DEADLOCK FALSE
