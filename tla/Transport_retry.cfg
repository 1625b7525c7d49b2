SPECIFICATION Spec

CONSTANTS
  Retries = 2
  MaxLines = 5

INVARIANTS
  TypeOK
  ResendsBounded
  ReplyIsWholeStream
  ResponseClosed

CHECK_DEADLOCK FALSE
