CONSTANTS
  Steppers = {x}
  Callers = {gui}
  Readers = {r1, r2}
  MsgQueueLen = 2
  MaxMoves = 1
  SerialReads = TRUE
  PromptRemove = TRUE
  None = None
SPECIFICATION FairSpec
PROPERTIES CallReturns
