CONSTANTS
  Steppers = {x, y}
  Callers = {gui}
  Readers = {r1, r2}
  MsgQueueLen = 2
  MaxMoves = 0
  SerialReads = TRUE
  PromptRemove = TRUE
  None = None
SPECIFICATION FairSpec
PROPERTIES ImplementsBus ImplementsFairBus
