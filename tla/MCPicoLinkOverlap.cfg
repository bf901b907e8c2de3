\* Two readers of one stepper may overlap. The link may then stop for good.
CONSTANTS
  Steppers = {x, y}
  Callers = {gui}
  Readers = {r1, r2, r3}
  MsgQueueLen = 2
  MaxMoves = 0
  SerialReads = FALSE
  PromptRemove = TRUE
  None = None
SPECIFICATION Spec
SYMMETRY Sym
INVARIANTS FallMeansComplete
CHECK_DEADLOCK FALSE
