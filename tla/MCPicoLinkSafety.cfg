\* Two steppers, one caller, room for three reader threads: readers of both
\* steppers and a reader that has gone on to stepper_update can meet.
CONSTANTS
  Steppers = {x, y}
  Callers = {gui}
  Readers = {r1, r2, r3}
  MsgQueueLen = 1
  MaxMoves = 1
  SerialReads = TRUE
  PromptRemove = TRUE
  None = None
SPECIFICATION Spec
SYMMETRY Sym
INVARIANTS
  LinkInv
  OneBusOwner
  ClockedWhenReady
  FallMeansComplete
  ViewFresh
