\* The user and the readers unbound: lines are refused and moves ignored.  An axis
\* may then be left armed for good.
CONSTANTS
  N = 2
  MaxRuns = 2
  Modes = {"AUTO", "JOG"}
  Calm = {}
  Blocks <- FewBlocks
SPECIFICATION Spec
PROPERTIES NeverTwice
CHECK_DEADLOCK FALSE
