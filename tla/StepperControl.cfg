CONSTANTS
  N = 2
  MaxRuns = 2
  Modes = {"AUTO", "MDI", "JOG", "HOME"}
  Calm = {"rest", "alone", "seen", "steady"}
  Blocks <- UnevenBlocks
SPECIFICATION FairSpec
INVARIANTS ControlInv NoneLeftArmed HoldHolds
PROPERTIES StartTogether BlockAfterBlock NeverHangs ProgramEnds
