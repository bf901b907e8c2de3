SPECIFICATION FairSpec
CONSTANTS
  Lengths = {0, 2}
  JogSteps = 1
  MaxHome = 3
  Wrap = 5
  MaxPos = 4
  Calm = {"prompt", "hold", "pulse"}
INVARIANT LimitStops
PROPERTY ImplementsFairAxis
