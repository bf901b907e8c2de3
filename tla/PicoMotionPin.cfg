SPECIFICATION Spec
CONSTANTS
  Lengths = {0, 1, 2}
  JogSteps = 1
  MaxHome = 3
  Wrap = 5
  MaxPos = 4
  Calm = {"prompt", "hold", "alone", "ahead", "pulse"}
INVARIANT PinShowsMotion
