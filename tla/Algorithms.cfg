SPECIFICATION MCSpec
CONSTANTS
  Far = 7
  Radii = {2, 3, 4, 5, 6, 7}
  Jogs = {1, 2, 3, 7, 14, 15, 16, 17, 18, 30}
  Speeds <- SomeSpeeds
  Word = 32
  WheelFar = 5
  Unseen = 2
  Leftover <- SomeMasks
  Blocks <- SomeBlocks
  MaxPos = 2
  BlockCalm = {"words", "flat", "relative"}
  Letters = {"G", "M"}
  Arguments = {"X", "F"}
  MaxBlocks = 2
  EditorCalm = {"once", "none", "words"}
  Keys = {1, 2, 3, 4, 5, 6, 7}
  Data = {1, 2}
  MaxNodes = 7
INVARIANTS PathInv EditorCorrect TreeSound
PROPERTIES MovesWell WheelCorrect BlocksCorrect IsAMap
CHECK_DEADLOCK FALSE
