SPECIFICATION MCSpec
CONSTANTS
  t0 = t0
  t1 = t1
  t2 = t2
  t3 = t3
  Threads <- Four
  Config = t0
  Calm = {"apart", "own"}
  Far = 2
  Jogs = {1, 2, 5}
  Radii = {2}
  Corners = {0, 3}
  Clk = 99
  AxisCalm = {"rest", "long", "prompt", "untorn"}
  Esps = 2
  MaxMsgs = 4
  MaxStale = 2
  LinkCalm = {"prompt"}
  Programs <- Seven
  MaxTimers = 3
  LaserCalm = {"clean", "held", "still", "motion", "dark"}
INVARIANTS EspAxisCorrect HostCorrect
PROPERTIES EspLinkCorrect LaserCorrect
CHECK_DEADLOCK FALSE
