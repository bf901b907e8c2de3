CONSTANTS
  Tick = 1
  Moving = {"x", "sync"}
  Regs = {"x", "y"}
  Rank <- TwoInputs
  Values = {0, 1}
  Ones = 1
  Gap = 4
  MaxReads = 3
  MaxChanges = 3
  Msb = 2
  Delay = 2
  Half = 8
  Answer <- Complement
SPECIFICATION MCSpec
INVARIANTS SteadySeen LimitStops RegisterFollows LineAnswered HostKnows TransferExact
