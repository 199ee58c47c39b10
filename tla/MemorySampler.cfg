SPECIFICATION MemSpec
CONSTANTS
  MaxSamples = 3
  Period = 2
  MaxLate = 2
  Jumps = {2}
  MaxJumped = 2
  MaxWakeups = 1
  MaxTime = 9
INVARIANTS
  MemInv
  RateIsPerPeriod
  RateIsRecent
