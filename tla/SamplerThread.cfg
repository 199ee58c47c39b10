SPECIFICATION FairSpec
CONSTANTS
  Samplers = {s1, s2}
  Catching = {s1}
INVARIANTS
  IInv
  NoSampleAfterCleanUp
PROPERTIES
  CleanUpReturns
  SamplesKeepComing
