SPECIFICATION FairSpec
CONSTANTS
  Chunks = 2
  Capacity = 1
  MaxFailures = 1
INVARIANTS
  IInv
  FailsOnlyWithTheSystem
PROPERTIES
  ImplementsChildCall
  RunReturns
CHECK_DEADLOCK FALSE
