SPECIFICATION FairSpec
CONSTANTS
  c1 = c1
  c2 = c2
  Callers = {c1, c2}
  ModuleOf <- MCModuleOf
  Ids = {b1, b2, b3, b4}
  Configs <- MCConfigs
  Unreadable = Unreadable
  Default = 3
  Settable = {1, 5}
  MaxEdits = 1
  MaxChanges = 1
INVARIANTS
  IInv
  ConsumersAreBackends
  VersionTellsConfiguration
  CurrentUnlessRaced
  MinIsLowerBound
PROPERTIES
  LastEditIsApplied
  CallsReturn
