SPECIFICATION FairSpec
CONSTANTS
  Requesters = {r1, r2}
  AllowUnload = TRUE
  SendsInstance = TRUE
  MayThrow = {"init", "do", "cleanup"}
  Forced = FALSE
  Addresses = {a1, a2}
  Null = Null
INVARIANTS
  IInv
  NoUseAfterDelete
  DoIsPrepared
PROPERTY RequestsReturn
