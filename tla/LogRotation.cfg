SPECIFICATION FairSpec
CONSTANTS
  Threads = {t1, t2}
  Files = {b1, b2}
  Unwritable = {b2}
  MaxRotations = 2
  Nobody = nobody
INVARIANTS
  IInv
  NoStreamIsLeftBehind
PROPERTIES
  RotationEnds
CHECK_DEADLOCK FALSE
