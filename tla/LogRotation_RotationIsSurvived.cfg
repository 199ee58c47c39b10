SPECIFICATION Spec
CONSTANTS
  Threads = {t1, t2}
  Files = {b1}
  Unwritable = {}
  MaxRotations = 1
  Nobody = nobody
INVARIANTS
  RotationIsSurvived
