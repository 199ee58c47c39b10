SPECIFICATION Spec
CONSTANTS
  Pids = {p1, p2}
  MaxPasses = 3
  MaxBirths = 2
SYMMETRY Symmetry
INVARIANTS
  IInv
  TableIsRecent
  ListIsTheTable
