SPECIFICATION PosFairSpec
CONSTANTS
  Inodes = {11, 12}
  FirstInode = 11
  MaxMatched = 2
  MaxRows = 3
  Slow = {2}
  MaxChanges = 1
  MaxFailures = 1
INVARIANTS
  PosInv
  NothingIsSkipped
  OnlyOverlappedRowsRepeat
  OnlyUnfinishedRowsAreSplit
PROPERTIES
  RowsAreDelivered
