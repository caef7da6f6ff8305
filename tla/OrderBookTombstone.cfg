CONSTANTS
  TableSize = 4
  SIZE_MAX = SIZE_MAX
  Writers = {w1}
  Readers = {}
  Updates <- RemovedCollision
  SubUnits = 2
  MaxLevels = 2
  Depth = 1
  Clearing = FALSE
  MaxOps = 4
SPECIFICATION Spec
INVARIANTS MapFindsLevels
CHECK_DEADLOCK FALSE
