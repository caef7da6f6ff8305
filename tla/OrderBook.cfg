CONSTANTS
  TableSize = 4
  SIZE_MAX = SIZE_MAX
  Writers = {w1}
  Readers = {r1}
  Updates <- CollidingUpdates
  SubUnits = 2
  MaxLevels = 2
  Depth = 1
  Clearing = TRUE
  MaxOps = 3
SPECIFICATION FairSpec
INVARIANTS IndicesInBounds LevelsConsistent
PROPERTIES BookIsAtomic SnapshotExact ReadersReturn
