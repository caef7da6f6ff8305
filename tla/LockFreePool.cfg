CONSTANTS
  Threads = {t1, t2}
  Handles = {x, y}
  Raw = Raw
  Null = Null
  PoolSize = 3
  Throwing = TRUE
SPECIFICATION Spec
INVARIANTS Exclusive SlotsAccounted ObjectsSound
CHECK_DEADLOCK FALSE
