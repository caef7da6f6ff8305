CONSTANTS
  p1 = p1
  p2 = p2
  Producers = {p1, p2}
  MaxRecords = 3
  MaxStarts = 2
  FlushEvery = 2
  Usual <- MCUsual
  Sizes <- MCSizes
  Writer = w
  NoUpdate = NoUpdate
  Torn = Torn
SPECIFICATION FairSpec
INVARIANTS RecordsKept CompleteAfterStop ReplayFaithful
PROPERTIES StopReturns
CHECK_DEADLOCK FALSE
