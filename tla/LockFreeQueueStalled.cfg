CONSTANTS
  Producers = {p1, p2}
  Consumers = {c1}
  Values = {v1}
  NoValue = NoValue
  Nodes = {n1, n2, n3}
  Nil = Nil
  Uses <- AllThreadsStrong
  Stalled = {p1}
  SizeMod = 16
SPECIFICATION FairSpec
PROPERTIES OthersFinish
