CONSTANTS
  Producers = {p1, p2}
  Consumers = {c1}
  Values = {v1}
  NoValue = NoValue
  Nodes = {n1, n2, n3}
  Nil = Nil
  Uses <- Reclaiming
  Stalled = {}
  SizeMod = 16
SPECIFICATION Spec
INVARIANTS NoUseAfterFree
SYMMETRY Symmetry
