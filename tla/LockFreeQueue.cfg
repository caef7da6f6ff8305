CONSTANTS
  Producers = {p1, p2}
  Consumers = {c1, c2}
  Values = {v1, v2}
  NoValue = NoValue
  Nodes = {n1, n2, n3}
  Nil = Nil
  Uses <- PairsOrAll
  Stalled = {}
  SizeMod = 16
SPECIFICATION Spec
INVARIANTS NodesSafe SizeExact
PROPERTIES IsConcurrentFifo
SYMMETRY Symmetry
