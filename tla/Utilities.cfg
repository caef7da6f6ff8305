CONSTANTS
  Capacity = 4
  Values = {v1, v2, v3}
  NoValue = NoValue
  Clients = {c1, c2}
  Admins = {a}
  Needs = {1}
  Rate0 = 2
  Capacity0 = 2
  Rates = {0, 1}
  Capacities = {0, 1}
  Timeout = 1
  ClockMod = 64
  MaxClock = 2
  MaxChanges = 1
SPECIFICATION UtilitiesSpec
INVARIANTS RingSafe TokensSound RateRespectedInOrder
PROPERTIES IsBoundedFifo
SYMMETRY ClientSymmetry
