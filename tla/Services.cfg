SPECIFICATION Spec
SYMMETRY Interchangeable
CONSTANTS
  Exchanges = {0, 1}
  Prices = {2, 3}
  Quantities = {0, 1, 2}
  Orders = {2}
  MinProfits = {1, 600}
  ListBound = 3
  Reporters = {r1, r2}
  BookNames = {"BTC"}
  Profits = {1, 2}
  MinProfit = 2
  HistorySize = 1
  Timeout = 1
  Wrap = 100
  MaxTime = 2
  MaxId = 3
  MaxCalls = 3
  Feeders = {f1, f2}
  Snapshots <- MCSnapshots
  Deals <- MCDeals
  Window = 2
  Modulus = 64
  LastTime = 5
  MaxInputs = 3
  Recorders = {m1, m2}
  Latencies = {2, 9}
  NumBuckets = 3
  Percentiles = {50, 100}
  MaxValue = 99
  GaugeValues = {1}
  MaxEvents = 3
  Documents <- MCDocuments
  Environments <- MCEnvironments
INVARIANTS
  RoutingIsBest
  OpportunitiesSound
  ListFaithful
  TrackedOnce
  AgesHonest
  QuietWhenStopped
  AnalyticsSound
  MetricsSound
PROPERTY
  ConfigSound
CHECK_DEADLOCK FALSE
