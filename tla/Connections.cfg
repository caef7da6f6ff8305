CONSTANTS
  Exchanges = {k, b}
  Symbols = {s}
  Callers = {c1, c2}
  MaxAttempts = 1
  NoExchange = NoExchange
  NoSymbol = NoSymbol
  NoCaller = NoCaller
SPECIFICATION FairSpec
INVARIANTS ThreadsAccounted SubscriptionsSent
PROPERTIES CallsReturn
CHECK_DEADLOCK FALSE
