SPECIFICATION Spec
CONSTANTS
  Clients = {c1}
  MaxMessages = 4
  Subscribers = {s1, s2}
  Symbols = {"BTC"}
  MaxSent = 3
  BookSymbols = {"BTC"}
INVARIANTS
  QueueSound
  AbortsExplained
  ConfirmationsBracket
  ApiShutdown
PROPERTY
  RestFresh
CHECK_DEADLOCK FALSE
