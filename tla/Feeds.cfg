CONSTANTS
  Feeders <- MCFeeders
  SymbolsOf <- MCSymbolsOf
  FeedPrices = {1, 2}
  FeedQuantities = {0, 1}
  BookSizes = {1, 2}
  Depth = 1
  Behind <- MCBehind
  Channels = {1}
  Changes <- MCChanges
  MaxMoves = 2
  MaxSubscribes = 2
  MaxOwner = 1
  MaxWire = 2
  NoBook = NoBook
  Astray = Astray
SPECIFICATION Spec
INVARIANTS MirrorsMarket CallbackComplete BookStays
CHECK_DEADLOCK FALSE
