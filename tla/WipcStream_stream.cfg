SPECIFICATION FairStreamSpec
CONSTANTS
  Credit = 1
  HighWater = 1
  MaxChunks = 2
INVARIANTS NothingRefused NothingIsLost
PROPERTY ExchangeEnds
CHECK_DEADLOCK FALSE
