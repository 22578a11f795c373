SPECIFICATION FairSpec
CONSTANTS
  Prices <- MCPrices
  Warmup = 2
  MaxBackoff = 2
  MaxTime = 3
  MaxTrades = 4
  MaxLosses = 2
  MaxRestarts = 1
INVARIANTS TypeOK BarsAreKlines NoSecondMissed WindowAscends
PROPERTIES WindowImplemented Reconnects
CHECK_DEADLOCK FALSE
