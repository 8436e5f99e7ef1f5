CONSTANTS
  DayTicks = 7
  LastTick = 17
  StockDays = {0, 2}
  FutureDays = {0, 2}
  StockOpen = 3
  StockClose = 5
  PreSpan = 2
  AfterSpan = 3
  FutureOpen <- MCFutureOpen
  FutureClose = 4
  MaxQuoteFaults = 1

SPECIFICATION PollingSpec

INVARIANT TradingIsOpen

CHECK_DEADLOCK FALSE
