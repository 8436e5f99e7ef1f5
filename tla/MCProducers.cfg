CONSTANTS
  Weight <- MCWeight
  Moves = {1, 50}
  LastDate = 5
  TradingDay <- MCTradingDay
  Nav <- MCNav
  BadNav = 99
  NavWindow = 5
  MaxNavFaults = 1

  Polled <- MCPolled
  MaxConcurrency = 2
  Burst = 4
  TokenTicks = 2
  PollInterval = 2
  MaxBackoff = 3
  Horizon = 7

  Tracked = {"nvda", "mu"}
  RefreshInterval = 3
  RetryBase = 1
  RetryMax = 4
  MaxOutages = 4
  MaxEdits = 2

  NewsSymbols = {"nvda", "mu"}
  Articles = {"shared", "own", "other"}
  FeedOf <- MCFeed
  Names <- MCNames
  NewsConcurrency = 2
  SeenLimit = 2
  MaxNewsFaults = 2

  LastPost = 4
  Matching = {1, 3, 4}
  PageSize = 2
  DequeSize = 3
  MaxFeedFaults = 2

  Instruments <- MCInstruments
  Hourly = {"future"}
  Opens <- MCOpens
  Closes <- MCCloses
  SessionDays = {1, 2}
  DaySlots = 3
  Grace = 1
  LookbackDays = 1
  GlobalDays = 2
  MaxGlobalFaults = 1

  RuleIds = {1, 2}
  Urls = {"x", "y"}
  EventDays = {1, 2}
  Cap = 1
  MaxEventFaults = 2

  DayTicks = 7
  LastTick = 17
  StockDays = {0, 2}
  FutureDays = {0, 2}
  StockOpen = 3
  StockClose = 5
  PreSpan = 2
  AfterSpan = 3
  FutureOpen <- MCFutureOpen
  FutureClose = 4
  MaxQuoteFaults = 1

  Stock = {"nvda", "mu"}
  SectorOf <- MCSectorOf
  MetricsInterval = 1
  LastHour = 4
  MaxMetricsFaults = 1

SPECIFICATION Spec

INVARIANTS
  ProducersTypeOK
  NavRowsSound
  RequestsPaced
  StalenessBounded
  ArticlesAccountedFor
  FeedsComplete
  LinksCapped
  MarketRowsSound

PROPERTIES
  ProducersGoOn

\* The bounds stop the clocks and the faults of every component.
CHECK_DEADLOCK FALSE
