CONSTANTS
  first = first
  second = second
  Sample  <- MCSample
  EventAt <- MCEventAt
  timer = timer
  operator = operator
  Exporter <- MCExporter
  Timer = timer
  PurgeAfter = 0
  LastTime = 4
  MaxArchiveFaults = 1

  SentimentValues = {1, 3}
  HourPrices = {100, 110}
  Fast = 2
  Slow = 3
  Smooth = 2
  MaxLag = 1
  MinSamples = 2
  MinClosedHours = 1
  ForwardHours = 3
  SeriesHours = 4

  FactorEnds = {2, 5, 8}
  StockEnds = {3, 5, 7, 9}
  Lags = {0, 1}
  HorizonSessions = 2
  EventTimes = {3, 5}
  LastMoment = 10
  MaxBarFaults = 2

SPECIFICATION Spec

INVARIANTS
  HistoryTypeOK
  OnlyLateRowsLost
  PurgedRowsExported
  ReportsSound


  

\* The bounds stop the clocks and the faults of every component.
CHECK_DEADLOCK FALSE
