CONSTANTS
  first = first
  second = second
  Sample  <- MCSample
  EventAt <- MCEventAt
  timer = timer
  operator = operator
  Exporter <- MCExporter
  Timer = timer
  PurgeAfter = 0
  LastTime = 4
  MaxArchiveFaults = 0
SPECIFICATION ArchiveSpec
PROPERTY StagedRowsArchived
