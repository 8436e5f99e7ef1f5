CONSTANTS
  Raw = {"plain", "short", "odd", "bad", "unscorable", "invalid", "poison"}
  EarlyPosts = {"plain", "short", "odd", "bad"}
  Illformed = {"bad"}
  TooShort = {"short"}
  Unpredictable = {"odd"}
  Message <- MCMessage
  PrePrefetch = 2
  MaxRaw = 2
  MaxPreFaults = 2
  Unscorable = {"unscorable"}
  InvalidResult = {"invalid"}
  Poison = {"poison"}
  ScorerBatch = 2
  WriterBatch = 2
  MaxScorerFaults = 1
  MaxWriterFaults = 1
  MaxTogether = 2

  Migrators = {"old", "new", "edited"}
  Versions <- MCVersions
  Files <- MCFiles
  ApplyRetries = 2
  MaxMigrationFaults = 2

  SymbolOf <- MCSymbolOf
  MaxSockets = 2
  MaxLiveFaults = 1

  QuoteTicks = 4
  HourTicks = 2
  TierDayTicks = 4
  PriceAt <- MCPriceAt
  Rollup = {"scheduler", "command"}
  MaxRewrites = 1

  ReadPost = {"old", "a1", "a2", "b2"}
  HourOfPost <- MCHourOfPost
  PlatformOf <- MCPlatformOf
  Ancient = {"old"}
  ReadHours = 3

  Replacement = {"one", "two", "three", "four"}
  RowKey = {"oil", "yen", "gold", "none"}
  Submitted <- MCSubmitted
  Dangling = {"none"}
  MaxReplaceFaults = 1

SPECIFICATION Spec

INVARIANTS
  ServicesTypeOK
  PostsAccountedFor
  MigrationsSafe
  ViewBounded
  TiersAgree
  ReadsAccountedFor
  ReplacementsSound

PROPERTIES
  PostsSettled
  NothingStalls

\* The bounds stop the clocks, the posts and the faults of every component.
CHECK_DEADLOCK FALSE
