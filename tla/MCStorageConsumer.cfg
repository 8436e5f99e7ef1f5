\* Two valid posts, one that PostgreSQL refuses and one malformed message,
\* with two failures; or single inserts of two posts with one failure.
CONSTANTS
  v1 = v1
  v2 = v2
  poison = poison
  bad = bad
  Message <- MCMessage
  Inbound <- MCMessage
  Malformed <- MCMalformed
  Poison <- MCPoison
  BatchSize = 2
  MaxAccepted = 3
  MaxFaults = 2
SPECIFICATION MCSpec
INVARIANTS
  TypeOK
  NoMessageLost
  OnlyUnstorableDeadLettered
  DeliveriesBounded
  SinglePutNeverBlocks
PROPERTIES
  RequeuedOnlyAfterFailure
  ImplementsSettlement
  BatchesDrained
\* The stage is at rest when everything published is settled.
CHECK_DEADLOCK FALSE
