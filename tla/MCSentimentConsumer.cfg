\* The sentiment stage: one post per outcome of the model, two failures.
CONSTANTS
  valid = valid
  unscorable = unscorable
  invalid = invalid
  Post <- MCPost
  Message <- MCMessage
  Inbound <- MCInbound
  Malformed = {}
  Unscorable <- MCUnscorable
  InvalidResult <- MCInvalidResult
  BatchSize = 2
  MaxAccepted = 2
  MaxFaults = 2
SPECIFICATION Spec
INVARIANTS
  TypeOK
  NoPostLost
  FailuresPaidFor
PROPERTIES
  ImplementsSettlement
  QueueDrained
CHECK_DEADLOCK FALSE
