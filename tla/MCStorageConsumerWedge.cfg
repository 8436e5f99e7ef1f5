\* A swallowed cancellation keeps a failing session from ending.
CONSTANTS
  Message = {v1, v2, poison, bad}
  Inbound = {v1, v2, poison, bad}
  Malformed = {bad}
  Poison = {poison}
  BatchSize = 2
  MaxAccepted = 2
  MaxFaults = 2
SPECIFICATION Spec
PROPERTIES
  FailingSessionEnds
\* The stage is at rest when everything published is settled.
CHECK_DEADLOCK FALSE
