\* Scheduler and command run concurrently, with a lost connection; a key can
\* come back after its row was pruned.
CONSTANTS
  old = old
  older = older
  scheduler = scheduler
  command = command
  Key <- MCKey
  HourOf <- MCHourOf
  Sampled = {older}
  Scheduler = scheduler
  Command = {command}
  LastHour = 2
  MaxInserts = 2
  MaxFaults = 1
SPECIFICATION Spec
INVARIANTS
  TypeOK
  CountedExactlyOnce
  SampledBeforePruned
PROPERTIES
  ExpiredRowsPruned
