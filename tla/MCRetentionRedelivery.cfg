\* A duplicate delivered after its row was pruned is counted a second time.
CONSTANTS
  old = old
  older = older
  scheduler = scheduler
  command = command
  Key <- MCKey
  HourOf <- MCHourOf
  Sampled = {older}
  Scheduler = scheduler
  Command = {command}
  LastHour = 2
  MaxInserts = 2
  MaxFaults = 0
SPECIFICATION SafetySpec
INVARIANT KeyCountedOnce
