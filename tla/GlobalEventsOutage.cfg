CONSTANTS
  RuleIds = {1, 2}
  Urls = {"x"}
  EventDays = {1, 2}
  Cap = 1
  MaxEventFaults = 1

SPECIFICATION EventSpec

PROPERTY PollingResumes

CHECK_DEADLOCK FALSE
