SPECIFICATION CLiveSpec
CONSTANTS
  r1 = r1
  r2 = r2
  desk = desk
  RunId = {r1, r2}
  Caller = {desk}
  Desk = desk
  Scenario <- MCScenario
  EventCount <- MCEventCount
  Pace = {FALSE}
  MaxActive = 2
  MaxRetained = 2
  MaxRecords = 2
  PollLimit = 2
  ReadLimit = 1
CHECK_DEADLOCK FALSE
INVARIANTS
  ViewIsFaithful
  LastPageIsLast
PROPERTIES
  ViewCatchesUp
