SPECIFICATION Spec
CONSTANTS
  r1 = r1
  r2 = r2
  r3 = r3
  c1 = c1
  RunId = {r1, r2, r3}
  Caller = {c1}
  Scenario <- ShortScenario
  EventCount <- ShortEventCount
  Pace = {TRUE, FALSE}
  MaxActive = 2
  MaxRetained = 2
  MaxRecords = 1
SYMMETRY Symmetry
CHECK_DEADLOCK FALSE
INVARIANTS
  Bounded
  NoneUndriven
PROPERTIES
  EvictsOldestFinished
