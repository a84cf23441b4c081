SPECIFICATION LiveSpec
CONSTANTS
  r1 = r1
  r2 = r2
  c1 = c1
  c2 = c2
  RunId = {r1, r2}
  Caller = {c1, c2}
  Scenario <- StepScenario
  EventCount <- StepEventCount
  Pace = {TRUE, FALSE}
  MaxActive = 1
  MaxRetained = 1
  MaxRecords = 1
CHECK_DEADLOCK FALSE
INVARIANTS
  StopHonest
  StoppedOnlyOnRequest
PROPERTIES
  NoStepAfterStop
  EachRunKeepsContract
  StopAnswered
  ShutdownSettles
  RunsEnd
