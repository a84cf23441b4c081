CONSTANTS
  f1 = f1  e1 = e1  Unscoped = Unscoped
  Finding = {f1}
  Entity = {e1}
  Policies <- MCPolicies
  Floor = 2
  Bands = {4}
  MaxScore = 4
  MaxTime = 5
  MaxAssessments = 4
SPECIFICATION ComparisonSpec
INVARIANTS Accounted NothingNewHidden NoFlood ComparedAlike
CHECK_DEADLOCK FALSE
