SPECIFICATION LiveSpec
CONSTANT N = 3
CHECK_DEADLOCK FALSE
INVARIANTS
  QuietMeansServing
  NoneLeftBehind
PROPERTIES
  StopEnds
  FallEnds
