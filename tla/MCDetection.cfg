SPECIFICATION ScoringSpec
CONSTANTS
  Views <- MCViews
  Settings <- MCSettings
  MaxRepeated = 1
INVARIANTS
  ScoreIsSound
  RulesKeepApart
CHECK_DEADLOCK FALSE
