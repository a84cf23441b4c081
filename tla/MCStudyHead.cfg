SPECIFICATION Spec
CONSTANTS
  Configs <- C2
  Lineages <- L3
  Contract <- ContractOf3
  TestRows <- Test3
  ValidationRows <- Validation3
  Models <- Models2
  Heads <- Heads1
  Measurements <- Grades
  Settings <- SettingsTried
  Wins <- HybridsChosen
  Trained <- Studies
  MaxRows = 5
  Samples <- SmallSamples
  Policies <- SomePolicies
  MaxSelections = 4
  MaxPredictions = 2
  MaxReports = 2
INVARIANTS
  LocksLoad
CHECK_DEADLOCK FALSE
