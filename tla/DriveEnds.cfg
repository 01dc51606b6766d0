SPECIFICATION LiveSpec
CONSTANTS
  Seed = "seed"
  TopCapability = "lead"
  Kids <- TwoBuilders
  Correspondents <- OneBuilder
  MaxTurns = 3
  NoProgressLimit = 3
  NoMerge = TRUE
  Background = TRUE
  MaxHead = 1
  MaxMail = 1
INVARIANTS
  NoOpMasksNoFailure
  TurnBudgetKept
PROPERTIES
  EveryDriveFinishes
CHECK_DEADLOCK FALSE
