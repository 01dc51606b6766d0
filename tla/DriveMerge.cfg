SPECIFICATION Spec
CONSTANTS
  Seed = "seed"
  TopCapability = "lead"
  Kids <- TwoBuilders
  Correspondents <- Nobodies
  MaxTurns = 4
  NoProgressLimit = 3
  NoMerge = FALSE
  Background = FALSE
  MaxHead = 2
  MaxMail = 3
INVARIANTS
  OnlyReviewedWorkLands
  OnlyPassedWorkLands
  EveryMergeIsDisclosed
  SeedFollowsOutcome
CHECK_DEADLOCK FALSE
