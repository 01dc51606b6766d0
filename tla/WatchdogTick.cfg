SPECIFICATION Spec
CONSTANTS
  Agents = {coordinator, w1}
  Persistent = {coordinator}
  Kinds = {"per_turn", "headless", "tmux"}
  Ticks = {t1}
  Tier1 = TRUE
  MaxTriage = 1
  MaxLives = 2
  MaxCrashes = 1
INVARIANT ZombieIsReported
INVARIANT ReportsWithinOverlap
PROPERTY PersistentSurvivesTime
PROPERTY TheDeadAreNoticed
PROPERTY RunEndIsNoticed
