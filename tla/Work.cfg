SPECIFICATION SideSpec
CONSTANTS
  g1 = g1
  g2 = g2
  u1 = u1
  u2 = u2
  u3 = u3
  i1 = i1
  i2 = i2
  shared = shared
  other = other
  tools = tools
  br1 = br1
  br2 = br2
  Files = {shared, other, tools}
  StateFiles = {tools}
  Branches = {br1, br2}
  Changed <- MCChanged
  AiEnabled = TRUE
  MaxCommands = 3
  MaxEdits = 2
  MaxCrashes = 1
  Contents <- MCPlans
  Order <- MCOrder
  Stamps = {h1, h2}
  MaxRuns = 3
  Commands = {c1, c2}
  Issues = {i1, i2}
  MaxMails = 2
  MaxRows = 2
  MaxBreaks = 1
  Agents = {a1, a2}
  Panes = {a1}
  MaxSlings = 3
  Builders = {b1, b2}
  Scouts = {a1}
  MaxReports = 2
  Openers = {o1, o2}
  Records = {1, 2}
  MaxOpens = 3
  MaxDeaths = 1
  Touched = {"lead", "builder"}
  MaxSetups = 2
INVARIANTS
  MergesHold
  WorkIsKept
  PlansHold
  SettingsHold
  PredictionHolds
  FilesHold
PROPERTIES
  UserWorkKept
CHECK_DEADLOCK FALSE
