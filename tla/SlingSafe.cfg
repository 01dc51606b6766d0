SPECIFICATION Spec
CONSTANTS
  NoOne = NoOne
  Procs = {p1, p2}
  Drivers = {p2}
  Capabilities = {"lead", "builder"}
  Tasks = {t1}
  MaxSuffix = 2
  MaxConcurrent = 2
  MaxPerLead = 1
  MaxPerRun = 3
  MaxEvents = 3
INVARIANTS
  OneSlingPerWorktree
  DriveRowHasWorktree
  TaskStaysInFamily
CHECK_DEADLOCK FALSE
