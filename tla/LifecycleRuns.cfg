SPECIFICATION Spec
CONSTANTS
  Tops = {coordinator, orchestrator}
  Coordinator = coordinator
  Monitors = {monitor}
  Supervisors = {supervisor}
  Procs = {p1, p2}
  MaxStarts = 2
  MaxCommands = 3
INVARIANT CurrentRun
INVARIANT CompletedIsDown
PROPERTY HookSparesTheWorking
CHECK_DEADLOCK FALSE
