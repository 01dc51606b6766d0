CONSTANTS
  p1 = p1
  p2 = p2
  p3 = p3
  c1 = c1
  c2 = c2
  c3 = c3
  c4 = c4
  NoPid = NoPid
  Procs <- MCProcs
  Pids <- MCPids
  PidOf <- MCPidOf
  Calls <- MCCalls
  ProcOf <- MCProcOf
  OpenDbMayFail = TRUE
SPECIFICATION FairSpec
CHECK_DEADLOCK FALSE
INVARIANT MutualExclusion
PROPERTIES ImplementsMutex EveryCallSettles
