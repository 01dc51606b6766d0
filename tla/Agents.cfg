SPECIFICATION SideSpec
CONSTANTS
  t1 = t1
  Procs = {p1, p2, p3}
  Targets = {t1, t2}
  MaxKills = 1
  Daemons = {d1, d2}
  Lives = 2
  LogLines = 3
  Sockets = {s1, s2}
  Askers = {o1, o2}
  MaxMail = 3
  Tries = 2
  MaxConns = 2
  MaxCalls = 2
  Texts = {"go"}
  MaxSends = 2
  MaxLetters = 2
  MaxBreaks = 1
  MaxConfEdits = 1
  Commands = {o1, o2}
  Polls = 2
  MaxFaults = 1
  LastCall = 3
  Tools = {edit, bash}
  SomeTool = edit
  MaxStops = 2
  Starters = {o1, o2}
  Slings = {o1, o2}
  Hooks = {g1, g2, u1}
  Messages = {s1}
  DogTicks = {k1, k2}
INVARIANTS
  NoFalseRefusal
  NothingLeftBehind
  EventsHold
  AnswersHold
  LaunchHolds
  TurnsHold
  TextsHold
CHECK_DEADLOCK FALSE
