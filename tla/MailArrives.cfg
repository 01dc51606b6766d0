SPECIFICATION Spec
CONSTANTS
  None = None
  TurnAgents = {worker}
  TmuxAgents = {lead}
  HeadAgents = {coordinator}
  Messages = {m1, m2}
  MaxLives = 2
  MaxCrashes = 1
  Budget = 3
INVARIANT ReadIsGiven
PROPERTY MailArrives
CHECK_DEADLOCK FALSE
