CONSTANTS
  Mails = {}
  Ticks = {t1}
  EventSignaling = FALSE
  MaxTurns = 1
  MaxCrashes = 0
  StopAllowed = TRUE
SPECIFICATION FairSpec
CHECK_DEADLOCK FALSE
PROPERTY ParentHears
