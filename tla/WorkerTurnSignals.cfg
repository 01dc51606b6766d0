CONSTANTS
  Mails = {m1}
  Ticks = {t1}
  EventSignaling = FALSE
  MaxTurns = 1
  MaxCrashes = 0
  StopAllowed = FALSE
SPECIFICATION Spec
CHECK_DEADLOCK FALSE
INVARIANT OneSignalPerTurn
