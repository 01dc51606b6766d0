CONSTANTS
  Mails = {m1}
  Ticks = {t1}
  EventSignaling = FALSE
  MaxTurns = 2
  MaxCrashes = 1
  StopAllowed = FALSE
SPECIFICATION Spec
CHECK_DEADLOCK FALSE
INVARIANTS NoSilentEnd
PROPERTY ReadMeansDelivered
