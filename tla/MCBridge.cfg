SPECIFICATION Spec
CONSTANTS
  t1 = t1
  t2 = t2
  AT = {t1, t2}
  KeyAT = {}
  EventType <- Types
  Event <- Events
  MaxCalls = 3
  MaxWaiting = 1
  MaxCrashes = 1
  Careful = TRUE
SYMMETRY Symmetry
INVARIANTS
  WantedIsSent
  DeadAreForgotten
CHECK_DEADLOCK FALSE
