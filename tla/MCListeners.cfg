SPECIFICATION FairSpec
CONSTANTS
  c1 = c1
  c2 = c2
  Callback = {c1, c2}
  EventType <- Types
  Event <- Events
  Defunct <- Changed
  MaxListeners = 3
  MaxWithdrawals = 2
  MaxEvents = 2
  Careful = TRUE
INVARIANTS
  DispatchIsSafe
  RulesMatchListeners
PROPERTIES
  NotCalledOnceWithdrawn
  EventReachesAll
  WithdrawnIsFreed
CHECK_DEADLOCK FALSE
