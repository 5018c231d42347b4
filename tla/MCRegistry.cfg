SPECIFICATION FairSpec
CONSTANTS
  App = {a1}
  AT = {t1}
  KeyClient = {a1}
  Path = {p1}
  EventType <- MCEventTypes
  Null = Null
  Empty = Empty
  MaxId = 1
  MaxInbox = 1
  MaxSignals = 1
  MaxPollers = 2
  MaxEvents = 2
  PromptPings = TRUE
INVARIANTS
  MousePollMatchesEvents
PROPERTIES
  MousePollStops
  GoneIsRemoved
  ShownWhileAnswering
CHECK_DEADLOCK FALSE
