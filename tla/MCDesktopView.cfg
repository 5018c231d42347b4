SPECIFICATION ViewSpec
CONSTANTS
  a1 = a1
  a2 = a2
  p1 = p1
  p2 = p2
  App = {a1, a2}
  AT = {}
  KeyClient = {}
  Path = {p1, p2}
  EventType = {}
  Null = Null
  Empty = Empty
  MaxId = 2
  MaxInbox = 1
  MaxSignals = 1
  MaxPollers = 1
  MaxEvents = 2
  PromptPings = FALSE
SYMMETRY Symmetry
INVARIANTS
  PingResolvedOnce
  NoGhostApplication
  NoWildWrite
  ViewCatchesUp
CHECK_DEADLOCK FALSE
