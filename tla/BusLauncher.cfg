SPECIFICATION FairSpec
CONSTANTS
  Client = {c1}
  AT = {a1, a2}
  Nobody = Nobody
  Empty = Empty
  MaxSignals = 1
  MaxLaunches = 2
  MaxSets = 1
  MaxBreaks = 2
CHECK_DEADLOCK FALSE
INVARIANTS
  EnabledTellsListeners
PROPERTIES
  NoOrphanBus
  EndsWithItsBus
  CallsAreAnswered
