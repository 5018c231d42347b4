SPECIFICATION FairSpec
CONSTANTS
  Object = {o1, o2}
  Link = {n1, n2, n3}
  NoLink = NoLink
  Never = Never
  Second = 2
  LeaseTime = 2
  UintSize = 1000
  MaxPause = 2
  LastTake = 5
  MaxTime = 18
INVARIANTS
  IndexMatchesQueue
  WakesForHead
PROPERTIES
  KeepsContract
  EveryLeaseEnds
CHECK_DEADLOCK FALSE
