\* Keys mapped, unmapped and mapped again.
SPECIFICATION Spec
CONSTANTS
  Definition <- Definitions
  IdSize = 3
  MaxGrabs = 2
  MaxAdded = 0
  Keysym = {a, b, c}
  FirstBit = 15
  LastBit = 17
  CapsLock = 1
  NumLock = 4
  MaxChanges = 5
  MaxKeys = 0
  MaxCrashes = 0
INVARIANT ModifiersAreApart
CHECK_DEADLOCK FALSE
