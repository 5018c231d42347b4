\* Two pairs of clients of which one is there, see MCDeviceEventController.
SPECIFICATION FairSpec
CONSTANTS
  a = a
  b = b
  c = c
  m1 = m1
  m2 = m2
  k1 = k1
  k2 = k2
  AnyKey = AnyKey
  None = None
  Client = {a, b, c}
  Embedded = {b}
  Registration <- Registrations
  Together <- Pairs
  Mask = {m1, m2}
  Key = {k1, k2}
  Pressed <- FirstKey
  Refused <- RefusedKey
  MaxCalls <- Calls
  MaxEvents = 2
  MaxStarted = 5
CHECK_DEADLOCK FALSE
INVARIANTS
  AsksOnlyRegistered 
PROPERTIES
  KeyboardThaws
  HungIsForgotten
