\* Grabs and keys with either backend.
SPECIFICATION DevicesSpec
CONSTANTS
  Definition <- Definitions
  IdSize = 3
  MaxGrabs = 2
  MaxAdded = 3
  Keysym = {1, 2}
  FirstBit = 15
  LastBit = 31
  CapsLock = 1
  NumLock = 4
  MaxChanges = 3
  MaxKeys = 2
  MaxCrashes = 1
  Window = {w1, w2}
  NoWindow = NoWindow
  PointerRoot = PointerRoot
  Keycode <- Keycodes
  OnKeypad = {4}
  KeycodeOf <- Codes
  Taken <- TakenByOthers
  ModifierKey = {1}
  VirtualBit <- Bits
  LockBit = 1
  NumBit = 4
  SymbolicNumBit = 14
  Careful = TRUE
  MaxMoves = 1
  MaxMaps = 2
INVARIANTS GrabsAreHeld KeyReportedOnce IdsAndKeysAgree ManagerIsTold
CHECK_DEADLOCK FALSE
