SPECIFICATION Spec
CONSTANTS
  root = root
  o1 = o1
  o2 = o2
  o3 = o3
  Object = {root, o1, o2, o3}
  Root = root
  None = None
  Hole = Hole
  Gone = Gone
  MaxOps = 3
  MaxWire = 2
  MaxRaces = 1
  MaxReads = 1
SYMMETRY Symmetry
INVARIANTS
  ViewIsRight
  ParentIsRight
  ListsAreInUse
CHECK_DEADLOCK FALSE
