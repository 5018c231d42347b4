SPECIFICATION FairSpec
CONSTANTS
  root = root
  o1 = o1
  o2 = o2
  Object = {root, o1, o2}
  Root = root
  NoObject = NoObject
  Special = {o2}
  RefSize = 4
  Within = {"defunct"}
  MaxQueue = 2
INVARIANTS
  RefsBalanced
  PathsLeadHome
  TreeIsCached
PROPERTIES
  AddedIsAnnounced
  DefunctIsNotKept
CHECK_DEADLOCK FALSE
