CONSTANTS
  Clients = {c1, c2}
  Others <- MCOthers
  CacheSize = 2
  SliceSize = 2
  Bytes <- MCBytes
  MaxChanges = 1
  MaxInbox = 2
SPECIFICATION Spec
SYMMETRY Symmetry
CHECK_DEADLOCK FALSE
INVARIANT ListsAreWhole
INVARIANT RecentSlicesHit
INVARIANT NobodyIsForgotten
PROPERTY NeverOlderThanAsked
