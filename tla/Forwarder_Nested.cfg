CONSTANTS
  Components = {"a", "b"}
  Names <- NestedNames
  Routes <- DefaultRoute
  Faces = {f1, f2}
  NextHopFaces = {f2}
  Nonces = {x1, x2}
  Lifetimes = {1}
  Costs = {1}
  CSSize = 1
  CacheUnsolicitedData = TRUE
SPECIFICATION FairSpec
CHECK_DEADLOCK FALSE
INVARIANT TypeOK
INVARIANT PendingIsNotCached
PROPERTY KeepsPromise
PROPERTY PITDrains
