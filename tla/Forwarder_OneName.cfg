CONSTANTS
  Components = {"a", "b"}
  Names <- OneName
  Routes <- DefaultRoute
  Faces = {f1, f2, f3}
  NextHopFaces = {f2, f3}
  Nonces = {x1, x2}
  Lifetimes = {1, 2}
  Costs = {1}
  CSSize = 1
  CacheUnsolicitedData = FALSE
SPECIFICATION Spec
SYMMETRY Symmetry
VIEW tables
CHECK_DEADLOCK FALSE
INVARIANT TimersCoverRecords
INVARIANT OnePendingUpstream
INVARIANT WaitersHaveUpstream
INVARIANT PendingIsNotCached
INVARIANT NoncesTellFacesApart
PROPERTY KeepsPromise
