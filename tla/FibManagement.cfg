CONSTANTS
  Names <- MCNames
  TopPrefix <- MCTopPrefix
  Faces = {f1, f2}
  ServerFace = server
  Entries = {e1, e2, e3, e4}
SPECIFICATION Spec
SYMMETRY Symmetry
CHECK_DEADLOCK FALSE
INVARIANT TypeOK
INVARIANT DeadRoutesAreLate
INVARIANT KeptRoutesStay
INVARIANT EmptyIsBeingErased
INVARIANT WorkGoesOn
INVARIANT NothingElseBlocks
