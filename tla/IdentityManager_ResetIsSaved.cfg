SPECIFICATION Spec
CONSTANTS
  Names = {conf, other}
  DefaultId = conf
  Passwds = {p, q}
  Empty = empty
  Runs = {m1, m2}
PROPERTY ResetIsSaved
CHECK_DEADLOCK FALSE
