SPECIFICATION Spec
SYMMETRY Symmetry
CONSTANTS
  Names = {conf, other}
  DefaultId = conf
  Passwds = {p, q}
  Empty = empty
  Runs = {m1, m2}
INVARIANT RunsAsConfigured
INVARIANT RestartLosesNothing
INVARIANT ExportsAreLocked
PROPERTY SavedPasswordOpens
CHECK_DEADLOCK FALSE
