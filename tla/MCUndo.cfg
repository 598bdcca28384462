SPECIFICATION Spec
CONSTANTS
  Procs = {c1, c2}
  Paths = {f1, f2}
  Instances <- BothModes
  TOKEN_TTL = 1
  REQUEST_TTL = 1
  GUARD_TTL = 1
  LINGER = 0
  None = None
  MaxTime = 1
  MaxRows = 3
  MaxTurns = 2
  MaxEdits = 1
  MaxCrashes = 1
SYMMETRY Symmetry
INVARIANTS
  WritesUncontested
  ExecutedIsRecorded
PROPERTIES
  KeepsPromise
CHECK_DEADLOCK FALSE
