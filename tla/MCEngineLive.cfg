SPECIFICATION LiveSpec
CONSTANTS
  QUIET_MS = 1
  GIT_SETTLE_MS = 1
  FOLD_WINDOW_MS = 3
  MAX_BRACKET_MS = 2
  None = None
  Paths = {p1, p2}
  Statuses = {"captured", "deleted"}
  Tools = {claude}
  EmitterTurns = {k1}
  MaxTime = 5
  ActiveUntil = 2
  MaxBatches = 2
  MaxIds = 3
  MaxGits = 1
  MaxStarts = 1
  MaxStops = 1
PROPERTIES
  EventuallyReturned
CHECK_DEADLOCK FALSE
