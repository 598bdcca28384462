SPECIFICATION Spec
CONSTANTS
  QUIET_MS = 1
  GIT_SETTLE_MS = 1
  FOLD_WINDOW_MS = 3
  MAX_BRACKET_MS = 2
  None = None
  Paths = {p1}
  Statuses = {"captured"}
  Tools = {claude, codex}
  EmitterTurns = {}
  MaxTime = 4
  ActiveUntil = 4
  MaxBatches = 3
  MaxIds = 4
  MaxGits = 1
  MaxStarts = 1
  MaxStops = 2
SYMMETRY Symmetry
INVARIANTS
  NothingLost
  FilesMatchObservations
  IdsUnique
  NoFabricatedAttribution
  GitNearTransition
CHECK_DEADLOCK FALSE
