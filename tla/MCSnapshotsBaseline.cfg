SPECIFICATION Spec
CONSTANTS
  Paths = {p1}
  Agent = agent
  Absent = absent
  Unknown = unknown
  None = none
  QUIET_MS = 4
  GIT_SETTLE_MS = 1
  FOLD_WINDOW_MS = 12
  MAX_BRACKET_MS = 30
  DEBOUNCE = 1
  MAX_DEBOUNCE = 4
  GUARD_LINGER = 3
  GUARD_TTL = 20
  MaxTime = 9
  MaxEdits = 3
  MaxGits = 0
  MaxSignals = 1
  MaxUnread = 0
  MaxUndos = 1
  MaxExits = 0
  MaxEvents = 2
CHECK_DEADLOCK FALSE
INVARIANTS
  BeforeIsPreTurn
