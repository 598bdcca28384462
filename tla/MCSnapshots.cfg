SPECIFICATION Spec
CONSTANTS
  Paths = {p1, p2}
  Agent = agent
  Absent = absent
  Unknown = unknown
  None = none
  QUIET_MS = 0
  GIT_SETTLE_MS = 1
  FOLD_WINDOW_MS = 6
  MAX_BRACKET_MS = 10
  DEBOUNCE = 1
  MAX_DEBOUNCE = 2
  GUARD_LINGER = 1
  GUARD_TTL = 2
  MaxTime = 3
  MaxEdits = 2
  MaxGits = 1
  MaxSignals = 1
  MaxUnread = 1
  MaxUndos = 2
  MaxExits = 1
  MaxEvents = 3
SYMMETRY Symmetry
CHECK_DEADLOCK FALSE
INVARIANTS
  BeforeIsLastSeen
  LogExplainsDisk
  OverwrittenIsRecorded
