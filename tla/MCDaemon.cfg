SPECIFICATION LiveSpec
CONSTANTS
  QUIET_MS = 0
  GIT_SETTLE_MS = 0
  FOLD_WINDOW_MS = 1
  MAX_BRACKET_MS = 1
  None = None
  Tool = claude
  Path = p
  TailWindow = 50
  Bounds <- Instances
INVARIANTS
  LoggedOnce
  JournaledSurvives
  AppliedOnce
PROPERTIES
  OrphansLogged
CHECK_DEADLOCK FALSE
