SPECIFICATION Spec
CONSTANTS
  None = None
  Absent = Absent
  Words = {"v", "w", "big"}
  BigWords = {"big"}
  Lines = 2
  Paths = {"a", "secret", "outside"}
  Secrets = {"secret"}
  Outside = {"outside"}
  Files = {1, 2, 3}
  Codex = {3}
  Session <- TheSessions
  Bounds <- UndoAlone
  Limits = {1, 2}
  Budget = 4
INVARIANT UndoRestoresTurn
CHECK_DEADLOCK FALSE
