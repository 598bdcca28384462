SPECIFICATION Spec
CONSTANTS
  None = None
  Absent = Absent
  Words = {"v", "w", "big"}
  BigWords = {"big"}
  Lines = 2
  Paths = {"a", "secret", "outside"}
  Secrets = {"secret"}
  Outside = {"outside"}
  Files = {1, 2, 3}
  Codex = {3}
  Session <- TheSessions
  Bounds <- Instances
  Limits = {1, 2}
  Budget = 4
INVARIANTS
  NeverFabricated
  ImportedOnce
  DryRunAgrees
  AnswersHonest
CHECK_DEADLOCK FALSE
