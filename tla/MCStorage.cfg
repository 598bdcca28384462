SPECIFICATION Spec
CONSTANTS
  h1 = h1
  h2 = h2
  Hashes = {h1, h2}
  Big = {h2}
  Prompts = {h1}
  Paths = {p1, p2}
  Budget = 1
  None = None
  Bounds <- Instances
SYMMETRY Symmetry
INVARIANTS
  LogAppendsSurvive
  JournalRecoverable
  BudgetEnforced
PROPERTIES
  EvictionSparesLive
CHECK_DEADLOCK FALSE
