\* What the documents say of agentrec stats: TLC -continue finds each violated.
SPECIFICATION Spec
CONSTANTS
  None = None
  Absent = Absent
INVARIANTS
  ReworkUncovered
  ChurnIsLowerBound
  GapsDisclosed
CHECK_DEADLOCK FALSE
