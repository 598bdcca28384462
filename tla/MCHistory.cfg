SPECIFICATION Spec
CONSTANTS
  None = None
  Absent = Absent
INVARIANTS
  ChangesStaged
  BlameHonest
  BisectHonest
  StatsHonest
CHECK_DEADLOCK FALSE
