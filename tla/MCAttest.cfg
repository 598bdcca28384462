SPECIFICATION Spec
CONSTANTS
  MaxClaims = 3
  Tests = {"x", "y", "z"}
  Hashes = {"h", "k"}
  None = None
  Procs = {p1, p2}
  Daemon = d
  Bodies = {"b", "c", "u"}
  Versions = {"good", "bad", "shaky", "broken"}
  HashOf <- TheHash
  Results <- TheResults
  TargetOf <- TheTarget
  Measured <- TheMeasured
  OverStale <- TheScope
  Bounds <- Instances
SYMMETRY Symmetry
INVARIANTS
  NotesKept
  VerdictEarned
  IndexCurrent
PROPERTIES
  RefutedForever
CHECK_DEADLOCK FALSE
