SPECIFICATION Spec
CONSTANTS
  Events = {"prompt", "tool"}
  None = None
  Torn = Torn
  Bounds <- Instances
INVARIANTS
  TheirsKept
  AsReported
PROPERTIES
  NoSecondSource
CHECK_DEADLOCK FALSE
