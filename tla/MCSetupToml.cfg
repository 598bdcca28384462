SPECIFICATION Spec
CONSTANTS
  Events = {"prompt", "tool"}
  None = None
  Torn = Torn
  Bounds <- Instances
INVARIANT
  TomlKept
CHECK_DEADLOCK FALSE
