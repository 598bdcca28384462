SPECIFICATION Spec
CONSTANTS
  f = f
  p1 = p1
  p2 = p2
  c1 = c1
  c2 = c2
  s1 = s1
  s2 = s2
  Facts = {f}
  Paths = {p1, p2}
  Contents = {c1, c2}
  Gone = gone
  Commands = {s1, s2}
  Daemon = d
  None = None
  TTL = 1
  CAP = 2
  K = 2
  CHARS = 1
  Bounds <- Instances
SYMMETRY Symmetry
INVARIANTS
  NoRecordLost
  ForgetWins
  RecallHonest
  NothingSkipped
  RememberedOnce
CHECK_DEADLOCK FALSE
