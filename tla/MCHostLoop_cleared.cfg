SPECIFICATION Spec
CONSTANTS
  h1 = h1 h2 = h2 h3 = h3
  None = None
  Handlers = {h1, h2, h3}
  FdCount = 0
  TimerCount = 2
  Uses <- OneShot
INVARIANTS ClearedByDestructor
CHECK_DEADLOCK FALSE
