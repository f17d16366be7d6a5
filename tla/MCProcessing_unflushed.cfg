SPECIFICATION Spec
CONSTANTS
  p1 = p1
  u = u
  Ids = {p1, u}
  Params = {p1}
  Offsets <- OneTime
  Blocks = {1, 2}
  DefaultBlock = 2
  Capacity = 2
  MaxPoints = 0
  MaxNotes = 0
  MaxPushes = 0
  MaxLoad = 0
  CanDo64 = FALSE
  HasParams = TRUE
  HostFlushesStop = FALSE
INVARIANT ProcessesWhatStarted
