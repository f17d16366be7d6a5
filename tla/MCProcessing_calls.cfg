SPECIFICATION FairSpec
CONSTANTS
  p1 = p1
  u = u
  Ids = {p1, u}
  Params = {p1}
  Offsets <- TwoTimes
  Blocks = {2}
  DefaultBlock = 2
  Capacity = 3
  MaxPoints = 2
  MaxNotes = 1
  MaxPushes = 2
  MaxLoad = 2
  CanDo64 = FALSE
  HasParams = TRUE
  HostFlushesStop = TRUE
INVARIANTS InputOfThisCall QueuesOfThisCall OutputComplete StatusTrue
PROPERTIES FollowsHost
