SPECIFICATION FairSpec
CONSTANTS
  h1 = h1
  h2 = h2
  None = None
  Gone = Gone
  Handlers = {h1, h2}
  DirtyAware = {h1}
  ParamCount = 2
  Values <- TwoValues
  MaxViewRefs = 2
INVARIANTS HandlerAlive ToldTrue EditorAlive
PROPERTIES HostReturns
