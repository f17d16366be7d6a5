SPECIFICATION FairSpec
CONSTANTS
  h1 = h1 h2 = h2 h3 = h3
  None = None
  Handlers = {h1, h2, h3}
  FdCount = 1
  TimerCount = 2
  Uses <- EditorUses
INVARIANTS HandlersOwned StatusTrue CallsOnHostThread
PROPERTIES CallbackServed
