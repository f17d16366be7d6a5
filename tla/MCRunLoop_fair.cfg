CONSTANTS
  c1 = c1
  c2 = c2
  e1 = e1
  t1 = t1
  t2 = t2
  Bg = Bg
  None = None
  Callers = {c1}
  EventHandlers = {e1}
  TimerHandlers = {t1, t2}
  PlugFds = {3}
  TimerFds = {2}
  Intervals = {0, 5}
  MaxTimerRef = 2
  GuardedRequests = FALSE
  ReentrantRequests = FALSE
SPECIFICATION FairSpec
PROPERTIES CallsReturn TimerOperational EventDelivered
