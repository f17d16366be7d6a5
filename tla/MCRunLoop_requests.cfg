CONSTANTS
  c1 = c1
  c2 = c2
  e1 = e1
  t1 = t1
  t2 = t2
  Bg = Bg
  None = None
  Callers = {c1, c2}
  EventHandlers = {e1}
  TimerHandlers = {t1}
  PlugFds = {1}
  TimerFds = {2}
  Intervals = {5}
  MaxTimerRef = 2
  GuardedRequests = TRUE
  ReentrantRequests = TRUE
SPECIFICATION Spec
INVARIANTS DispatchOnlyRegistered SlotMapsAgree CompletionAlive OneAnswerPerRequest
PROPERTIES ImplementsService
