SPECIFICATION Spec
CONSTANTS
  t1 = t1
  t2 = t2
  e1 = e1
  e2 = e2
  e3 = e3
  e4 = e4
  Threads = {t1, t2}
  Worker = Worker
  Closer = Closer
  Events = {e1, e2}
  MaxBuffer = 2
  MaxFaults = 0
CHECK_DEADLOCK FALSE
INVARIANT CloseLosesNothing
