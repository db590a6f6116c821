\* A task that waited to write in vain goes on to do something else.
CONSTANTS
  t1 = t1
  t2 = t2
  f1 = f1
  None = None
  Task = {t1, t2}
  Fd = {f1}
  Ops = {"write", "holding_until"}
  MaxSpawn = 3
SPECIFICATION Spec
INVARIANT
  EventsReachWaiters
