\* Tasks that wait to read.  No wakeup and no run_loop: see ReadyRuns.
CONSTANTS
  t1 = t1
  t2 = t2
  t3 = t3
  f1 = f1
  f2 = f2
  None = None
  Task = {t1, t2, t3}
  Fd = {f1, f2}
  Ops = {"read", "yield", "holding", "holding_until", "exit"}
  MaxSpawn = 3
SPECIFICATION FairSpec
INVARIANTS
  FdCoherent
  EventsReachWaiters
  WaitersAreArmed
PROPERTIES
  ReadyRuns
  ExitReturns
