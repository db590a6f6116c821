\* Every call of the facades.
CONSTANTS
  t1 = t1
  t2 = t2
  f1 = f1
  None = None
  Task = {t1, t2}
  Fd = {f1}
  Ops = {"read", "write", "run_loop", "run_delay", "yield", "holding",
         "holding_until", "wakeup", "cancel", "exit", "atexit"}
  MaxSpawn = 3
SYMMETRY Symmetry
SPECIFICATION Spec
INVARIANTS
  TypeOK
  NoLostTask
  CancelReaches
  UnlistedIsDue
  ListIsLive
PROPERTY
  CoopSpec
