\* An error may find a task twice, and no two tasks get the same fire time.
CONSTANTS
  t1 = t1
  t2 = t2
  t3 = t3
  None = None
  Task = {t1, t2, t3}
  MaxTime = 4
  Ties = FALSE
  Twice = TRUE
SPECIFICATION Spec
CHECK_DEADLOCK FALSE
INVARIANT
  ListedExist
