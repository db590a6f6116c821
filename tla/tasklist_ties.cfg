\* Two tasks may get the same fire time.
CONSTANTS
  t1 = t1
  t2 = t2
  None = None
  Task = {t1, t2}
  MaxTime = 2
  Ties = TRUE
  Twice = FALSE
SPECIFICATION Spec
PROPERTY
  InsertKeepsAll
