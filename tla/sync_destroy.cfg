\* An object is destroyed while tasks wait in it.
CONSTANTS
  t0 = t0
  t1 = t1
  t2 = t2
  q = q
  s = s
  g = g
  j1 = j1
  j2 = j2
  None = None
  Task = {t0, t1, t2}
  Inner = t0
  Sem = {q, s}
  Sig = {g}
  Queue = q
  Job = {j1, j2}
  MaxGive = 3
  Reuse = FALSE
  Abandon = TRUE
SPECIFICATION Spec
CHECK_DEADLOCK FALSE
INVARIANT
  CallsHaveTheirObject
