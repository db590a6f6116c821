\* One task reads from a descriptor, another writes to it.
CONSTANTS
  t1 = t1
  t2 = t2
  f1 = f1
  None = None
  Task = {t1, t2}
  Fd = {f1}
  Ops = {"read", "write"}
  MaxSpawn = 2
SPECIFICATION Spec
INVARIANT
  WaitersAreArmed
