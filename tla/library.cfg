\* One behaviour is one part: the constants are those of the parts.
CONSTANTS
  None = None
  a = a
  b = b
  c1 = c1
  t1 = t1
  u = u
  x1 = x1
  y = y
  k = k
  Dummy = Dummy
  Key = {a, b, c1}
  Item = {a, b, c1}
  Root = a
  Fetcher = {t1, u}
  MaxSize = 2
  Symbol = {x1, y}
  MaxFilter = 3
  EventKey = {k}
  Val = {x1, y}
  MaxSets = 3
  MaxTriggers = 2
  MaxNested = 2
  Buffer = {a, b, c1}
  Task = {t1, u}
  MaxCount = 2
  MaxOther = 1
  Byte = {0, 32, 37, 97, 255}
  MaxText = 5
  Bits = 1
  PortBits = 1
  Undefined = TRUE
  Fd = {1}
  Command = {t1, u}
  Arg = {x1, y}
  MaxArg = 2
  Char = {64, 39, 97}
  MaxPass = 4
  Name = {1, 2, 3}
  Known = {1, 3}
  Word = {x1, y}
  MaxArgs = 3
  Id = {x1, y}
  Handle = {t1, u}
  Datum = {a}
  MaxBorn = 2
  MaxTime = 4
  Ties = FALSE
  Twice = FALSE
  Adapter = {t1, u}
  Caller = {a, b}
  Number = {1, 2}
  Here = {k}
  Addr = {x1, y}
  MaxListen = 2
SPECIFICATION Spec
SYMMETRY Symmetry
CHECK_DEADLOCK FALSE
INVARIANTS
  TypeOK
  ResultIsReply
  ResolvedIsKnown
  ContainersAreSound
  EveryChangeHeard
  TasksAreOwn
  RemovesBelow
  NetIsSound
  ArgsAreSet
  ConversionsHold
  MapIsSound
PROPERTIES
  RemovalIsLocal
  QueueSpec
