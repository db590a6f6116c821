\* One behaviour is one service; three calls and one query, two keepalive tasks, streams of
\* three bytes, two connections per listener, two datagrams per peer.
CONSTANTS
  None = None
  a = a
  b = b
  quit = quit
  Call = {a, b, quit}
  Quit = quit
  Tasks = {a}
  Fd = {1, 2}
  PipeMax = 2
  x1 = x1
  k1 = k1
  k2 = k2
  Cmd = {x1}
  Keeper = {k1, k2}
  Conn = {1, 2}
  Greeting = {}
  MaxPing = 1
  MaxMessage = 1
  MaxSubscribe = 1
  Bytes = 3
  SndBuf = 1
  BufSize = 2
  Package = 1
  w = w
  v = v
  Worker = {w, v}
  MaxDial = 2
  p = p
  q = q
  Peer = {p, q}
  MaxData = 2
  Packages = 2
SPECIFICATION FairSpec
CHECK_DEADLOCK FALSE
INVARIANTS
  TypeOK
  RequestsAreServed
  QueriesAreSafe
  StreamsAreWhole
  ListenersKeepOrder
PROPERTIES
  StartsInOrder
  CallersReturn
  QueryReturns
  DupEnds
  ConnectionServed
