SPECIFICATION LiveSpec
CONSTANTS
  Calls = {c1, c2}
  Deactivators = {d1, d2}
  Nobody = nobody
  IdleTimeout = TRUE
  Overruns = TRUE
  Callers = {}
  CallIds = {k1}
  Destructive = {k1}
  MaxInFlight = 1
  Edges = {1, 2}
  MaxFrames = 0
  MaxConns = 2
  WClients = {s1, s2}
  Broadcasters = {b1, b2}
  BufferSize = 1
INVARIANTS
  TypeOK
  TransitionIsOwned
  CountIsExact
  IdleIsTimed
  NoSendToClosed
PROPERTIES
  UnusedIsDropped
  OnlineFollows
  PumpsEnd
CHECK_DEADLOCK FALSE
