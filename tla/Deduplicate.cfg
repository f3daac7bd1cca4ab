SPECIFICATION MCSpec
CONSTANTS
  Conn = {w1, w2, w3}
  Room = {o1, o2, o3}
  MaxRooms = 2
  MaxConns = 2
  Request = {r1, r2, r3}
  MaxWait = 2
  UseCache = TRUE
  XFetch = TRUE
  Ttl = 2
  TtlScale = 2
  Habit = {"later", "closes"}
  Connections = 3
  Events = 2
  MaxRetries = 1
  MaxManual = 1
  Key = {"a", "b"}
  MaxBatch = 2
  MaxLoads = 3
  Token = {"a", "b", "c"}
  Configs <- MCConfigs
  Late = {"b"}
  Resolver = {"r1", "r2"}
  MaxCalls = 5
  MaxDepth = 3
  MaxVersion = 2
  Bus = {"b", "c"}
  Handler = {"h"}
  MaxHandlers = 2
  MaxEvents = 2
  MaxOps = 4
INVARIANTS OneAtBackend NoneOutlived Gapless MadeOnce OwnValue HeardOnce
PROPERTIES WaitersAnswered CatchesUp ResolvesSettle
CHECK_DEADLOCK FALSE
