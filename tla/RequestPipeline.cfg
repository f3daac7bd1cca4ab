SPECIFICATION Spec
CONSTANTS
  r1 = r1
  r2 = r2
  Request = {r1, r2}
  Ctx = {"c1", "c2"}
  PoolSize = 1
  PoolMax = 1
  Middleware = {"flat", "next", "session", "detached"}
  MaxUsed = 2
  Patterns <- MCPatterns
  Paths <- MCPaths
  Prefix <- MCPrefix
  Labels <- MCLabels
  Code <- MCCode
  Locale <- MCLocale
  MaxTable = 2
SYMMETRY Requests
INVARIANTS OwnContext HandlerLast Answered FindsMostSpecific SearchLosesNoMore
CHECK_DEADLOCK FALSE
