SPECIFICATION MCSpec
CONSTANTS
  Call = {c1, c2, c3}
  MaxBackoff = 3
  Proc = {p1, p2}
  Poll = {q1, q2}
  Loop = {l1, l2}
  Job = {j1, j2}
  MaxLoops = 1
  MaxLag = 0
  MaxOps = 1
  MaxAttempts = 2
  Delays = {0, 1}
INVARIANTS OneProcess JobsKept
PROPERTIES SpawnsBackOff CallsSettle JobsSettle
CHECK_DEADLOCK FALSE
