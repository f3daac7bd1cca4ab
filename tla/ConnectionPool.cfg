SPECIFICATION MCSpec
CONSTANTS
  Client = {c1, c2, c3}
  MaxSize = 1
  MinSize = 1
  CompactAt = 1
  File = {1, 2}
  Colliding = {}
  Proc = {p1, p2}
  Flavour = {"migrator", "runner"}
  MaxCommands = 4
  MaxChanges = 1
INVARIANTS Ownership DriftExcused
PROPERTIES ImplementsQueue WaitersServed
CHECK_DEADLOCK FALSE
