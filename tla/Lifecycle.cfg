SPECIFICATION MCSpec
CONSTANTS
  Call = {c1, c2}
  Conn = {w1, w2}
  MaxHandlers = 2
  Plugin = {"a", "b", "c"}
  Graphs <- MCGraphs
  Hooked = {"b"}
  MayFail = {"b"}
  MaxDeps = 2
  Task = {"t1", "t2", "t3", "t4", "t5", "t6", "t7", "t8"}
INVARIANTS DrainedFirst CleanExit InitialisationOrder DepsBeforeApply FinalAwaitsAll
PROPERTIES SignalEnds EventuallyApplied
CHECK_DEADLOCK FALSE
