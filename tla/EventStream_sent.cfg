SPECIFICATION Spec
CONSTANTS
  Habit = {"at once"}
  Connections = 1
  Events = 2
  MaxRetries = 1
  MaxManual = 0
INVARIANT SentIsStreamed
CHECK_DEADLOCK FALSE
