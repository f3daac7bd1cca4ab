SPECIFICATION MCSpec
CONSTANTS
  Call = {c1, c2, c3}
  Threshold = 2
  WindowMs = 2
  RecoveryTimeout = 1
  Timeout = 1
  MaxTime = 3
  MaxOps = 1
  Store = {"memory", "bucket", "redis"}
  Limit = 2
  WindowTicks = 3
  MaxAge = 3
  Lag = 1
  Requests = 6
  MaxClock = 7
  Options <- MCOptions
  Effects = {"none", "remove", "stop", "restart", "disable"}
  EnabledAtAdd = {TRUE, FALSE}
  MaxJobs = 2
  MaxErrors = 2
  MaxLeaked = 1
  Schedules = {"every5Minutes", "hourly", "daily", "weekly", "monthly", "yearly",
               "weekdaysMorning", "weekendsNoon"}
  Minutes = 3
  Hours = 2
  Days = 4
  Weekdays = 4
  Months = 2
  Starts = {0, 4}
  Horizon = 50
  MaxDelay = 48
  MaxLate = 1
  Path = {"f", "g", "h"}
  Reader = {"p", "q"}
  Sizes = {1, 2}
  MaxFileSize = 2
  MaxEntries = 2
  MaxBytes = 3
  CacheTtl = 1
  MaxFileVersion = 2
INVARIANTS Accounting RateBounded TimerWhenDue NoOverlap RunsOnSchedule CacheSound
PROPERTY MovesForCause
CHECK_DEADLOCK FALSE
