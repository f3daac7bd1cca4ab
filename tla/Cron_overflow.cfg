SPECIFICATION Spec
CONSTANTS
  Schedules = {"monthly"}
  Minutes = 3
  Hours = 2
  Days = 4
  Weekdays = 4
  Months = 2
  Starts = {0, 1, 2, 3, 4, 5, 6, 7}
  Horizon = 60
  MaxDelay = 20
  MaxLate = 0
INVARIANT OnlyOnSchedule
CHECK_DEADLOCK FALSE
