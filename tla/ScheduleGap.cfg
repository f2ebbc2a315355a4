CONSTANTS
  Past = 2
  LastDay = 6
  Lookback = 2
  CalendarDays = 3
  OthersLeaveGaps = TRUE
SPECIFICATION SchedSpec
INVARIANTS
  NoDaySkipped
CHECK_DEADLOCK FALSE
