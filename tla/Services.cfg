CONSTANTS
  Past = 1
  LastDay = 5
  Lookback = 2
  CalendarDays = 3
  OthersLeaveGaps = FALSE
  Databases = {dA, dB}
  SideLanes <- QmtLanes
  Accounts = {a1, a2}
  MaxAsks = 2
  MaxEdits = 1
  MaxFaults = 2
  Urls = {u1, u2}
  HolidayDays = 2
  MaxClauses = 1
  MaxPublished = 2
  Readers = {r1, r2}
  LastPoint = 3
  Cap = 2
  Window = 2
  Limits = {1, 2}
  MaxFailures = 1
  Codes = {c1, c2}
  LastTime = 2
  PageSize = 1
  MaxWrites = 2
  MaxRuns = 2
  LastRangeDay = 4
  ChunkWidth = 3
  RowsOfPage = 1
  HeldBefore = {{2}, {1, 4}}
  ClosedDays = {4}
  Windows = {w1, w2}
  MaxStores = 1
  MaxStops = 1
  MaxVerifications = 1
  MaxRepairs = 2
SPECIFICATION ServicesSpec
INVARIANTS
  NoDaySkipped
  JobsStayInTheirDatabase
  CapabilityOfAccount
  
  CompleteOrRefused
  ExportIsSnapshot
PROPERTIES
  CaughtUp
  WorkersReturn
  VerdictOfOneMoment
  RepairAsksForWhatWasShown
CHECK_DEADLOCK FALSE
