\* One service process over two jobs, one of which may be recycled.
SPECIFICATION Spec
CONSTANTS
  Workers = {w1}
  NoWorker = none
  NumJobs = 2
  NumUnits = 1
  KeyOf <- OneKey
  MaxAttempts = 2
  MaxFaults = 1
  Recyclable = {1}
INVARIANTS
  OldestFirst
PROPERTIES
  LedgerKept
CHECK_DEADLOCK FALSE
