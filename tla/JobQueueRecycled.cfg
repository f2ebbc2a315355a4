\* A job cancelled in the console while it starts, then recycled.
SPECIFICATION Spec
CONSTANTS
  Workers = {w1}
  NoWorker = none
  NumJobs = 1
  NumUnits = 1
  KeyOf <- OneKey
  MaxAttempts = 1
  MaxFaults = 0
  Recyclable = {1}
INVARIANTS
  RejectedStoredNothing
CHECK_DEADLOCK FALSE
