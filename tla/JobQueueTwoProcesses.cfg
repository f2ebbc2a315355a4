\* Two service processes on one schema.
SPECIFICATION Spec
CONSTANTS
  Workers = {w1, w2}
  NoWorker = none
  NumJobs = 1
  NumUnits = 1
  KeyOf <- OneKey
  MaxAttempts = 1
  MaxFaults = 1
  Recyclable = {}
INVARIANTS
  NoOrphan
CHECK_DEADLOCK FALSE
