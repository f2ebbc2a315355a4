\* One service process over one job: resume, cancel, stop, lost lease, liveness.
SPECIFICATION FairSpec
CONSTANTS
  Workers = {w1}
  NoWorker = none
  NumJobs = 1
  NumUnits = 3
  KeyOf <- OneKey
  MaxAttempts = 2
  MaxFaults = 2
  Recyclable = {}
INVARIANTS
  TypeOK
  NoUnitSkipped
  SucceededIsVerified
  NoOrphan
  CancelWithinOneUnit
PROPERTIES
  StoredUnitIsFinal
  CheckpointMonotone
  
  StopEnds
CHECK_DEADLOCK FALSE
