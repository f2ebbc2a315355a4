\* The automatic repair of a root, while one user retries and cancels.
SPECIFICATION FairSpec
CONSTANTS
  Consoles = {c1}
  Repairer = repairer
  Parts = {0, 1}
  MaxRounds = 2
  MaxManual = 1
  MaxCancels = 1
INVARIANTS
  OneActiveChild
  RoundsBounded
PROPERTIES
  RepairConverges
CHECK_DEADLOCK FALSE
