\* Two retries of one job by the console, one after the other.
SPECIFICATION Spec
CONSTANTS
  Consoles = {c1}
  Repairer = repairer
  Parts = {0}
  MaxRounds = 0
  MaxManual = 2
  MaxCancels = 0
PROPERTIES
  RepairedNotRepeated
CHECK_DEADLOCK FALSE
