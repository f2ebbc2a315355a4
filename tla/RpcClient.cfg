SPECIFICATION FairSpec
CONSTANTS
  Calls = {r1, r2}
  MaxSessions = 2
  MaxBreaks = 1
  MaxCloses = 1
  MaxReplies = 2
INVARIANTS
  QueueHasRoom
  StartedHasReader
PROPERTIES
  SoundSessionKept
  
CHECK_DEADLOCK FALSE
