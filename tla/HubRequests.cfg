SPECIFICATION FairSpec
CONSTANTS
  Requests = {r1, r2}
  Clients = {c1}
  MaxSessions = 2
  MaxGone = 1
INVARIANTS
  ResultIsFinal
  TwoAnswersAtMost
  NoRequestForgotten
PROPERTIES
  EveryRequestAnswered
CHECK_DEADLOCK FALSE
