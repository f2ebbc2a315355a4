CONSTANTS
  Pairs = {k1, k2}
  MaxBreaks = 1
  MaxLate = 2
  TPairs = {k1, k2}
  MaxLosses = 2
  MaxBehind = 1
  Quotes = {q1, q2}
  MaxStarts = 2
  MaxRefusals = 2
  MaxInbox = 2
  Lists = {l1, l2}
  MaxGenerations = 5
  MaxQueue = 2
SPECIFICATION LinksSpec
INVARIANTS
  QuotesOfCurrentWatch
PROPERTIES
  ClientSettles
  LinkSettles
  CleanSlate
CHECK_DEADLOCK FALSE
