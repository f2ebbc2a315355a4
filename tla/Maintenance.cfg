CONSTANTS
  Plans = {p1, p2}
  d1 = d1
  of = of
  own = own
  Datasets = {d1}
  Payloads = {of, own}
  DatasetOf <- MCDatasetOf
  Settings = {s1}
  Windows = {w1}
  Ends = {1}
  MaxEdits = 4
  Bound = {own}
  MaxJobs = 2
  MaxPreviews = 1
SYMMETRY PlansAlike
SPECIFICATION Spec
INVARIANTS
  OneMaintainer
  RecycledIsQuiet
PROPERTIES
  EditReplacesWhatWasShown
  QueuedAsAskedFor
CHECK_DEADLOCK FALSE
