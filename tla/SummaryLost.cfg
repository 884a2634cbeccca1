SPECIFICATION Spec
CONSTANTS
  Nothing = Nothing
  p1 = p1
  p2 = p2
  k1 = k1
  k2 = k2
  Procs = {p1, p2}
  Keys = {k1, k2}
  MaxJobs = 3
  MaxDeaths = 1
SYMMETRY Symmetry
INVARIANTS SummaryKept
CHECK_DEADLOCK FALSE
