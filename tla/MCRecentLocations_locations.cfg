SPECIFICATION Spec
CONSTANTS
  Code = {a, b, c}
  Task = {t1, t2, t3}
  RecentLimit = 2
  MaxRows = 5
  MaxFaults = 1
SYMMETRY MCSymmetry
INVARIANTS TypeOK BoundedRows NewestListed LatestListed
CHECK_DEADLOCK FALSE
