CONSTANTS
  Absent = Absent
  Nobody = Nobody
  d1 = d1
  d2 = d2
  Daemons = {d1, d2}
  Settings <- MCSettings
  MaxEdits = 2
  MaxRuns = 2
SPECIFICATION Spec
SYMMETRY MCSymmetry
INVARIANTS FilesSafe EndpointsServed InfoTrue
CHECK_DEADLOCK FALSE
