SPECIFICATION Spec
CONSTANTS
  Proc = {p1, p2}
  Policy = {d1, d2}
  Throttle = 2
  MaxTime = 4
  None = None
SYMMETRY Symmetry
INVARIANTS TypeOK MarkerBacked
PROPERTIES ThrottleKept
CHECK_DEADLOCK FALSE
