\* Two recorders and a scan, two events kept, for one day after their own.
SPECIFICATION Spec
CONSTANTS
  Proc = {p1, p2}
  MaxCount = 2
  Retention = 1
  MaxTime = 2
  MaxId = 4
  None = None
SYMMETRY Symmetry
INVARIANTS
  TypeOK
  CountBounded
  SummaryAccepted
PROPERTIES
  RemovesOnlyDue
CHECK_DEADLOCK FALSE
