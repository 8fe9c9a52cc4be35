\* Two processes, one entry; its access record may be unreadable.
SPECIFICATION Spec
CONSTANTS
  None = None
  Proc = {p1, p2}
  Id = {1}
  Retention = 1
  MaxEntries = 0
  Lease = 1
  Unreadable = {1}
  MaxTime = 2
SYMMETRY Symmetry
INVARIANTS
  TypeOK
  LeasedHitKept
PROPERTIES
  OwnEntryKept
  NothingHalfRemoved
CHECK_DEADLOCK FALSE
