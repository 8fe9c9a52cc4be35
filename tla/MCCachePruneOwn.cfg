\* One process that prunes by itself after its own hit; no limit but age.
SPECIFICATION Spec
CONSTANTS
  None = None
  Proc = {p1}
  Id = {1}
  Retention = 1
  MaxEntries = None
  Lease = 1
  Unreadable = {}
  MaxTime = 2
PROPERTIES
  OwnHitKept
CHECK_DEADLOCK FALSE
