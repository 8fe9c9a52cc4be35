\* Two clients, two handlers at a time, two runs of the server.
SPECIFICATION Spec
CONSTANTS
  Client = {c1, c2}
  Slot = {s1, s2}
  MaxGen = 3
  MaxSession = 2
  None = None
SYMMETRY Symmetry
INVARIANTS
  TypeOK
  OneUse
  ActiveWasStored
  TrustKept
PROPERTIES
  ActivatesOnlyIssued
CHECK_DEADLOCK FALSE
