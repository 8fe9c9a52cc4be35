\* Two clients, two builds, an exclusive lock; fairness for RequestsEnd only.
SPECIFICATION FairSpec
CONSTANTS
  Proc = {p1, p2}
  Build = {b1, b2}
  Exclusive = TRUE
  None = None
INVARIANTS
  TypeOK
  SoundUnlessRotted
  RestoreBelongs
  ReturnedPathKept
  FailureRollsBack
PROPERTIES
  ImplementsCell
  RequestsEnd
CHECK_DEADLOCK FALSE
