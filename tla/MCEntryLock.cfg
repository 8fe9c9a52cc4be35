\* Two processes of one machine and one of another, locks that grow old.
\* Fairness for AttemptEnds and DeadLockRecovered, which forbid symmetry.
SPECIFICATION FairSpec
CONSTANTS
  p1 = p1
  p2 = p2
  foreign = foreign
  Proc = {p1, p2, foreign}
  Serial = {s1}
  HostOf <- MCHostOf
  None = None
  Ages = TRUE
INVARIANTS
  TypeOK
PROPERTIES
  ImplementsService
  AttemptEnds
  DeadLockRecovered
CHECK_DEADLOCK FALSE
