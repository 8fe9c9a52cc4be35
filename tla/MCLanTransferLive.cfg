\* Two machines, two operations, one request at a time, one build, one change.
SPECIFICATION FairSpec
CONSTANTS
  Machine = {m1, m2}
  Op = {o1, o2}
  Handler = {h1}
  Build = {b1}
  PerClient = 1
  Global = 1
  Change = {"stuck", "death"}
  MaxChange = 1
  Part = Part
  None = None
PROPERTY TransfersEnd
CHECK_DEADLOCK FALSE
