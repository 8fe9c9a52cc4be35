\* Two machines, two operations, two requests at a time, two builds, one change.
SPECIFICATION Spec
CONSTANTS
  Machine = {m1, m2}
  Op = {o1, o2}
  Handler = {h1, h2}
  Build = {b1, b2}
  PerClient = 1
  Global = 2
  Change = {"error", "stuck", "death", "local", "decay"}
  MaxChange = 1
  Part = Part
  None = None
SYMMETRY Symmetry
INVARIANTS
  TypeOK
  ResourcesKept
  AnswersTrue
  RestoreWithEntry
PROPERTIES
  AnsweredIsFinal
  ValidKept
CHECK_DEADLOCK FALSE
