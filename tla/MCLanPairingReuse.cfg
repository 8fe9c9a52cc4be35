\* One client that gives up and starts anew.
SPECIFICATION Spec
CONSTANTS
  Client = {c1}
  Slot = {s1, s2}
  MaxGen = 2
  MaxSession = 1
  None = None
PROPERTIES
  OneUseWindow
CHECK_DEADLOCK FALSE
