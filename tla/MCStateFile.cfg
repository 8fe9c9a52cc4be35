SPECIFICATION Spec
CONSTANTS
  Proc = {p1, p2}
  Serial = {s1, s2}
  Peer = {c1}
  MaxListed = 1
  Reader = {r1}
  None = None
SYMMETRY Symmetry
INVARIANTS TypeOK RevokedStaysOut ReadSeesRevocations
PROPERTIES ImplementsRegister
CHECK_DEADLOCK FALSE
