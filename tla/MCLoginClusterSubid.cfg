SPECIFICATION Spec
CONSTANTS
  Token = {t1, t2}
  Node = {n1, n2}
  Conn = {c1, c2}
  None = None
  Worlds = {"crash"}
  MaxUid = 3
  MaxId <- IdBound
  MaxNotices = 3
SYMMETRY Symmetry
CHECK_DEADLOCK FALSE
INVARIANT SingleSession
