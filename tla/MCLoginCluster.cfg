SPECIFICATION FairSpec
CONSTANTS
  Token = {t1}
  Node = {n1, n2}
  Conn = {c1, c2}
  None = None
  Worlds = {"crash", "lost", "register"}
  MaxUid = 3
  MaxId <- IdBound
  MaxNotices = 1
CHECK_DEADLOCK FALSE
INVARIANTS SingleSession SessionKnown MarkExact
PROPERTY LoginAnswered
