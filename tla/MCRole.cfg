SPECIFICATION FairSpec
CONSTANTS
  Account = {x1}
  Agent = {a1, a2}
  None = None
  Worlds <- Kinds
  MaxChange <- KindsBound
  MaxLock = 2
CHECK_DEADLOCK FALSE
INVARIANTS ChangesKept OnlineListed

PROPERTIES KickAnswered EventuallySaved
