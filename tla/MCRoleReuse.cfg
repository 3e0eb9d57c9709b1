SPECIFICATION Spec
CONSTANTS
  Account = {x1, x2}
  Agent = {a1, a2}
  None = None
  Worlds <- Reuse
  MaxChange <- TwoChanges
  MaxLock = 2
CHECK_DEADLOCK FALSE
INVARIANT ServesOwnRole
