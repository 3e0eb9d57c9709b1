SPECIFICATION Spec
CONSTANTS
  Uid = {u1, u2}
  Agent = {a1, a2, a3}
  None = None
  maxclient = 1
  Reconnects = TRUE
  MaxId = 3
  MaxWorkers = 1
  MaxInbox = 1
SYMMETRY Symmetry
CHECK_DEADLOCK FALSE
INVARIANT AgentConserved
