SPECIFICATION FairSpec
CONSTANTS
  Uid = {u1}
  Agent = {a1, a2}
  None = None
  maxclient = 1
  Reconnects = FALSE
  MaxId = 3
  MaxWorkers = 3
  MaxInbox = 3
CHECK_DEADLOCK FALSE
INVARIANTS SessionBinding UsernameAsserts KickCanFind
PROPERTIES LoginAnswered AfkReleases
