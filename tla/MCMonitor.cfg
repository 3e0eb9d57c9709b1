SPECIFICATION FairSpec
CONSTANTS
  center = center
  game = game
  mailbox = mailbox
  res_mgr = res_mgr
  Node <- BothNodes
  Center = center
  Uid = {u1}
  Name <- Both
  Hosts <- Places
  None = None
  Budgets <- Mixed
CHECK_DEADLOCK FALSE
INVARIANT ClosedBeforeAbort
PROPERTIES GhostsGo UserIsListed ShutdownEnds
