SPECIFICATION SSpec
CONSTANTS
  None = None
  Key = {k1, k2}
  MaxCalls = 4
  MaxFaults = 2
  User = {v1, v2}
  Fd = {s1, s2, s3}
  MaxHandshake = 2
  Polite = {TRUE, FALSE}
  MAILBOX_LIMIT = 2
  MaxMail = 4
  MaxPull = 2
  n1 = n1
  n2 = n2
  a1 = a1
  a2 = a2
  a3 = a3
  Node = {n1, n2}
  Agent = {a1, a2, a3}
  Home <- Homes
  Uuid = {u1}
  Channel = {"world", "private"}
  World = "world"
  chat_max_buffer = 2
  Budgets <- Crashes
SYMMETRY Symmetry
CHECK_DEADLOCK FALSE
INVARIANTS BackupExact NoReplay BindingsExact BoxesBounded Delivered
