SPECIFICATION FairSpec
CONSTANTS
  Box = {b1, b2}
  None = None
  max_cnt = 2
  MAIL_CACHE_LIMIT = 2
  MAILBOX_LIMIT = 1
  Worlds <- Kinds
  MaxMail <- KindsBound
  MaxObj = 3
CHECK_DEADLOCK FALSE
INVARIANTS MailExact
PROPERTY ExitEnds
