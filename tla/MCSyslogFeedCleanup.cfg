\* What the comment says of unused connections.
CONSTANTS
  s1 = s1
  Senders = {s1}
  Free = Free
  MaxMsg = 1
  MaxConn = 1
  Keep = 1
SPECIFICATION FairSpec
PROPERTY
  CleanedUp
CHECK_DEADLOCK FALSE
