\* One thread adds messages, a subscriber connects once, nothing is trimmed.
CONSTANTS
  s1 = s1
  Senders = {s1}
  Free = Free
  MaxMsg = 2
  MaxConn = 1
  Keep = 2
SPECIFICATION FairSpec
PROPERTIES
  Reaches
  StopsReturn
  CleanedUpOrReset
CHECK_DEADLOCK FALSE
