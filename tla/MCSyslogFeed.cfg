\* One thread adds messages, a subscriber connects twice.
CONSTANTS
  s1 = s1
  Senders = {s1}
  Free = Free
  MaxMsg = 2
  MaxConn = 2
  Keep = 1
SPECIFICATION Spec
INVARIANTS
  TypeOK
  SenderOrder
  SentOnce
  OneConnection
  OperableReads
CHECK_DEADLOCK FALSE
