\* Both loggers: two threads log, the worker logs too, the logger is deleted.
CONSTANTS
  a1 = a1
  a2 = a2
  Adders = {a1, a2}
  Worker = Worker
  Owner = Owner
  Free = Free
  Types = {"LogToFile", "LogToSyslog"}
  MaxMsg = 1
  MaxCall = 2
  Batch = 1
SPECIFICATION FairSpec
INVARIANTS
  TypeOK
  Conserved
  NoOtherKnot
PROPERTIES
  StopHandlesAll
  Handled
  LogReturns
  OwnerReturns
CHECK_DEADLOCK FALSE
