\* DeleteLogger of a syslog logger whose remote host goes out of service.
CONSTANTS
  a1 = a1
  Adders = {a1}
  Worker = Worker
  Owner = Owner
  Free = Free
  Types = {"LogToSyslog"}
  MaxMsg = 1
  MaxCall = 1
  Batch = 1
SPECIFICATION FairSpec
PROPERTIES
  DeleteReturns
CHECK_DEADLOCK FALSE
