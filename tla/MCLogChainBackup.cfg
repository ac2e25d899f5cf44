\* The backup of a log file that has grown too large fails.
CONSTANTS
  a1 = a1
  Adders = {a1}
  Worker = Worker
  Owner = Owner
  Free = Free
  Types = {"LogToFile"}
  MaxMsg = 2
  MaxCall = 0
  Batch = 1
SPECIFICATION FairSpec
PROPERTIES
  QueueIsSaved
CHECK_DEADLOCK FALSE
