SPECIFICATION FairSpec
CONSTANTS
  MaxMsgs = 3
  MaxData = 1
  PipeCap = 2
  IndCap = 1
  MaxNodes = 4
  QUEUE_SIZE = 2
  MaxPoints = 4
  MaxRuns = 2
  MaxAddrs = 3
  MaxBytes = 3
  RECVSIZE = 2
INVARIANTS
  CrashNeedsCrowd
  SentInOrder
  NoStuckMessage
  ListSound
  
PROPERTIES
  ChatProgress
  ClientsGoOn
\* The user may stop typing, and the clients end.
CHECK_DEADLOCK FALSE
