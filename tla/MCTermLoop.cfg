SPECIFICATION FairSpec
CONSTANTS
  MaxKeys = 7
  MaxStack = 3
  MaxConnections = 2
INVARIANTS
  TypeOK
  InsertHasText
  EnteredIsSent
  SocketIsSeen
PROPERTIES
  QueuedIsSent
CHECK_DEADLOCK FALSE
