SPECIFICATION FairSpec
CONSTANTS
  Recipients = 2
  MinPackSize = 1570
  MaxPackSize = 16384
  SyncMarkerSize = 4
  ReadQueueSize = 4
  HeaderLength <- Lengths
  MaxMessages = 2
  MaxPackets = 3
INVARIANTS
  TypeOK
  SendsInOrder
  OneWrite
  TimerFollowsBody
PROPERTIES
  LineRelaySpec
  BodyReadEnds
  QueueDrains
CHECK_DEADLOCK FALSE
