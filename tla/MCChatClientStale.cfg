SPECIFICATION Spec
CONSTANTS
  Recipients = 2
  MinPackSize = 1570
  MaxPackSize = 16384
  SyncMarkerSize = 4
  ReadQueueSize = 4
  HeaderLength <- Lengths
  MaxMessages = 2
  MaxPackets = 3
INVARIANT HeaderInReadMsg
CHECK_DEADLOCK FALSE
