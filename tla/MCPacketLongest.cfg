SPECIFICATION BothSpec
CONSTANTS
  MessageLength <- Messages
  SealedLength <- SealedMessages
  RandomLength <- Paddings
INVARIANT LongestPacketAccepted
CHECK_DEADLOCK FALSE
