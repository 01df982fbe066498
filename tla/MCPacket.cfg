SPECIFICATION BothSpec
CONSTANTS
  MessageLength <- Messages
  SealedLength <- SealedMessages
  RandomLength <- Paddings
INVARIANTS
  ShownIsSent
  ShortGetsThrough
  RelayedIsReadable
  DialectsAgree
CHECK_DEADLOCK FALSE
