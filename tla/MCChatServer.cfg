SPECIFICATION Spec
CONSTANTS
  Session = {s1, s2}
  MaxRecent = 2
  MaxPackSize = 16384
  HeaderLength <- Lengths
  MaxBody = 2
SYMMETRY Symmetry
INVARIANTS
  TypeOK
  StreamIsWindow
  HistoryIsTail
  OneWrite
  OneWatchdog
  MemberIsRead
  DeadlineFollowsRead
  BroadcastOnce
PROPERTIES
  NoIdleDisconnect
  RelaySpec
CHECK_DEADLOCK FALSE
