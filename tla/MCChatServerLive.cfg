SPECIFICATION FairSpec
CONSTANTS
  Session = {s1, s2}
  MaxRecent = 1
  MaxPackSize = 16384
  HeaderLength <- Lengths
  MaxBody = 1
PROPERTIES
  DeadSessionLeaves
  BodyReadEnds
  QueueDrains
CHECK_DEADLOCK FALSE
