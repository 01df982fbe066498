SPECIFICATION FairSpec
CONSTANTS
  MaxClients = 2
  Connections = {c1, c2, c3}
  MaxTyped = 1
INVARIANTS
  TableIsOpen
  SeenIsSame
PROPERTIES
  ClosedIsReleased
CHECK_DEADLOCK FALSE
