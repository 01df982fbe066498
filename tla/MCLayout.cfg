SPECIFICATION Spec
CONSTANTS
  Characters = {"x"}
  vert = 1
  margin = 1
  Windows <- Sizes
  Lines <- Typed
  Texts <- Received
  MiniRows <- Heights
  MaxMessages = 2
INVARIANT DrawnInPlace
CHECK_DEADLOCK FALSE
