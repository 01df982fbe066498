SPECIFICATION Spec
CONSTANTS
  Width = 3
  MaxText = 3
  MaxQueue = 2
INVARIANTS
  TypeOK
  StuckOnlyByDialog
  TextIsTyped
CHECK_DEADLOCK FALSE
