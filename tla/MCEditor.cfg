SPECIFICATION Spec
CONSTANTS
  Chars <- Letters
  MaxKeys = 7
CHECK_DEADLOCK FALSE
INVARIANTS
  TypeOK
PROPERTIES
  CursorLeavesByToggle
  UndoTakesBack
  RedoRepeats
