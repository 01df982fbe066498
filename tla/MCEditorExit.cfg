SPECIFICATION Spec
CONSTANTS
  Chars <- Letters
  MaxKeys = 5
CHECK_DEADLOCK FALSE
INVARIANTS
  UndoNeverExits
