SPECIFICATION Spec
CONSTANTS
  Torn = Torn
  MaxEdits = 2
  MaxExits = 0
  MaxOverlap = 2
INVARIANTS
  SavedWhenQuiet
CHECK_DEADLOCK FALSE
