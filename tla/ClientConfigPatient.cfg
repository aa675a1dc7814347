SPECIFICATION Spec
CONSTANTS
  Torn = Torn
  MaxEdits = 3
  MaxExits = 2
  MaxOverlap = 1
INVARIANTS
  TypeOK
  StartupKeepsConfig
  SavedWhenQuiet
CHECK_DEADLOCK FALSE
