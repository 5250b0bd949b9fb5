CONSTANTS
  Versioned <- MCVersioned
  Repeatable <- MCRepeatable
  MaxEdition = 2
  MaxRehearsals = 2
  MaxEdits = 1
  MaxOverrides = 1
  Destructive <- MCDestructive
  Bare <- MCBare
  NoDown <- MCNoDown
  InPlace = TRUE
SPECIFICATION Spec
INVARIANTS GateComplete
PROPERTIES GateSound
CHECK_DEADLOCK FALSE
