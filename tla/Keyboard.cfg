SPECIFICATION Spec
CONSTANTS
  Keys <- MCKeys
  PauseKey = TRUE
  MaxHeld = 2
  MaxMoves = 5
  MaxWire = 4
INVARIANT InStep
PROPERTY CommandsMeant
PROPERTY QuitAnswered
CHECK_DEADLOCK FALSE
