SPECIFICATION Spec
CONSTANTS
  Calls = {c1, c2}
  Devices = {d}
  Rows <- Remotes
  MaxAge = 1
  Configured = 3
  MaxTime = 2
  MaxTurns = 2
  MaxStays = 2
  MaxTokens = 1
  MaxEdits = 1
  MaxFaults = 1
SYMMETRY Alike
INVARIANTS
  PressInv
  PressWasAsked
  CooldownHolds
  OutcomeOnRecord
CHECK_DEADLOCK FALSE
