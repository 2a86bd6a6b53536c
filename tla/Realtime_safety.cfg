SPECIFICATION Spec
CONSTANTS
  Sessions = {s1, s2}
  Handlers = {h1, h2}
  RequestIds = {q1, q2}
  CallIds = {c1, c2}
  Events = {e1}
  ToolLimit = 1
  MaxStays = 3
  MaxFailures = 2
SYMMETRY Symmetry
VIEW NoHistory
INVARIANTS
  ReservationIsHeld
  RowsOnlyCurrentStay
  ToolRunsOnce
  ToolLimitKept
  RealtimeInv
PROPERTIES
  OverIsOver
  ResultIsFinal
  LedgerRefinement
CHECK_DEADLOCK FALSE
